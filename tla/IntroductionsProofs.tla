------------------------- MODULE IntroductionsProofs -------------------------
(***************************************************************************)
(* For any number of users, passes and requests in flight, and any budget  *)
(* of check-ins and faults.                                                *)
(***************************************************************************)
EXTENDS Introductions, FiniteSetTheorems, TLAPS

LEMMA PairFacts ==
  ASSUME NEW p \in Pairs
  PROVE  /\ p[1] \in Users /\ p[2] \in Users
         /\ Back(p) \in Pairs /\ Back(Back(p)) = p
         /\ Couple(p) \in Couples /\ Couple(Back(p)) = Couple(p)
         /\ p # None
  BY IntroAssumption DEF Pairs, Back, Couple, Couples

\* Two pairs of one couple are the same or each other's back.
LEMMA SameCouple ==
  ASSUME NEW p \in Pairs, NEW q \in Pairs, Couple(p) = Couple(q)
  PROVE  p = q \/ p = Back(q)
  BY DEF Pairs, Back, Couple

LEMMA ReadsArePairs ==
  ASSUME NEW w \in Passes, NEW a \in Users, NEW read \in Reads(w, a)
  PROVE  /\ read \subseteq PairsOf(a) /\ read \subseteq Pairs
         /\ doing[w] = "surface" =>
              read = {} \/ \E p \in Pairs : read = {p} /\ p \in Surfaceable
         /\ doing[w] = "score" => \A p \in read : p[2] \in Ready
         /\ doing[w] \notin {"score", "eval"} => read \subseteq Surfaceable
  BY DEF Reads, Candidates, Shortlist, BestMatch, PairsOf, Surfaceable

\* Every variable keeps its type, and what a pass holds goes with its job.
THEOREM IntroTypeCorrect == Spec => []IntroTypeOK
<1>1. Init => IntroTypeOK
  BY IntroAssumption DEF Init, IntroTypeOK, Idle, PassShape
<1>2. IntroTypeOK /\ [Next]_vars => IntroTypeOK'
  <2> SUFFICES ASSUME IntroTypeOK, [Next]_vars PROVE IntroTypeOK'
    OBVIOUS
  <2> USE DEF IntroTypeOK, tables, passes
  <2>1. ASSUME NEW w \in Passes, NEW j \in Job, StartPass(w, j) PROVE IntroTypeOK'
    <3>1. Ready \subseteq Users /\ Roster \subseteq Users
      BY DEF Ready, Roster
    <3>2. \A x \in Passes : PassShape(x)'
      BY <2>1 DEF StartPass, PassShape, Job
    <3>3. QED BY <2>1, <3>1, <3>2 DEF StartPass
  <2>2. ASSUME NEW w \in Passes, NEW a \in Users, Visit(w, a) PROVE IntroTypeOK'
    <3>1. CASE doing[w] = "ingest"
      <4>1. PICK got \in ProfileOf(a) : fetched' = [fetched EXCEPT ![w] = <<a, got>>]
        BY <2>2, <3>1 DEF Visit
      <4>2. got \in {"below", "ready"}
        BY DEF ProfileOf
      <4>3. \A x \in Passes : PassShape(x)'
        BY <2>2, <3>1, <4>1 DEF Visit, PassShape
      <4>4. QED BY <2>2, <3>1, <4>1, <4>2, <4>3 DEF Visit
    <3>2. CASE doing[w] # "ingest"
      <4>1. PICK read \in Reads(w, a) : todo' = [todo EXCEPT ![w] = read]
        BY <2>2, <3>2 DEF Visit
      <4>2. /\ read \subseteq Pairs
            /\ doing[w] = "surface" => read = {} \/ \E p \in Pairs : read = {p}
        BY ReadsArePairs
      <4>3. \A x \in Passes : PassShape(x)'
        BY <2>2, <3>2, <4>1, <4>2 DEF Visit, PassShape
      <4>4. QED BY <2>2, <3>2, <4>1, <4>2, <4>3 DEF Visit
    <3>3. QED BY <3>1, <3>2
  <2>3. ASSUME NEW w \in Passes, NEW a \in Users, Skip(w, a) PROVE IntroTypeOK'
    <3>1. \A x \in Passes : PassShape(x)'
      BY <2>3 DEF Skip, PassShape
    <3>2. QED BY <2>3, <3>1 DEF Skip, Fault
  <2>4. ASSUME NEW w \in Passes, SaveSnapshot(w) PROVE IntroTypeOK'
    <3>1. \A x \in Passes : PassShape(x)'
      BY <2>4 DEF SaveSnapshot, PassShape
    <3>2. fetched[w] \in Users \X {"below", "ready"}
      BY <2>4 DEF SaveSnapshot
    <3>3. QED BY <2>4, <3>1, <3>2 DEF SaveSnapshot
  <2>5. ASSUME NEW w \in Passes, NEW p \in Pairs, SaveScore(w, p) \/ SaveVerdict(w, p)
        PROVE  IntroTypeOK'
    <3>1. \A x \in Passes : PassShape(x)'
      BY <2>5 DEF SaveScore, SaveVerdict, PassShape
    <3>2. QED BY <2>5, <3>1 DEF SaveScore, SaveVerdict
  <2>6. ASSUME NEW w \in Passes, NEW p \in Pairs,
               Queue(w, p) \/ Refuse(w, p) \/ Unanswered(w, p)
        PROVE  IntroTypeOK'
    <3>1. \A x \in Passes : PassShape(x)'
      BY <2>6 DEF Queue, Refuse, Unanswered, PassShape
    <3>2. CASE Queue(w, p)
      BY <3>1, <3>2 DEF Queue, Deliver
    <3>3. CASE Refuse(w, p)
      BY <3>1, <3>3 DEF Refuse
    <3>4. CASE Unanswered(w, p)
      BY <3>1, <3>4 DEF Unanswered, Deliver, Fault
    <3>5. QED BY <2>6, <3>2, <3>3, <3>4
  <2>7. ASSUME NEW w \in Passes, NEW p \in Pairs, SaveShown(w, p) PROVE IntroTypeOK'
    <3>1. \A x \in Passes : PassShape(x)'
      BY <2>7 DEF SaveShown, PassShape
    <3>2. QED BY <2>7, <3>1 DEF SaveShown
  <2>8. ASSUME NEW w \in Passes, Finish(w) \/ Crash(w) PROVE IntroTypeOK'
    <3>1. Stop(w) /\ faults' \in Nat
      BY <2>8 DEF Finish, Crash, Fault
    <3>2. \A x \in Passes : PassShape(x)'
      BY <3>1 DEF Stop, PassShape
    <3>3. QED BY <3>1, <3>2 DEF Stop
  <2>9. ASSUME NEW p \in Pairs, OpenSession(p) \/ NoResponse(p) PROVE IntroTypeOK'
    <3>1. \A x \in Passes : PassShape(x)'
      BY <2>9 DEF OpenSession, NoResponse, PassShape
    <3>2. QED BY <2>9, <3>1 DEF OpenSession, NoResponse
  <2>10. ASSUME NEW h \in Handlers, NEW p \in Pairs, NEW yes \in BOOLEAN, Respond(h, p, yes)
         PROVE  IntroTypeOK'
    <3>1. \A x \in Passes : PassShape(x)'
      BY <2>10 DEF Respond, PassShape
    <3>2. QED BY <2>10, <3>1 DEF Respond
  <2>11. ASSUME NEW h \in Handlers, ReadReverse(h) \/ CreateMeet(h) \/ CreateFails(h)
         PROVE  IntroTypeOK'
    <3>1. \A x \in Passes : PassShape(x)'
      BY <2>11 DEF ReadReverse, CreateMeet, CreateFails, PassShape
    <3>2. reply[h] \in [pair : Pairs, at : {"saved", "mutual"}]
      BY <2>11 DEF ReadReverse, CreateMeet, CreateFails, Idle
    <3>3. reply' \in [Handlers -> [pair : Pairs, at : {"saved", "mutual"}] \cup {Idle}]
      BY <2>11, <3>2 DEF ReadReverse, CreateMeet, CreateFails
    <3>4. meets' \in [Couples -> Nat] /\ faults' \in Nat
      BY <2>11, <3>2, PairFacts DEF ReadReverse, CreateMeet, CreateFails, Fault
    <3>5. QED BY <2>11, <3>1, <3>3, <3>4 DEF ReadReverse, CreateMeet, CreateFails
  <2>12. ASSUME NEW u \in Users, Erase(u) PROVE IntroTypeOK'
    <3>1. \A x \in Passes : PassShape(x)'
      BY <2>12 DEF Erase, EraseMemory, EraseAccount, EraseRows, EraseMeets, PassShape
    <3>2. CASE EraseMemory(u)
      BY <3>1, <3>2 DEF EraseMemory
    <3>3. CASE EraseAccount(u)
      BY <3>1, <3>3 DEF EraseAccount
    <3>4. CASE EraseRows(u)
      BY <3>1, <3>4 DEF EraseRows
    <3>5. CASE EraseMeets(u)
      BY <3>1, <3>5 DEF EraseMeets
    <3>6. QED BY <2>12, <3>2, <3>3, <3>4, <3>5 DEF Erase
  <2>13. CASE UNCHANGED vars
    BY <2>13 DEF vars, PassShape
  <2> HIDE DEF IntroTypeOK
  <2>14. QED
    BY <2>1, <2>2, <2>3, <2>4, <2>5, <2>6, <2>7, <2>8, <2>9, <2>10, <2>11, <2>12, <2>13
    DEF Next, Pass, Answer
<1>3. QED BY <1>1, <1>2, PTL DEF Spec

-------------------------------------------------------------------------------
(* Answers and meets.                                                       *)

\* The steps that touch what the answers and the meets are about.
LEMMA AnswerSteps ==
  ASSUME [Next]_vars
  PROVE  \/ \E w \in Passes, p \in Pairs : SaveShown(w, p)
         \/ \E h \in Handlers, p \in Pairs, yes \in BOOLEAN : Respond(h, p, yes)
         \/ \E h \in Handlers : ReadReverse(h) \/ CreateMeet(h) \/ CreateFails(h)
         \/ \E u \in Users : EraseRows(u) \/ EraseMeets(u)
         \/ UNCHANGED <<match, meets, reply, agreed>>
<1> USE DEF tables, passes
<1>1. CASE UNCHANGED vars
  BY <1>1 DEF vars
<1>2. ASSUME NEW w \in Passes, NEW j \in Job, StartPass(w, j)
      PROVE  UNCHANGED <<match, meets, reply, agreed>>
  BY <1>2 DEF StartPass
<1>3. ASSUME NEW w \in Passes, NEW a \in Users, Visit(w, a) \/ Skip(w, a)
      PROVE  UNCHANGED <<match, meets, reply, agreed>>
  BY <1>3 DEF Visit, Skip
<1>4. ASSUME NEW w \in Passes, SaveSnapshot(w) \/ Finish(w) \/ Crash(w)
      PROVE  UNCHANGED <<match, meets, reply, agreed>>
  BY <1>4 DEF SaveSnapshot, Finish, Crash, Stop
<1>5. ASSUME NEW w \in Passes, NEW p \in Pairs,
             \/ SaveScore(w, p) \/ SaveVerdict(w, p) \/ Queue(w, p)
             \/ Refuse(w, p) \/ Unanswered(w, p)
      PROVE  UNCHANGED <<match, meets, reply, agreed>>
  BY <1>5 DEF SaveScore, SaveVerdict, Queue, Refuse, Unanswered
<1>6. ASSUME NEW p \in Pairs, OpenSession(p) \/ NoResponse(p)
      PROVE  UNCHANGED <<match, meets, reply, agreed>>
  BY <1>6 DEF OpenSession, NoResponse
<1>7. ASSUME NEW u \in Users, EraseMemory(u) \/ EraseAccount(u)
      PROVE  UNCHANGED <<match, meets, reply, agreed>>
  BY <1>7 DEF EraseMemory, EraseAccount
<1>8. QED
  BY <1>1, <1>2, <1>3, <1>4, <1>5, <1>6, <1>7 DEF Next, Pass, Answer, Erase

\* An accepted row, and a handler that goes on, stand for a yes of that user.
AnswerIsOwn ==
  /\ \A p \in Pairs : match[p] = "accepted" => p \in agreed
  /\ \A h \in Handlers : reply[h] # Idle => reply[h].pair \in agreed

\* No meet, and no handler about to create one, without the yes of both.
THEOREM MeetsMutual == Spec => []MeetIsMutual
<1> DEFINE IInv == AnswerIsOwn /\ MeetIsMutual
<1>1. Init => IInv
  <2> SUFFICES ASSUME Init PROVE IInv
    OBVIOUS
  <2>1. \A p \in Pairs : meets[Couple(p)] = 0 /\ match[p] = "none"
    BY PairFacts DEF Init
  <2>2. \A h \in Handlers : reply[h] = Idle /\ Idle.at = "idle"
    BY DEF Init, Idle
  <2>3. QED BY <2>1, <2>2 DEF AnswerIsOwn, MeetIsMutual
<1>2. IntroTypeOK /\ IInv /\ [Next]_vars => IInv'
  <2> SUFFICES ASSUME IntroTypeOK, IInv, [Next]_vars PROVE IInv'
    OBVIOUS
  <2> USE DEF IntroTypeOK, AnswerIsOwn, MeetIsMutual, tables, passes
  <2>1. ASSUME NEW w \in Passes, NEW p \in Pairs, SaveShown(w, p) PROVE IInv'
    BY <2>1 DEF SaveShown
  <2>2. ASSUME NEW h \in Handlers, NEW p \in Pairs, NEW yes \in BOOLEAN, Respond(h, p, yes)
        PROVE  IInv'
    <3>1. agreed \subseteq agreed' /\ (yes => p \in agreed')
      BY <2>2 DEF Respond
    <3>2. \A q \in Pairs : match'[q] = "accepted" => q \in agreed'
      BY <2>2, <3>1 DEF Respond
    <3>3. \A k \in Handlers : reply'[k] # Idle =>
             (k # h /\ reply'[k] = reply[k]) \/ (yes /\ reply'[k] = [pair |-> p, at |-> "saved"])
      BY <2>2 DEF Respond
    <3>4. \A k \in Handlers : reply'[k] # Idle => reply'[k].pair \in agreed'
      BY <3>1, <3>3
    <3>5. \A k \in Handlers : reply'[k].at = "mutual" => reply'[k] = reply[k]
      BY <3>3 DEF Idle
    <3>6. QED BY <2>2, <3>1, <3>2, <3>4, <3>5 DEF Respond
  <2>3. ASSUME NEW h \in Handlers, ReadReverse(h) PROVE IInv'
    <3>1. reply[h] \in [pair : Pairs, at : {"saved", "mutual"}] /\ reply[h] # Idle
      BY <2>3 DEF ReadReverse, Idle
    <3>2. \/ /\ match[Back(reply[h].pair)] = "accepted"
             /\ reply'[h].pair = reply[h].pair
          \/ reply'[h] = Idle
      BY <2>3, <3>1 DEF ReadReverse
    <3>3. reply'[h].at = "mutual" => Back(reply[h].pair) \in agreed /\ reply'[h].pair = reply[h].pair
      BY <3>1, <3>2, PairFacts DEF Idle
    <3>4. \A k \in Handlers : k # h => reply'[k] = reply[k]
      BY <2>3 DEF ReadReverse
    <3>5. UNCHANGED <<match, meets, agreed>>
      BY <2>3 DEF ReadReverse
    <3>6. QED BY <3>1, <3>2, <3>3, <3>4, <3>5
  <2>4. ASSUME NEW h \in Handlers, CreateMeet(h) PROVE IInv'
    <3>1. reply[h] \in [pair : Pairs, at : {"saved", "mutual"}]
      BY <2>4 DEF CreateMeet, Idle
    <3>2. reply[h].pair \in agreed /\ Back(reply[h].pair) \in agreed
      BY <2>4 DEF CreateMeet
    <3>3. \A p \in Pairs : Couple(p) = Couple(reply[h].pair) => p \in agreed
      BY <3>1, <3>2, SameCouple
    <3>4. \A c \in Couples : meets'[c] > 0 => meets[c] > 0 \/ c = Couple(reply[h].pair)
      BY <2>4 DEF CreateMeet
    <3>5. \A p \in Pairs : meets'[Couple(p)] > 0 => p \in agreed
      BY <3>3, <3>4, PairFacts
    <3>6. /\ UNCHANGED <<match, agreed>>
          /\ \A k \in Handlers : reply'[k] = Idle \/ reply'[k] = reply[k]
      BY <2>4 DEF CreateMeet
    <3>7. QED BY <3>5, <3>6 DEF Idle
  <2>5. ASSUME NEW h \in Handlers, CreateFails(h) PROVE IInv'
    <3>1. /\ UNCHANGED <<match, meets, agreed>>
          /\ \A k \in Handlers : reply'[k] = Idle \/ reply'[k] = reply[k]
      BY <2>5 DEF CreateFails
    <3>2. QED BY <3>1 DEF Idle
  <2>6. ASSUME NEW u \in Users, EraseRows(u) PROVE IInv'
    BY <2>6 DEF EraseRows
  <2>7. ASSUME NEW u \in Users, EraseMeets(u) PROVE IInv'
    <3>1. \A p \in Pairs : meets'[Couple(p)] > 0 => meets[Couple(p)] > 0
      BY <2>7, PairFacts DEF EraseMeets
    <3>2. QED BY <2>7, <3>1 DEF EraseMeets
  <2>8. CASE UNCHANGED <<match, meets, reply, agreed>>
    BY <2>8
  <2> HIDE DEF AnswerIsOwn, MeetIsMutual
  <2>9. QED BY <2>1, <2>2, <2>3, <2>4, <2>5, <2>6, <2>7, <2>8, AnswerSteps
<1>3. QED BY <1>1, <1>2, IntroTypeCorrect, PTL DEF Spec

\* Faults are counted and a deletion that began is never unmade.
LEMMA NothingUndone ==
  ASSUME IntroTypeOK, [Next]_vars
  PROVE  /\ faults' = 0 => faults = 0
         /\ \A u \in Users : erasure'[u] = "none" => erasure[u] = "none"
         /\ closed \subseteq closed'
<1> DEFINE Kept == UNCHANGED <<faults, erasure, closed>>
<1> USE DEF IntroTypeOK, tables, passes, Fault
<1>1. CASE UNCHANGED vars
  BY <1>1 DEF vars
<1>2. ASSUME NEW w \in Passes, NEW j \in Job, StartPass(w, j) PROVE Kept
  BY <1>2 DEF StartPass
<1>3. ASSUME NEW w \in Passes, NEW a \in Users, Visit(w, a) PROVE Kept
  BY <1>3 DEF Visit
<1>4. ASSUME NEW w \in Passes, SaveSnapshot(w) \/ Finish(w) PROVE Kept
  BY <1>4 DEF SaveSnapshot, Finish, Stop
<1>5. ASSUME NEW w \in Passes, NEW p \in Pairs,
             \/ SaveScore(w, p) \/ SaveVerdict(w, p) \/ Queue(w, p)
             \/ Refuse(w, p) \/ SaveShown(w, p)
      PROVE  Kept
  BY <1>5 DEF SaveScore, SaveVerdict, Queue, Refuse, SaveShown
<1>6. ASSUME NEW p \in Pairs, OpenSession(p) \/ NoResponse(p) PROVE Kept
  BY <1>6 DEF OpenSession, NoResponse
<1>7. ASSUME NEW h \in Handlers,
             \/ \E p \in Pairs, yes \in BOOLEAN : Respond(h, p, yes)
             \/ ReadReverse(h) \/ CreateMeet(h)
      PROVE  Kept
  BY <1>7 DEF Respond, ReadReverse, CreateMeet
<1>8. ASSUME NEW w \in Passes,
             \/ \E a \in Users : Skip(w, a)
             \/ \E p \in Pairs : Unanswered(w, p)
             \/ Crash(w)
      PROVE  faults' > 0 /\ UNCHANGED <<erasure, closed>>
  BY <1>8 DEF Skip, Unanswered, Crash, Stop
<1>9. ASSUME NEW h \in Handlers, CreateFails(h)
      PROVE  faults' > 0 /\ UNCHANGED <<erasure, closed>>
  BY <1>9 DEF CreateFails
<1>10. ASSUME NEW u \in Users, Erase(u)
       PROVE  /\ faults' = faults /\ closed \subseteq closed'
              /\ \A v \in Users : erasure'[v] = "none" => erasure[v] = "none"
  BY <1>10 DEF Erase, EraseMemory, EraseAccount, EraseRows, EraseMeets
<1> HIDE DEF IntroTypeOK
<1>11. QED
  BY <1>1, <1>2, <1>3, <1>4, <1>5, <1>6, <1>7, <1>8, <1>9, <1>10 DEF Next, Pass, Answer

\* Two accepted introductions lead to a meet, in whatever order they are accepted.
THEOREM MutualMeets == Spec => []MutualAcceptMeets
<1>1. Init => MutualAcceptMeets
  BY PairFacts DEF Init, MutualAcceptMeets
<1>2. IntroTypeOK /\ MutualAcceptMeets /\ [Next]_vars => MutualAcceptMeets'
  <2> DEFINE Accepted(p) == match[p] = "accepted" /\ match[Back(p)] = "accepted"
             Seen(p) == \/ meets[Couple(p)] > 0
                        \/ \E h \in Handlers : /\ reply[h] # Idle
                                               /\ Couple(reply[h].pair) = Couple(p)
  <2> SUFFICES ASSUME IntroTypeOK, MutualAcceptMeets, [Next]_vars, faults' = 0,
                      NEW p \in Pairs, Accepted(p)',
                      erasure'[p[1]] = "none", erasure'[p[2]] = "none"
               PROVE  Seen(p)'
    BY DEF MutualAcceptMeets
  <2> USE DEF IntroTypeOK, tables, passes
  <2>0. Accepted(p) => Seen(p)
    <3>1. faults = 0 /\ erasure[p[1]] = "none" /\ erasure[p[2]] = "none"
      BY NothingUndone, PairFacts
    <3>2. QED BY <3>1 DEF MutualAcceptMeets
  <2>1. ASSUME NEW w \in Passes, NEW q \in Pairs, SaveShown(w, q) PROVE Seen(p)'
    <3>1. match'[p] = match[p] /\ match'[Back(p)] = match[Back(p)]
      BY <2>1, PairFacts DEF SaveShown
    <3>2. QED BY <2>0, <2>1, <3>1 DEF SaveShown
  <2>2. ASSUME NEW h \in Handlers, NEW q \in Pairs, NEW yes \in BOOLEAN, Respond(h, q, yes)
        PROVE  Seen(p)'
    <3>1. CASE yes /\ Couple(q) = Couple(p)
      <4>1. reply'[h] = [pair |-> q, at |-> "saved"]
        BY <2>2, <3>1 DEF Respond
      <4>2. reply'[h] # Idle /\ reply'[h].pair = q
        BY <4>1 DEF Idle
      <4>3. QED BY <3>1, <4>2
    <3>2. CASE ~(yes /\ Couple(q) = Couple(p))
      <4>1. Accepted(p)
        BY <2>2, <3>2, PairFacts DEF Respond
      <4>2. \A k \in Handlers : reply[k] # Idle => reply'[k] = reply[k]
        BY <2>2 DEF Respond
      <4>3. QED BY <2>0, <2>2, <4>1, <4>2 DEF Respond
    <3>3. QED BY <3>1, <3>2
  <2>3. ASSUME NEW h \in Handlers, ReadReverse(h) PROVE Seen(p)'
    <3>1. UNCHANGED <<match, meets>> /\ \A k \in Handlers : k # h => reply'[k] = reply[k]
      BY <2>3 DEF ReadReverse
    <3>2. Accepted(p)
      BY <3>1
    <3>3. CASE reply[h] # Idle /\ Couple(reply[h].pair) = Couple(p)
      <4>1. reply[h] \in [pair : Pairs, at : {"saved", "mutual"}]
        BY <3>3
      <4>2. Back(reply[h].pair) = p \/ Back(reply[h].pair) = Back(p)
        BY <3>3, <4>1, SameCouple, PairFacts
      <4>3. reply'[h] = [reply[h] EXCEPT !.at = "mutual"]
        BY <2>3, <3>2, <4>2 DEF ReadReverse
      <4>4. reply'[h].pair = reply[h].pair /\ reply'[h].at = "mutual"
        BY <4>1, <4>3
      <4>5. reply'[h] # Idle
        BY <4>4 DEF Idle
      <4>6. QED BY <3>3, <4>4, <4>5
    <3>4. CASE ~(reply[h] # Idle /\ Couple(reply[h].pair) = Couple(p))
      BY <2>0, <3>1, <3>2, <3>4
    <3>5. QED BY <3>3, <3>4
  <2>4. ASSUME NEW h \in Handlers, CreateMeet(h) PROVE Seen(p)'
    <3>1. reply[h] \in [pair : Pairs, at : {"saved", "mutual"}]
      BY <2>4 DEF CreateMeet, Idle
    <3>2. /\ match' = match /\ \A k \in Handlers : k # h => reply'[k] = reply[k]
          /\ meets'[Couple(reply[h].pair)] = meets[Couple(reply[h].pair)] + 1
          /\ \A c \in Couples : meets[c] > 0 => meets'[c] > 0
      BY <2>4, <3>1, PairFacts DEF CreateMeet
    <3>3. Couple(p) \in Couples /\ meets[Couple(p)] \in Nat
      BY PairFacts
    <3>4. CASE Couple(reply[h].pair) = Couple(p)
      BY <3>2, <3>3, <3>4
    <3>5. CASE Couple(reply[h].pair) # Couple(p)
      <4>1. Accepted(p)
        BY <3>2
      <4>2. CASE meets[Couple(p)] > 0
        BY <3>2, <3>3, <4>2
      <4>3. CASE \E k \in Handlers : reply[k] # Idle /\ Couple(reply[k].pair) = Couple(p)
        BY <3>2, <3>5, <4>3
      <4>4. QED BY <2>0, <4>1, <4>2, <4>3
    <3>6. QED BY <3>4, <3>5
  <2>5. ASSUME NEW h \in Handlers, CreateFails(h) PROVE Seen(p)'
    BY <2>5 DEF CreateFails, Fault
  <2>6. ASSUME NEW u \in Users, EraseRows(u) PROVE Seen(p)'
    <3>1. Accepted(p)
      BY <2>6, PairFacts DEF EraseRows
    <3>2. QED BY <2>0, <2>6, <3>1 DEF EraseRows
  <2>7. ASSUME NEW u \in Users, EraseMeets(u) PROVE Seen(p)'
    <3>1. u \notin Couple(p)
      BY <2>7, PairFacts DEF EraseMeets, Couple
    <3>2. meets'[Couple(p)] = meets[Couple(p)] /\ UNCHANGED <<match, reply>>
      BY <2>7, <3>1, PairFacts DEF EraseMeets
    <3>3. QED BY <2>0, <3>2
  <2>8. CASE UNCHANGED <<match, meets, reply, agreed>>
    BY <2>0, <2>8
  <2> HIDE DEF Seen, Accepted, IntroTypeOK
  <2>9. QED BY <2>1, <2>2, <2>3, <2>4, <2>5, <2>6, <2>7, <2>8, AnswerSteps
<1>3. QED BY <1>1, <1>2, IntroTypeCorrect, PTL DEF Spec

-------------------------------------------------------------------------------
(* Surfacing.                                                               *)

\* What a surfacing pass has to save, the brain has stored.
StoredIsAsked ==
  \A w \in Passes : stored[w] => \A p \in todo[w] : asked[p] > 0

\* No row of match_state without a check-in the brain stored.
THEOREM ShownStored == Spec => []ShownWasStored
<1> DEFINE IInv == StoredIsAsked /\ ShownWasStored
<1>1. Init => IInv
  BY DEF Init, StoredIsAsked, ShownWasStored, Shown
<1>2. IntroTypeOK /\ IInv /\ [Next]_vars => IInv'
  <2> SUFFICES ASSUME IntroTypeOK, IInv, [Next]_vars PROVE IInv'
    OBVIOUS
  <2> USE DEF IntroTypeOK, StoredIsAsked, ShownWasStored, Shown, tables, passes
  <2>1. ASSUME NEW w \in Passes, NEW j \in Job, StartPass(w, j) PROVE IInv'
    BY <2>1 DEF StartPass
  <2>2. ASSUME NEW w \in Passes, NEW a \in Users, Visit(w, a) PROVE IInv'
    <3>1. ~stored[w]
      BY <2>2 DEF Visit, PassShape
    <3>2. UNCHANGED <<match, stored, asked>> /\ \A x \in Passes : x # w => todo'[x] = todo[x]
      BY <2>2 DEF Visit
    <3>3. QED BY <3>1, <3>2
  <2>3. ASSUME NEW w \in Passes, NEW a \in Users, Skip(w, a) PROVE IInv'
    BY <2>3 DEF Skip
  <2>4. ASSUME NEW w \in Passes, SaveSnapshot(w) PROVE IInv'
    BY <2>4 DEF SaveSnapshot
  <2>5. ASSUME NEW w \in Passes, NEW p \in Pairs, SaveScore(w, p) \/ SaveVerdict(w, p)
        PROVE  IInv'
    BY <2>5 DEF SaveScore, SaveVerdict
  <2>6. ASSUME NEW w \in Passes, NEW p \in Pairs, Queue(w, p) PROVE IInv'
    <3>1. todo[w] = {p}
      BY <2>6 DEF Queue, PassShape
    <3>2. asked'[p] > 0 /\ \A q \in Pairs : asked[q] > 0 => asked'[q] > 0
      BY <2>6 DEF Queue, Deliver
    <3>3. /\ UNCHANGED <<match, todo>>
          /\ \A x \in Passes : x # w => stored'[x] = stored[x]
      BY <2>6 DEF Queue
    <3>4. \A x \in Passes : stored'[x] => \A q \in todo'[x] : asked'[q] > 0
      BY <3>1, <3>2, <3>3
    <3>5. \A q \in Shown' : asked'[q] > 0
      BY <3>2, <3>3
    <3>6. QED BY <3>4, <3>5
  <2>7. ASSUME NEW w \in Passes, NEW p \in Pairs, Refuse(w, p) PROVE IInv'
    BY <2>7 DEF Refuse
  <2>8. ASSUME NEW w \in Passes, NEW p \in Pairs, Unanswered(w, p) PROVE IInv'
    <3>1. \A q \in Pairs : asked[q] > 0 => asked'[q] > 0
      BY <2>8 DEF Unanswered, Deliver
    <3>2. /\ UNCHANGED <<match, stored>>
          /\ \A x \in Passes : todo'[x] \subseteq todo[x]
      BY <2>8 DEF Unanswered
    <3>3. \A x \in Passes : stored'[x] => \A q \in todo'[x] : asked'[q] > 0
      BY <3>1, <3>2
    <3>4. \A q \in Shown' : asked'[q] > 0
      BY <3>1, <3>2
    <3>5. QED BY <3>3, <3>4
  <2>9. ASSUME NEW w \in Passes, NEW p \in Pairs, SaveShown(w, p) PROVE IInv'
    BY <2>9 DEF SaveShown
  <2>10. ASSUME NEW w \in Passes, Finish(w) \/ Crash(w) PROVE IInv'
    BY <2>10 DEF Finish, Crash, Stop
  <2>11. ASSUME NEW p \in Pairs, OpenSession(p) \/ NoResponse(p) PROVE IInv'
    BY <2>11 DEF OpenSession, NoResponse
  <2>12. ASSUME NEW h \in Handlers, NEW p \in Pairs, NEW yes \in BOOLEAN, Respond(h, p, yes)
         PROVE  IInv'
    <3>1. UNCHANGED <<asked, todo, stored>> /\ \A q \in Pairs : match[q] = "none" => match'[q] = "none"
      BY <2>12 DEF Respond
    <3>2. QED BY <3>1
  <2>13. ASSUME NEW h \in Handlers, ReadReverse(h) \/ CreateMeet(h) \/ CreateFails(h)
         PROVE  IInv'
    BY <2>13 DEF ReadReverse, CreateMeet, CreateFails
  <2>14. ASSUME NEW u \in Users, Erase(u) PROVE IInv'
    <3>1. UNCHANGED <<asked, todo, stored>> /\ \A q \in Pairs : match'[q] \in {match[q], "none"}
      BY <2>14 DEF Erase, EraseMemory, EraseAccount, EraseRows, EraseMeets
    <3>2. QED BY <3>1
  <2>15. CASE UNCHANGED vars
    BY <2>15 DEF vars
  <2> HIDE DEF IntroTypeOK, StoredIsAsked, ShownWasStored
  <2>16. QED
    BY <2>1, <2>2, <2>3, <2>4, <2>5, <2>6, <2>7, <2>8, <2>9, <2>10, <2>11, <2>12, <2>13,
       <2>14, <2>15 DEF Next, Pass, Answer
<1>3. QED BY <1>1, <1>2, IntroTypeCorrect, PTL DEF Spec

-------------------------------------------------------------------------------
(* Erasure.                                                                 *)

\* What no pass and no request that is forgotten about u can bring back.
LEMMA PairsWithoutUser ==
  ASSUME NEW u \in Users, Forgotten(u), IntroTypeOK
  PROVE  /\ u \notin Ready /\ u \notin Roster
         /\ \A p \in scored : u \notin Couple(p)
         /\ \A p \in armed : u \notin Couple(p)
         /\ \A w \in Passes : \A p \in todo[w] : u \notin Couple(p)
         /\ \A w \in Passes : fetched[w] # None => fetched[w][1] # u
  BY DEF Forgotten, NoRow, InFlight, Ready, Roster, IntroTypeOK

\* A user every service has deleted, and nothing in flight knows of, never
\* comes back.
THEOREM ForgottenStays == Spec => ForgottenForGood
<1>1. IntroTypeOK /\ [Next]_vars => [\A u \in Users : Forgotten(u) => Forgotten(u)']_vars
  <2> SUFFICES ASSUME IntroTypeOK, [Next]_vars, NEW u \in Users, Forgotten(u)
               PROVE  Forgotten(u)'
    OBVIOUS
  <2>0. /\ u \notin Ready /\ u \notin Roster
        /\ \A p \in scored : u \notin Couple(p)
        /\ \A p \in armed : u \notin Couple(p)
        /\ \A w \in Passes : \A p \in todo[w] : u \notin Couple(p)
        /\ \A w \in Passes : fetched[w] # None => fetched[w][1] # u
    BY PairsWithoutUser
  <2> USE DEF IntroTypeOK, Forgotten, NoRow, InFlight, tables, passes
  <2>1. ASSUME NEW w \in Passes, NEW j \in Job, StartPass(w, j) PROVE Forgotten(u)'
    BY <2>0, <2>1 DEF StartPass
  <2>2. ASSUME NEW w \in Passes, NEW a \in Users, Visit(w, a) PROVE Forgotten(u)'
    <3>1. a # u /\ a \in left[w]
      BY <2>2 DEF Visit
    <3>2. ASSUME NEW read \in Reads(w, a) PROVE \A p \in read : u \notin Couple(p)
      <4>1. CASE doing[w] = "eval"
        BY <2>0, <4>1 DEF Reads, Shortlist
      <4>2. CASE doing[w] = "score"
        BY <2>0, <3>1, <4>2, ReadsArePairs DEF PairsOf, Couple
      <4>3. CASE doing[w] \notin {"score", "eval"}
        <5>1. read \subseteq Surfaceable
          BY <4>3, ReadsArePairs
        <5>2. QED BY <2>0, <5>1 DEF Surfaceable
      <4>4. QED BY <4>1, <4>2, <4>3
    <3>3. \A x \in Passes : \A p \in todo'[x] : u \notin Couple(p)
      BY <2>0, <2>2, <3>2 DEF Visit
    <3>4. \A x \in Passes : fetched'[x] # None => fetched'[x][1] # u
      BY <2>0, <2>2, <3>1 DEF Visit
    <3>5. /\ UNCHANGED <<pool, scored, liked, match, saw, inbox, armed, reply, meets, closed>>
          /\ \A x \in Passes : left'[x] \subseteq left[x]
      BY <2>2 DEF Visit
    <3>6. QED BY <3>3, <3>4, <3>5
  <2>3. ASSUME NEW w \in Passes, NEW a \in Users, Skip(w, a) PROVE Forgotten(u)'
    BY <2>3 DEF Skip
  <2>4. ASSUME NEW w \in Passes, SaveSnapshot(w) PROVE Forgotten(u)'
    <3>1. pool'[u] = pool[u]
      BY <2>0, <2>4 DEF SaveSnapshot
    <3>2. \A x \in Passes : fetched'[x] # None => fetched'[x] = fetched[x]
      BY <2>4 DEF SaveSnapshot
    <3>3. QED BY <2>4, <3>1, <3>2 DEF SaveSnapshot
  <2>5. ASSUME NEW w \in Passes, NEW p \in Pairs, SaveScore(w, p) \/ SaveVerdict(w, p)
        PROVE  Forgotten(u)'
    <3>1. u \notin Couple(p) /\ scored' \subseteq scored \cup {p} /\ liked' \subseteq liked \cup {p}
      BY <2>0, <2>5 DEF SaveScore, SaveVerdict
    <3>2. \A x \in Passes : todo'[x] \subseteq todo[x]
      BY <2>5 DEF SaveScore, SaveVerdict
    <3>3. UNCHANGED <<pool, match, saw, left, fetched, inbox, armed, reply, meets, closed>>
      BY <2>5 DEF SaveScore, SaveVerdict
    <3>4. QED BY <3>1, <3>2, <3>3
  <2>6. ASSUME NEW w \in Passes, NEW p \in Pairs,
               Queue(w, p) \/ Refuse(w, p) \/ Unanswered(w, p)
        PROVE  Forgotten(u)'
    <3>1. u \notin Couple(p) /\ \A q \in Pairs : q # p => inbox'[q] = inbox[q]
      BY <2>0, <2>6 DEF Queue, Refuse, Unanswered, Deliver
    <3>2. \A x \in Passes : todo'[x] \subseteq todo[x]
      BY <2>6 DEF Queue, Refuse, Unanswered
    <3>3. UNCHANGED <<pool, scored, liked, match, saw, left, fetched, armed, reply, meets, closed>>
      BY <2>6 DEF Queue, Refuse, Unanswered
    <3>4. QED BY <3>1, <3>2, <3>3
  <2>7. ASSUME NEW w \in Passes, NEW p \in Pairs, SaveShown(w, p) PROVE Forgotten(u)'
    <3>1. u \notin Couple(p) /\ \A q \in Pairs : q # p => match'[q] = match[q]
      BY <2>0, <2>7 DEF SaveShown
    <3>2. \A x \in Passes : todo'[x] \subseteq todo[x]
      BY <2>7 DEF SaveShown
    <3>3. UNCHANGED <<pool, scored, liked, saw, left, fetched, inbox, armed, reply, meets, closed>>
      BY <2>7 DEF SaveShown
    <3>4. QED BY <3>1, <3>2, <3>3
  <2>8. ASSUME NEW w \in Passes, Finish(w) \/ Crash(w) PROVE Forgotten(u)'
    <3>1. Stop(w)
      BY <2>8 DEF Finish, Crash
    <3>2. \A x \in Passes : /\ todo'[x] \subseteq todo[x] /\ left'[x] \subseteq left[x]
                            /\ saw'[x] \subseteq saw[x]
                            /\ fetched'[x] # None => fetched'[x] = fetched[x]
      BY <3>1 DEF Stop
    <3>3. UNCHANGED <<pool, scored, liked, match, inbox, armed, reply, meets, closed>>
      BY <3>1 DEF Stop
    <3>4. QED BY <3>2, <3>3
  <2>9. ASSUME NEW p \in Pairs, OpenSession(p) \/ NoResponse(p) PROVE Forgotten(u)'
    <3>1. /\ armed' \subseteq armed \cup {p}
          /\ \A q \in Pairs : inbox'[q] > 0 => inbox[q] > 0
          /\ u \notin Couple(p)
      BY <2>0, <2>9 DEF OpenSession, NoResponse
    <3>2. UNCHANGED <<pool, scored, liked, match, saw, left, fetched, todo, reply, meets, closed>>
      BY <2>9 DEF OpenSession, NoResponse
    <3>3. QED BY <3>1, <3>2
  <2>10. ASSUME NEW h \in Handlers, NEW p \in Pairs, NEW yes \in BOOLEAN, Respond(h, p, yes)
         PROVE  Forgotten(u)'
    <3>1. u \notin Couple(p)
      BY <2>0, <2>10 DEF Respond
    <3>2. /\ armed' \subseteq armed
          /\ \A q \in Pairs : match'[q] = match[q] \/ q = p
      BY <2>10 DEF Respond
    <3>3. \A k \in Handlers : reply'[k] = reply[k] \/ reply'[k] = [pair |-> p, at |-> "saved"]
      BY <2>10 DEF Respond
    <3>4. \A k \in Handlers : reply'[k] # Idle => u \notin Couple(reply'[k].pair)
      BY <3>1, <3>3
    <3>5. UNCHANGED <<pool, scored, liked, saw, left, fetched, todo, inbox, meets, closed>>
      BY <2>10 DEF Respond
    <3>6. QED BY <3>1, <3>2, <3>4, <3>5
  <2>11. ASSUME NEW h \in Handlers, ReadReverse(h) \/ CreateMeet(h) \/ CreateFails(h)
         PROVE  Forgotten(u)'
    <3>1. reply[h] # Idle /\ reply[h] \in [pair : Pairs, at : {"saved", "mutual"}]
      BY <2>11 DEF ReadReverse, CreateMeet, CreateFails, Idle
    <3>2. \A k \in Handlers : reply'[k] # Idle =>
             reply[k] # Idle /\ reply'[k].pair = reply[k].pair
      BY <2>11, <3>1 DEF ReadReverse, CreateMeet, CreateFails
    <3>3. \A c \in Couples : meets'[c] = meets[c] \/ c = Couple(reply[h].pair)
      BY <2>11 DEF ReadReverse, CreateMeet, CreateFails
    <3>4. \A p \in Pairs : u \in Couple(p) => meets'[Couple(p)] = meets[Couple(p)]
      BY <3>1, <3>3, PairFacts
    <3>5. UNCHANGED <<pool, scored, liked, match, saw, left, fetched, todo, inbox, armed, closed>>
      BY <2>11 DEF ReadReverse, CreateMeet, CreateFails
    <3>6. QED BY <3>2, <3>4, <3>5
  <2>12. ASSUME NEW v \in Users, Erase(v) PROVE Forgotten(u)'
    <3>1. /\ pool'[u] \in {pool[u], "absent"}
          /\ scored' \subseteq scored /\ liked' \subseteq liked /\ closed \subseteq closed'
      BY <2>12 DEF Erase, EraseMemory, EraseAccount, EraseRows, EraseMeets
    <3>2. \A p \in Pairs : match'[p] \in {match[p], "none"} /\ inbox'[p] \in {inbox[p], 0}
      BY <2>12 DEF Erase, EraseMemory, EraseAccount, EraseRows, EraseMeets
    <3>3. \A p \in Pairs : meets'[Couple(p)] \in {meets[Couple(p)], 0}
      BY <2>12, PairFacts DEF Erase, EraseMemory, EraseAccount, EraseRows, EraseMeets
    <3>4. UNCHANGED <<saw, left, fetched, todo, armed, reply>>
      BY <2>12 DEF Erase, EraseMemory, EraseAccount, EraseRows, EraseMeets
    <3>5. QED BY <3>1, <3>2, <3>3, <3>4
  <2>13. CASE UNCHANGED vars
    BY <2>13 DEF vars
  <2> HIDE DEF IntroTypeOK, Forgotten
  <2>14. QED
    BY <2>1, <2>2, <2>3, <2>4, <2>5, <2>6, <2>7, <2>8, <2>9, <2>10, <2>11, <2>12, <2>13
    DEF Next, Pass, Answer
<1>2. QED BY <1>1, IntroTypeCorrect, PTL DEF Spec, ForgottenForGood

-------------------------------------------------------------------------------
(* How often an introduction is put to the user.                            *)

\* Passes whose check-in for p is stored and not yet recorded.
Saving(p) == {w \in Passes : doing[w] = "surface" /\ p \in todo[w] /\ stored[w]}

\* While there is no row, the check-ins stored are those about to be recorded.
Accounted(p) ==
  /\ asked[p] + Cardinality(Surfacing(p)) <= Cardinality(Passes)
  /\ match[p] = "none" => asked[p] = Cardinality(Saving(p))

AskInv ==
  /\ \A u \in Users : erasure[u] \in {"auth", "connections", "done"} => u \in closed
  /\ faults = 0 => \A p \in Pairs : Couple(p) \cap closed = {} => Accounted(p)

LEMMA CountsFinite ==
  ASSUME NEW p \in Pairs
  PROVE  /\ IsFiniteSet(Passes) /\ IsFiniteSet(Surfacing(p)) /\ IsFiniteSet(Saving(p))
         /\ Cardinality(Passes) \in Nat
         /\ Cardinality(Surfacing(p)) \in Nat /\ Cardinality(Saving(p)) \in Nat
         /\ Cardinality(Surfacing(p)) + Cardinality(Saving(p)) <= Cardinality(Passes)
<1>1. Surfacing(p) \subseteq Passes /\ Saving(p) \subseteq Passes
  BY DEF Surfacing, Saving
<1>2. Surfacing(p) \cup Saving(p) \subseteq Passes
  BY <1>1
<1>3. Surfacing(p) \cap Saving(p) = {}
  BY DEF Surfacing, Saving
<1>4. IsFiniteSet(Passes) /\ IsFiniteSet(Surfacing(p)) /\ IsFiniteSet(Saving(p))
  BY <1>1, IntroAssumption, FS_Subset
<1>5. Cardinality(Surfacing(p) \cup Saving(p)) <= Cardinality(Passes)
  BY <1>2, <1>4, FS_Subset
<1>6. Cardinality(Surfacing(p) \cup Saving(p)) =
        Cardinality(Surfacing(p)) + Cardinality(Saving(p)) - Cardinality(Surfacing(p) \cap Saving(p))
  BY <1>4, FS_Union
<1>7. Cardinality(Surfacing(p) \cap Saving(p)) = 0
  BY <1>3, FS_EmptySet
<1>8. /\ Cardinality(Passes) \in Nat
      /\ Cardinality(Surfacing(p)) \in Nat /\ Cardinality(Saving(p)) \in Nat
  BY <1>4, FS_CardinalityType
<1>9. QED BY <1>4, <1>5, <1>6, <1>7, <1>8

\* A step that neither picks nor stores nor records p keeps its account.
Calm(p) == /\ Surfacing(p)' \subseteq Surfacing(p) /\ Saving(p)' = Saving(p)
           /\ asked'[p] = asked[p]
           /\ match'[p] = "none" => match[p] = "none"

LEMMA CalmKeeps ==
  ASSUME IntroTypeOK, NEW p \in Pairs, Accounted(p), Calm(p)
  PROVE  Accounted(p)'
<1>1. Cardinality(Surfacing(p)') <= Cardinality(Surfacing(p))
  BY CountsFinite, FS_Subset DEF Calm
<1>2. IsFiniteSet(Surfacing(p)')
  BY CountsFinite, FS_Subset DEF Calm
<1>3. Cardinality(Surfacing(p)') \in Nat
  BY <1>2, FS_CardinalityType
<1>4. asked[p] \in Nat
  BY DEF IntroTypeOK
<1>5. asked'[p] + Cardinality(Surfacing(p)') <= Cardinality(Passes)
  BY <1>1, <1>3, <1>4, CountsFinite DEF Accounted, Calm
<1>6. match'[p] = "none" => asked'[p] = Cardinality(Saving(p)')
  BY DEF Accounted, Calm
<1>7. QED BY <1>5, <1>6 DEF Accounted

\* Picking p is possible only without a row.
LEMMA PickKeeps ==
  ASSUME IntroTypeOK, NEW p \in Pairs, NEW w \in Passes, Accounted(p),
         match[p] = "none", match'[p] = "none", asked'[p] = asked[p],
         Surfacing(p)' = Surfacing(p) \cup {w}, Saving(p)' = Saving(p), w \notin Saving(p)
  PROVE  Accounted(p)'
<1> DEFINE S == Surfacing(p) \cup {w}
<1>1. S \subseteq Passes /\ Saving(p) \subseteq Passes /\ S \cap Saving(p) = {}
  BY DEF Surfacing, Saving
<1>2. IsFiniteSet(S) /\ IsFiniteSet(Saving(p)) /\ IsFiniteSet(Passes)
  BY <1>1, CountsFinite, FS_Subset
<1>3. Cardinality(S \cup Saving(p)) <= Cardinality(Passes)
  <2>1. S \cup Saving(p) \subseteq Passes
    BY <1>1
  <2>2. QED BY <2>1, <1>2, FS_Subset
<1>4. Cardinality(S \cup Saving(p)) = Cardinality(S) + Cardinality(Saving(p)) - Cardinality(S \cap Saving(p))
  BY <1>2, FS_Union
<1>5. Cardinality(S \cap Saving(p)) = 0
  BY <1>1, FS_EmptySet
<1>6. Cardinality(S) \in Nat /\ Cardinality(Saving(p)) \in Nat /\ Cardinality(Passes) \in Nat
  BY <1>2, FS_CardinalityType
<1>7. asked[p] = Cardinality(Saving(p))
  BY DEF Accounted
<1>8. asked'[p] + Cardinality(S) <= Cardinality(Passes)
  BY <1>3, <1>4, <1>5, <1>6, <1>7
<1>9. QED BY <1>7, <1>8 DEF Accounted

\* The brain stores p: one pass fewer is asking, one more is saving.
LEMMA QueueKeeps ==
  ASSUME IntroTypeOK, NEW p \in Pairs, NEW w \in Passes, Accounted(p),
         match'[p] = match[p], asked'[p] = asked[p] + 1, w \in Surfacing(p),
         Surfacing(p)' = Surfacing(p) \ {w}, Saving(p)' = Saving(p) \cup {w}
  PROVE  Accounted(p)'
<1>1. w \notin Saving(p)
  BY DEF Surfacing, Saving
<1>2. Cardinality(Surfacing(p)') = Cardinality(Surfacing(p)) - 1
  BY CountsFinite, FS_RemoveElement
<1>3. Cardinality(Saving(p)') = Cardinality(Saving(p)) + 1
  BY <1>1, CountsFinite, FS_AddElement
<1>4. asked[p] \in Nat
  BY DEF IntroTypeOK
<1>5. asked'[p] + Cardinality(Surfacing(p)') <= Cardinality(Passes)
  BY <1>2, <1>4, CountsFinite DEF Accounted
<1>6. match'[p] = "none" => asked'[p] = Cardinality(Saving(p)')
  BY <1>3, <1>4, CountsFinite DEF Accounted
<1>7. QED BY <1>5, <1>6 DEF Accounted

\* An introduction is put to the user at most once per pass.
THEOREM AskedBounded == Spec => []AskedOncePerPass
<1>1. Init => AskInv
  <2> SUFFICES ASSUME Init, NEW p \in Pairs PROVE Accounted(p)
    BY DEF Init, AskInv
  <2>1. Surfacing(p) = {} /\ Saving(p) = {}
    BY DEF Init, Surfacing, Saving
  <2>2. Cardinality(Surfacing(p)) = 0 /\ Cardinality(Saving(p)) = 0 /\ asked[p] = 0
    BY <2>1, FS_EmptySet DEF Init
  <2>3. QED BY <2>2, CountsFinite DEF Accounted
<1>2. IntroTypeOK /\ AskInv /\ [Next]_vars => AskInv'
  <2> SUFFICES ASSUME IntroTypeOK, AskInv, [Next]_vars PROVE AskInv'
    OBVIOUS
  <2>1. \A u \in Users : erasure'[u] \in {"auth", "connections", "done"} => u \in closed'
    <3>1. CASE \E u \in Users : Erase(u)
      BY <3>1 DEF AskInv, IntroTypeOK, Erase, EraseMemory, EraseAccount, EraseRows, EraseMeets
    <3>2. CASE ~\E u \in Users : Erase(u)
      <4>1. UNCHANGED <<erasure, closed>>
        BY <3>2 DEF Next, Pass, Answer, StartPass, Visit, Skip, SaveSnapshot, SaveScore,
           SaveVerdict, Queue, Refuse, Unanswered, SaveShown, Finish, Crash, Stop, Respond,
           ReadReverse, CreateMeet, CreateFails, OpenSession, NoResponse, vars
      <4>2. QED BY <4>1 DEF AskInv
    <3>3. QED BY <3>1, <3>2
  <2>2. ASSUME faults' = 0, NEW p \in Pairs, Couple(p) \cap closed' = {}
        PROVE  Accounted(p)'
    <3>1. Accounted(p)
      BY <2>2, NothingUndone DEF AskInv
    <3> USE DEF IntroTypeOK, Surfacing, Saving, tables, passes
    <3>2. ASSUME NEW w \in Passes, NEW j \in Job, StartPass(w, j) PROVE Calm(p)
      BY <3>2 DEF StartPass, PassShape, Calm
    <3>3. ASSUME NEW w \in Passes, NEW a \in Users, Visit(w, a) PROVE Accounted(p)'
      <4>1. /\ todo[w] = {} /\ ~stored[w] /\ UNCHANGED <<doing, stored, asked, match>>
            /\ \A x \in Passes : x # w => todo'[x] = todo[x]
        BY <3>3 DEF Visit, PassShape
      <4>2. Saving(p)' = Saving(p)
        BY <4>1
      <4>3. CASE doing[w] = "surface" /\ p \in todo'[w]
        <5>1. PICK read \in Reads(w, a) : todo'[w] = read
          BY <3>3, <4>3 DEF Visit
        <5>2. read \subseteq Surfaceable
          BY <4>3, ReadsArePairs
        <5>3. match[p] = "none"
          BY <4>3, <5>1, <5>2 DEF Surfaceable, Shown
        <5>4. Surfacing(p)' = Surfacing(p) \cup {w} /\ w \notin Saving(p)
          BY <4>1, <4>3
        <5> HIDE DEF Surfacing, Saving, IntroTypeOK
        <5>5. QED BY <3>1, <4>1, <4>2, <5>3, <5>4, PickKeeps
      <4>4. CASE ~(doing[w] = "surface" /\ p \in todo'[w])
        <5>1. Calm(p)
          BY <4>1, <4>2, <4>4 DEF Calm
        <5> HIDE DEF Surfacing, Saving, IntroTypeOK
        <5>2. QED BY <3>1, <5>1, CalmKeeps
      <4>5. QED BY <4>3, <4>4
    <3>4. ASSUME NEW w \in Passes, NEW a \in Users, Skip(w, a) PROVE FALSE
      BY <2>2, <3>4 DEF Skip, Fault
    <3>5. ASSUME NEW w \in Passes, SaveSnapshot(w) \/ Finish(w) PROVE Calm(p)
      BY <3>5 DEF SaveSnapshot, Finish, Stop, Calm
    <3>6. ASSUME NEW w \in Passes, NEW q \in Pairs, SaveScore(w, q) \/ SaveVerdict(w, q)
          PROVE  Calm(p)
      BY <3>6 DEF SaveScore, SaveVerdict, Calm
    <3>7. ASSUME NEW w \in Passes, NEW q \in Pairs, Queue(w, q) PROVE Accounted(p)'
      <4>1. todo[w] = {q}
        BY <3>7 DEF Queue, PassShape
      <4>2. CASE p = q
        <5>1. /\ Surfacing(p)' = Surfacing(p) \ {w} /\ Saving(p)' = Saving(p) \cup {w}
              /\ w \in Surfacing(p) /\ match' = match /\ asked'[p] = asked[p] + 1
          BY <3>7, <4>1, <4>2 DEF Queue, Deliver
        <5> HIDE DEF Surfacing, Saving, IntroTypeOK
        <5>2. QED BY <3>1, <5>1, QueueKeeps
      <4>3. CASE p # q
        <5>1. Calm(p)
          BY <3>7, <4>1, <4>3 DEF Queue, Deliver, Calm
        <5> HIDE DEF Surfacing, Saving, IntroTypeOK
        <5>2. QED BY <3>1, <5>1, CalmKeeps
      <4>4. QED BY <4>2, <4>3
    <3>8. ASSUME NEW w \in Passes, NEW q \in Pairs, Refuse(w, q) PROVE Calm(p)
      BY <3>8 DEF Refuse, Calm
    <3>9. ASSUME NEW w \in Passes, NEW q \in Pairs, Unanswered(w, q) PROVE FALSE
      BY <2>2, <3>9 DEF Unanswered, Fault
    <3>10. ASSUME NEW w \in Passes, NEW q \in Pairs, SaveShown(w, q) PROVE Accounted(p)'
      <4>1. todo[w] = {q} /\ stored[w]
        BY <3>10 DEF SaveShown, PassShape
      <4>2. CASE p = q
        <5>1. Surfacing(p)' = Surfacing(p) /\ asked' = asked /\ match'[p] = "shown"
          BY <3>10, <4>1, <4>2 DEF SaveShown
        <5>2. QED BY <3>1, <5>1 DEF Accounted
      <4>3. CASE p # q
        <5>1. Calm(p)
          BY <3>10, <4>1, <4>3 DEF SaveShown, Calm
        <5> HIDE DEF Surfacing, Saving, IntroTypeOK
        <5>2. QED BY <3>1, <5>1, CalmKeeps
      <4>4. QED BY <4>2, <4>3
    <3>11. ASSUME NEW w \in Passes, Crash(w) PROVE FALSE
      BY <2>2, <3>11 DEF Crash, Fault
    <3>12. ASSUME NEW q \in Pairs, OpenSession(q) \/ NoResponse(q) PROVE Calm(p)
      BY <3>12 DEF OpenSession, NoResponse, Calm
    <3>13. ASSUME NEW h \in Handlers, NEW q \in Pairs, NEW yes \in BOOLEAN, Respond(h, q, yes)
           PROVE  Calm(p)
      BY <3>13 DEF Respond, Calm
    <3>14. ASSUME NEW h \in Handlers, ReadReverse(h) \/ CreateMeet(h) PROVE Calm(p)
      BY <3>14 DEF ReadReverse, CreateMeet, Calm
    <3>15. ASSUME NEW h \in Handlers, CreateFails(h) PROVE FALSE
      BY <2>2, <3>15 DEF CreateFails, Fault
    <3>16. ASSUME NEW u \in Users, Erase(u) PROVE Calm(p)
      <4>1. CASE EraseRows(u)
        <5>1. u \in closed /\ closed' = closed
          BY <4>1 DEF AskInv, EraseRows
        <5>2. p \in Spares(u)
          BY <2>2, <5>1 DEF Spares
        <5>3. match'[p] = match[p]
          BY <4>1, <5>2 DEF EraseRows
        <5>4. QED BY <4>1, <5>3 DEF EraseRows, Calm
      <4>2. CASE EraseMemory(u) \/ EraseAccount(u) \/ EraseMeets(u)
        BY <4>2 DEF EraseMemory, EraseAccount, EraseMeets, Calm
      <4>3. QED BY <3>16, <4>1, <4>2 DEF Erase
    <3>17. ASSUME UNCHANGED vars PROVE Calm(p)
      BY <3>17 DEF vars, Calm
    <3> HIDE DEF Surfacing, Saving, IntroTypeOK
    <3>18. Calm(p) => Accounted(p)'
      BY <3>1, CalmKeeps
    <3>19. QED
      BY <3>2, <3>3, <3>4, <3>5, <3>6, <3>7, <3>8, <3>9, <3>10, <3>11, <3>12, <3>13, <3>14,
         <3>15, <3>16, <3>17, <3>18 DEF Next, Pass, Answer
  <2>3. QED BY <2>1, <2>2 DEF AskInv
<1>3. IntroTypeOK /\ AskInv => AskedOncePerPass
  BY DEF AskInv, Accounted, AskedOncePerPass
<1>4. QED BY <1>1, <1>2, <1>3, IntroTypeCorrect, PTL DEF Spec

\* A couple is brought together if, and only if, both said yes.
THEOREM MeetsIffMutual == Spec => []MeetIffMutual
BY MeetsMutual, MutualMeets, PTL DEF MeetIffMutual

\* What was shown was asked, and by each pass at most once.
THEOREM ShownOnceHolds == Spec => []ShownOnce
BY ShownStored, AskedBounded, PTL DEF ShownOnce
==============================================================================
