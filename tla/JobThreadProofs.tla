--------------------------- MODULE JobThreadProofs ---------------------------
(***************************************************************************)
(* Proofs about CheckinQueue, for any number of ids, passes and sessions,  *)
(* and about JobThread, for any catalog, any number of ids and any number  *)
(* of failures.                                                            *)
(***************************************************************************)
EXTENDS JobThread, FiniteSetTheorems, WellFoundedInduction, TLAPS

-------------------------------------------------------------------------------
(* The queue of check-ins.                                                  *)

NoDup(q) == \A i, j \in DOMAIN q : q[i] = q[j] => i = j

\* Appending a new id adds one element and keeps the ids distinct.
LEMMA AppendFacts ==
  ASSUME NEW q \in Seq(Ids), NEW id \in Ids, id \notin Elems(q), NoDup(q)
  PROVE  /\ Append(q, id) \in Seq(Ids)
         /\ Len(Append(q, id)) = Len(q) + 1
         /\ Elems(Append(q, id)) = Elems(q) \cup {id}
         /\ NoDup(Append(q, id))
<1> DEFINE a == Append(q, id)
<1>1. /\ a \in Seq(Ids) /\ Len(a) = Len(q) + 1 /\ DOMAIN a = 1..(Len(q) + 1)
      /\ DOMAIN q = 1..Len(q) /\ Len(q) \in Nat
      /\ \A i \in 1..Len(q) : a[i] = q[i]
      /\ a[Len(q) + 1] = id
  OBVIOUS
<1>2. Elems(a) = Elems(q) \cup {id}
  BY <1>1 DEF Elems
<1>3. NoDup(a)
  BY <1>1 DEF NoDup, Elems
<1>4. QED BY <1>1, <1>2, <1>3

\* Taking one id out leaves the others, in a shorter or equal queue.
LEMMA WithoutFacts ==
  ASSUME NEW q \in Seq(Ids), NEW id, NoDup(q)
  PROVE  /\ Without(q, id) \in Seq(Ids)
         /\ Len(Without(q, id)) <= Len(q)
         /\ Elems(Without(q, id)) \subseteq Elems(q) \ {id}
         /\ NoDup(Without(q, id))
<1>1. CASE id \notin Elems(q)
  BY <1>1 DEF Without, Elems
<1>2. CASE id \in Elems(q)
  <2> DEFINE k == CHOOSE i \in DOMAIN q : q[i] = id
             w == [i \in 1..(Len(q) - 1) |-> IF i < k THEN q[i] ELSE q[i + 1]]
  <2>1. /\ k \in 1..Len(q) /\ q[k] = id
        /\ DOMAIN q = 1..Len(q) /\ Len(q) \in Nat
    BY <1>2 DEF Elems
  <2>2. Without(q, id) = w
    BY <1>2 DEF Without
  <2> HIDE DEF k
  <2>3. \A i \in 1..(Len(q) - 1) : i \in 1..Len(q) /\ i + 1 \in 1..Len(q)
    BY <2>1
  <2>4. /\ DOMAIN w = 1..(Len(q) - 1) /\ Len(q) - 1 \in Nat
        /\ \A i \in DOMAIN w : w[i] = IF i < k THEN q[i] ELSE q[i + 1]
    BY <2>1
  <2>5. w \in Seq(Ids) /\ Len(w) = Len(q) - 1
    <3>1. \A i \in 1..Len(q) : q[i] \in Ids
      OBVIOUS
    <3>2. w \in [1..(Len(q) - 1) -> Ids]
      BY <2>3, <3>1
    <3>3. QED BY <2>1, <3>2
  <2> HIDE DEF w
  <2>6. \A i \in DOMAIN w : \E j \in DOMAIN q : w[i] = q[j] /\ j # k
    BY <2>1, <2>3, <2>4
  <2>7. Elems(w) \subseteq Elems(q) \ {id}
    BY <2>1, <2>6 DEF Elems, NoDup
  <2>8. NoDup(w)
    <3> SUFFICES ASSUME NEW i \in DOMAIN w, NEW j \in DOMAIN w, w[i] = w[j]
                 PROVE  i = j
      BY DEF NoDup
    <3>1. /\ w[i] = IF i < k THEN q[i] ELSE q[i + 1]
          /\ w[j] = IF j < k THEN q[j] ELSE q[j + 1]
      BY <2>4
    <3>2. \A x, y \in 1..Len(q) : q[x] = q[y] => x = y
      BY <2>1 DEF NoDup
    <3>3. /\ i \in Nat /\ j \in Nat /\ k \in Nat
          /\ i \in 1..Len(q) /\ i + 1 \in 1..Len(q)
          /\ j \in 1..Len(q) /\ j + 1 \in 1..Len(q)
      BY <2>1, <2>3, <2>4
    <3>4. CASE i < k /\ j < k
      BY <3>1, <3>2, <3>3, <3>4
    <3>5. CASE i < k /\ ~(j < k)
      <4>1. i = j + 1
        BY <3>1, <3>2, <3>3, <3>5
      <4>2. QED BY <3>3, <3>5, <4>1
    <3>6. CASE ~(i < k) /\ j < k
      <4>1. i + 1 = j
        BY <3>1, <3>2, <3>3, <3>6
      <4>2. QED BY <3>3, <3>6, <4>1
    <3>7. CASE ~(i < k) /\ ~(j < k)
      <4>1. i + 1 = j + 1
        BY <3>1, <3>2, <3>3, <3>7
      <4>2. QED BY <3>3, <4>1
    <3>8. QED BY <3>4, <3>5, <3>6, <3>7
  <2>9. QED BY <2>1, <2>2, <2>5, <2>7, <2>8
<1>3. QED BY <1>1, <1>2

\* What a step needs to know of the state: rows are distinct, a session that
\* went past its UPDATE holds a row that is no longer queued.
Inv ==
  /\ TypeOK
  /\ NoDup(queue)
  /\ \A s \in Sessions : sess[s] \in {"marked", "open"} => held[s] \notin Queued
  /\ SaidIsDelivered
  /\ AtMostOnePerPass
  /\ SaidOncePerClient

\* The passes that wait for their model are finitely many.
LEMMA DecidingFinite ==
  /\ IsFiniteSet(Deciding)
  /\ Cardinality(Deciding) \in Nat
  /\ Cardinality(Deciding) <= Cardinality(Passes)
  /\ Cardinality(Passes) \in Nat
BY FS_Subset, FS_CardinalityType, QueueAssumption DEF Deciding

\* So are the rows of the passes, and the clients that are opening with a row.
LEMMA OwnRowsFinite ==
  ASSUME TypeOK
  PROVE  IsFiniteSet(OwnRows) /\ Cardinality(OwnRows) \in Nat
<1>1. OwnRows \subseteq Ids /\ IsFiniteSet(Ids)
  BY QueueAssumption DEF TypeOK, OwnRows, Queued, Elems
<1>2. QED BY <1>1, FS_Subset, FS_CardinalityType

LEMMA OpeningFinite ==
  /\ Cardinality(Sessions) \in Nat
  /\ \A i \in Ids : /\ IsFiniteSet(Opening(i))
                   /\ Cardinality(Opening(i)) \in Nat
                   /\ Cardinality(Opening(i)) <= Cardinality(Sessions)
BY FS_Subset, FS_CardinalityType, QueueAssumption DEF Opening

LEMMA InitInv == Init => Inv
<1> SUFFICES ASSUME Init PROVE Inv
  OBVIOUS
<1>1. TypeOK
  BY DEF Init, TypeOK
<1>2. Queued = {} /\ NoDup(queue)
  BY DEF Init, Queued, Elems, NoDup
<1>3. SaidIsDelivered
  BY <1>2 DEF SaidIsDelivered
<1>4. AtMostOnePerPass
  <2>1. Deciding = {} /\ OwnRows = {}
    BY <1>2 DEF Init, Deciding, OwnRows
  <2>2. QED BY <2>1, DecidingFinite, FS_EmptySet DEF AtMostOnePerPass
<1>5. SaidOncePerClient
  <2>1. \A i \in Ids : said[i] = 0
    BY DEF Init
  <2>2. QED BY <2>1, OpeningFinite DEF SaidOncePerClient
<1>6. \A s \in Sessions : sess[s] = "closed"
  BY DEF Init
<1>7. QED BY <1>1, <1>2, <1>3, <1>4, <1>5, <1>6 DEF Inv

\* An insert of a fresh row keeps all that is said about rows and sessions.
LEMMA InsertInv ==
  ASSUME Inv, NEW id \in Fresh, NEW by \in {"pass", "route"}, Insert(id, by),
         UNCHANGED <<sess, held>>
  PROVE  /\ queue' \in Seq(Ids) /\ said' \in [Ids -> Nat]
         /\ source' \in [Ids -> {"pass", "route"}]
         /\ NoDup(queue')
         /\ OwnRows' = IF by = "pass" THEN OwnRows \cup {id} ELSE OwnRows
         /\ id \notin OwnRows
         /\ \A s \in Sessions : sess'[s] \in {"marked", "open"} => held'[s] \notin Queued'
         /\ SaidIsDelivered'
         /\ SaidOncePerClient'
<1>1. /\ queue \in Seq(Ids) /\ said \in [Ids -> Nat] /\ NoDup(queue)
      /\ source \in [Ids -> {"pass", "route"}]
      /\ id \in Ids /\ id \notin Elems(queue) /\ \A s \in Sessions : held[s] # id
      /\ queue' = Append(queue, id) /\ said' = [said EXCEPT ![id] = 0]
      /\ source' = [source EXCEPT ![id] = by]
  BY DEF Inv, TypeOK, Fresh, Insert, Queued
<1>2. /\ queue' \in Seq(Ids) /\ NoDup(queue')
      /\ Elems(queue') = Elems(queue) \cup {id}
  BY <1>1, AppendFacts
<1>3. \A s \in Sessions : sess'[s] \in {"marked", "open"} => held'[s] \notin Queued'
  BY <1>1, <1>2 DEF Inv, Queued
<1>4. SaidIsDelivered'
  BY <1>1, <1>2 DEF Inv, SaidIsDelivered, Queued
<1>5. SaidOncePerClient'
  <2>1. \A i \in Ids : Opening(i)' = Opening(i)
    BY DEF Opening
  <2> SUFFICES ASSUME NEW i \in Ids
               PROVE  said'[i] + Cardinality(Opening(i)') <= Cardinality(Sessions)
    BY DEF SaidOncePerClient
  <2>2. /\ said[i] + Cardinality(Opening(i)) <= Cardinality(Sessions)
        /\ Cardinality(Opening(i)) <= Cardinality(Sessions)
        /\ Cardinality(Opening(i)) \in Nat /\ Cardinality(Sessions) \in Nat
    BY OpeningFinite DEF Inv, SaidOncePerClient
  <2>3. said'[i] = 0 \/ said'[i] = said[i]
    BY <1>1
  <2>4. Cardinality(Opening(i)') = Cardinality(Opening(i))
    BY <2>1
  <2>5. QED BY <2>2, <2>3, <2>4
<1>6. OwnRows' = IF by = "pass" THEN OwnRows \cup {id} ELSE OwnRows
  <2>1. /\ source'[id] = by
        /\ \A i \in Elems(queue) : source'[i] = source[i]
    BY <1>1 DEF Elems
  <2>2. QED BY <1>1, <1>2, <2>1 DEF OwnRows, Queued
<1>7. id \notin OwnRows
  BY <1>1 DEF OwnRows, Queued
<1>8. QED BY <1>1, <1>2, <1>3, <1>4, <1>5, <1>6, <1>7

\* A step that changes neither the sessions nor `said` keeps SaidOncePerClient.
LEMMA SaidUntouched ==
  ASSUME SaidOncePerClient, UNCHANGED <<sess, held, said>>
  PROVE  SaidOncePerClient'
BY DEF SaidOncePerClient, Opening

LEMMA NextInv == Inv /\ [Next]_vars => Inv'
<1> SUFFICES ASSUME Inv, [Next]_vars PROVE Inv'
  OBVIOUS
<1> USE DEF Inv
<1>1. ASSUME NEW p \in Passes, Decide(p) PROVE Inv'
  <2>1. /\ pass[p] = "idle" /\ pass' = [pass EXCEPT ![p] = "deciding"]
        /\ UNCHANGED <<queue, source, sess, held, said>> /\ queue = <<>>
    <3>1. queue = <<>>
      <4>1. Pending = None /\ None \notin Ids
        BY <1>1, QueueAssumption DEF Decide
      <4>2. queue # <<>> => queue[Len(queue)] \in Ids
        BY DEF TypeOK
      <4>3. QED BY <4>1, <4>2 DEF Pending
    <3>2. QED BY <1>1, <3>1 DEF Decide
  <2>2. TypeOK'
    BY <2>1 DEF TypeOK
  <2>3. Queued' = Queued /\ OwnRows' = {}
    BY <2>1 DEF Queued, Elems, OwnRows
  <2>4. SaidIsDelivered' /\ SaidOncePerClient'
    BY <2>1, <2>3, SaidUntouched DEF SaidIsDelivered
  <2>5. AtMostOnePerPass'
    <3>1. Deciding' \subseteq Passes
      BY DEF Deciding
    <3>2. Cardinality(Deciding') <= Cardinality(Passes) /\ Cardinality(Deciding') \in Nat
      BY <3>1, FS_Subset, FS_CardinalityType, QueueAssumption
    <3>3. Cardinality(OwnRows') = 0
      BY <2>3, FS_EmptySet
    <3>4. QED BY <3>2, <3>3, DecidingFinite DEF AtMostOnePerPass
  <2>6. QED BY <2>1, <2>2, <2>3, <2>4, <2>5
<1>2. ASSUME NEW p \in Passes, pass[p] = "deciding", pass' = [pass EXCEPT ![p] = "idle"]
      PROVE  /\ Deciding' = Deciding \ {p}
             /\ Cardinality(Deciding') = Cardinality(Deciding) - 1
             /\ pass' \in [Passes -> {"idle", "deciding"}]
  <2>1. Deciding' = Deciding \ {p} /\ p \in Deciding
    BY <1>2 DEF Deciding, TypeOK
  <2>2. Cardinality(Deciding \ {p}) = Cardinality(Deciding) - 1
    BY <2>1, DecidingFinite, FS_RemoveElement
  <2>3. QED BY <1>2, <2>1, <2>2 DEF TypeOK
<1>3. ASSUME NEW p \in Passes, QueueOne(p) PROVE Inv'
  <2>1. PICK id \in Fresh : Insert(id, "pass")
    BY <1>3 DEF QueueOne
  <2>2. /\ pass[p] = "deciding" /\ pass' = [pass EXCEPT ![p] = "idle"]
        /\ UNCHANGED <<sess, held>>
    BY <1>3 DEF QueueOne
  <2>3. /\ queue' \in Seq(Ids) /\ said' \in [Ids -> Nat] /\ NoDup(queue')
        /\ source' \in [Ids -> {"pass", "route"}]
        /\ OwnRows' = OwnRows \cup {id} /\ id \notin OwnRows
        /\ SaidIsDelivered' /\ SaidOncePerClient'
        /\ \A s \in Sessions : sess'[s] \in {"marked", "open"} => held'[s] \notin Queued'
    BY <2>1, <2>2, InsertInv
  <2>4. TypeOK'
    BY <2>2, <2>3, <1>2 DEF TypeOK
  <2>5. AtMostOnePerPass'
    <3>1. Cardinality(OwnRows') = Cardinality(OwnRows) + 1 /\ Cardinality(OwnRows) \in Nat
      BY <2>3, OwnRowsFinite, FS_AddElement
    <3>2. Cardinality(Deciding') = Cardinality(Deciding) - 1
      BY <2>2, <1>2
    <3>3. QED BY <3>1, <3>2, DecidingFinite DEF AtMostOnePerPass
  <2>6. QED BY <2>3, <2>4, <2>5
<1>4. ASSUME NEW p \in Passes, GiveUp(p) PROVE Inv'
  <2>1. /\ pass[p] = "deciding" /\ pass' = [pass EXCEPT ![p] = "idle"]
        /\ UNCHANGED <<queue, source, sess, held, said>>
    BY <1>4 DEF GiveUp
  <2>2. TypeOK'
    BY <2>1, <1>2 DEF TypeOK
  <2>3. Queued' = Queued /\ OwnRows' = OwnRows
    BY <2>1 DEF Queued, OwnRows
  <2>4. SaidIsDelivered' /\ SaidOncePerClient'
    BY <2>1, <2>3, SaidUntouched DEF SaidIsDelivered
  <2>5. AtMostOnePerPass'
    <3>1. Cardinality(OwnRows) \in Nat
      BY OwnRowsFinite
    <3>2. Cardinality(Deciding') = Cardinality(Deciding) - 1
      BY <2>1, <1>2
    <3>3. QED BY <2>3, <3>1, <3>2, DecidingFinite DEF AtMostOnePerPass
  <2>6. QED BY <2>1, <2>2, <2>3, <2>4, <2>5
<1>5. ASSUME RouteQueues PROVE Inv'
  <2>1. PICK id \in Fresh : Insert(id, "route")
    BY <1>5 DEF RouteQueues
  <2>2. UNCHANGED <<pass, sess, held>>
    BY <1>5 DEF RouteQueues
  <2>3. /\ queue' \in Seq(Ids) /\ said' \in [Ids -> Nat] /\ NoDup(queue')
        /\ source' \in [Ids -> {"pass", "route"}]
        /\ OwnRows' = OwnRows /\ SaidIsDelivered' /\ SaidOncePerClient'
        /\ \A s \in Sessions : sess'[s] \in {"marked", "open"} => held'[s] \notin Queued'
    BY <2>1, <2>2, InsertInv
  <2>4. TypeOK'
    BY <2>2, <2>3 DEF TypeOK
  <2>5. AtMostOnePerPass'
    BY <2>2, <2>3 DEF AtMostOnePerPass, Deciding
  <2>6. QED BY <2>3, <2>4, <2>5
<1>6. ASSUME NEW s \in Sessions, ReadPending(s) PROVE Inv'
  <2>1. /\ sess[s] = "closed" /\ Pending # None
        /\ held' = [held EXCEPT ![s] = Pending] /\ sess' = [sess EXCEPT ![s] = "read"]
        /\ UNCHANGED <<queue, source, pass, said>>
    BY <1>6 DEF ReadPending
  <2>2. Pending \in Ids /\ Pending \in Queued /\ None \notin Ids
    BY <2>1, QueueAssumption DEF Pending, TypeOK, Queued, Elems
  <2>3. TypeOK'
    BY <2>1, <2>2 DEF TypeOK
  <2>4. Queued' = Queued /\ OwnRows' = OwnRows
    BY <2>1 DEF Queued, OwnRows
  <2>5. \A t \in Sessions : sess'[t] \in {"marked", "open"} => held'[t] \notin Queued'
    BY <2>1, <2>4 DEF TypeOK
  <2>6. SaidIsDelivered' /\ AtMostOnePerPass'
    BY <2>1, <2>4 DEF SaidIsDelivered, AtMostOnePerPass, Deciding
  <2>7. SaidOncePerClient'
    <3> SUFFICES ASSUME NEW i \in Ids
                 PROVE  said'[i] + Cardinality(Opening(i)') <= Cardinality(Sessions)
      BY DEF SaidOncePerClient
    <3>1. CASE i = Pending
      <4>1. said'[i] = 0
        BY <2>1, <2>2, <3>1 DEF SaidIsDelivered, TypeOK
      <4>2. Opening(i)' \subseteq Sessions
        BY DEF Opening
      <4>3. /\ Cardinality(Opening(i)') <= Cardinality(Sessions)
            /\ Cardinality(Opening(i)') \in Nat
        BY <4>2, FS_Subset, FS_CardinalityType, QueueAssumption
      <4>4. QED BY <4>1, <4>3
    <3>2. CASE i # Pending
      <4>1. Opening(i)' = Opening(i)
        BY <2>1, <3>2 DEF Opening, TypeOK
      <4>2. QED BY <2>1, <4>1 DEF SaidOncePerClient
    <3>3. QED BY <3>1, <3>2
  <2>8. QED BY <2>1, <2>3, <2>5, <2>6, <2>7
<1>7. ASSUME NEW s \in Sessions, MarkDelivered(s) PROVE Inv'
  <2>1. /\ sess[s] = "read" /\ queue' = Without(queue, held[s])
        /\ sess' = [sess EXCEPT ![s] = "marked"] /\ UNCHANGED <<source, pass, held, said>>
    BY <1>7 DEF MarkDelivered
  <2>2. /\ queue' \in Seq(Ids) /\ NoDup(queue')
        /\ Elems(queue') \subseteq Elems(queue) \ {held[s]}
    BY <2>1, WithoutFacts DEF TypeOK
  <2>3. TypeOK'
    BY <2>1, <2>2 DEF TypeOK
  <2>4. \A t \in Sessions : sess'[t] \in {"marked", "open"} => held'[t] \notin Queued'
    BY <2>1, <2>2 DEF TypeOK, Queued
  <2>5. SaidIsDelivered'
    BY <2>1, <2>2 DEF SaidIsDelivered, Queued
  <2>6. AtMostOnePerPass'
    <3>1. OwnRows' \subseteq OwnRows
      BY <2>1, <2>2 DEF OwnRows, Queued
    <3>2. /\ Cardinality(OwnRows') <= Cardinality(OwnRows)
          /\ Cardinality(OwnRows') \in Nat /\ Cardinality(OwnRows) \in Nat
      BY <3>1, OwnRowsFinite, FS_Subset, FS_CardinalityType
    <3>3. Deciding' = Deciding
      BY <2>1 DEF Deciding
    <3>4. QED BY <3>2, <3>3, DecidingFinite DEF AtMostOnePerPass
  <2>7. SaidOncePerClient'
    <3>1. \A i \in Ids : Opening(i)' = Opening(i)
      BY <2>1 DEF Opening, TypeOK
    <3>2. QED BY <2>1, <3>1 DEF SaidOncePerClient
  <2>8. QED BY <2>2, <2>3, <2>4, <2>5, <2>6, <2>7
<1>8. ASSUME NEW s \in Sessions, SayOpener(s) PROVE Inv'
  <2>1. /\ sess[s] = "marked" /\ said' = [said EXCEPT ![held[s]] = @ + 1]
        /\ sess' = [sess EXCEPT ![s] = "open"] /\ UNCHANGED <<queue, source, pass, held>>
    BY <1>8 DEF SayOpener
  <2>2. held[s] \in Ids /\ held[s] \notin Queued
    BY <2>1 DEF TypeOK
  <2>3. TypeOK'
    BY <2>1, <2>2 DEF TypeOK
  <2>4. Queued' = Queued /\ OwnRows' = OwnRows
    BY <2>1 DEF Queued, OwnRows
  <2>5. \A t \in Sessions : sess'[t] \in {"marked", "open"} => held'[t] \notin Queued'
    BY <2>1, <2>2, <2>4 DEF TypeOK
  <2>6. SaidIsDelivered' /\ AtMostOnePerPass'
    BY <2>1, <2>2, <2>4 DEF SaidIsDelivered, AtMostOnePerPass, Deciding, TypeOK
  <2>7. SaidOncePerClient'
    <3> SUFFICES ASSUME NEW i \in Ids
                 PROVE  said'[i] + Cardinality(Opening(i)') <= Cardinality(Sessions)
      BY DEF SaidOncePerClient
    <3>0. /\ said[i] + Cardinality(Opening(i)) <= Cardinality(Sessions)
          /\ said[i] \in Nat /\ Cardinality(Opening(i)) \in Nat
          /\ Cardinality(Sessions) \in Nat /\ IsFiniteSet(Opening(i))
      BY OpeningFinite DEF SaidOncePerClient, TypeOK
    <3>1. CASE i = held[s]
      <4>1. said'[i] = said[i] + 1
        BY <2>1, <3>1 DEF TypeOK
      <4>2. Opening(i)' = Opening(i) \ {s} /\ s \in Opening(i)
        BY <2>1, <3>1 DEF Opening, TypeOK
      <4>3. Cardinality(Opening(i)') = Cardinality(Opening(i)) - 1
        BY <3>0, <4>2, FS_RemoveElement
      <4>4. QED BY <3>0, <4>1, <4>3
    <3>2. CASE i # held[s]
      <4>1. said'[i] = said[i] /\ Opening(i)' = Opening(i)
        BY <2>1, <3>2 DEF Opening, TypeOK
      <4>2. QED BY <3>0, <4>1
    <3>3. QED BY <3>1, <3>2
  <2>8. QED BY <2>1, <2>3, <2>5, <2>6, <2>7
<1>9. ASSUME NEW s \in Sessions, CloseSession(s) PROVE Inv'
  <2>1. /\ sess' = [sess EXCEPT ![s] = "closed"] /\ held' = [held EXCEPT ![s] = None]
        /\ UNCHANGED <<queue, source, pass, said>>
    BY <1>9 DEF CloseSession
  <2>2. TypeOK'
    BY <2>1 DEF TypeOK
  <2>3. Queued' = Queued /\ OwnRows' = OwnRows
    BY <2>1 DEF Queued, OwnRows
  <2>4. \A t \in Sessions : sess'[t] \in {"marked", "open"} => held'[t] \notin Queued'
    BY <2>1, <2>3 DEF TypeOK
  <2>5. SaidIsDelivered' /\ AtMostOnePerPass'
    BY <2>1, <2>3 DEF SaidIsDelivered, AtMostOnePerPass, Deciding
  <2>6. SaidOncePerClient'
    <3> SUFFICES ASSUME NEW i \in Ids
                 PROVE  said'[i] + Cardinality(Opening(i)') <= Cardinality(Sessions)
      BY DEF SaidOncePerClient
    <3>1. Opening(i)' \subseteq Opening(i)
      BY <2>1 DEF Opening, TypeOK
    <3>2. /\ said[i] + Cardinality(Opening(i)) <= Cardinality(Sessions)
          /\ said[i] \in Nat /\ Cardinality(Opening(i)) \in Nat
          /\ Cardinality(Sessions) \in Nat /\ IsFiniteSet(Opening(i))
      BY OpeningFinite DEF SaidOncePerClient, TypeOK
    <3>3. /\ Cardinality(Opening(i)') <= Cardinality(Opening(i))
          /\ Cardinality(Opening(i)') \in Nat
      BY <3>1, <3>2, FS_Subset, FS_CardinalityType
    <3>4. QED BY <2>1, <3>2, <3>3
  <2>7. QED BY <2>1, <2>2, <2>4, <2>5, <2>6
<1>10. CASE UNCHANGED vars
  <2>1. UNCHANGED <<queue, source, pass, sess, held, said>>
    BY <1>10 DEF vars
  <2>2. SaidOncePerClient'
    BY <2>1, SaidUntouched
  <2>3. QED
    BY <2>1, <2>2 DEF TypeOK, Queued, SaidIsDelivered, AtMostOnePerPass, Deciding, OwnRows
<1> HIDE DEF Inv
<1>11. QED
  BY <1>1, <1>3, <1>4, <1>5, <1>6, <1>7, <1>8, <1>9, <1>10 DEF Next, Produce, Open

\* At any time, whatever overlaps, Inv holds.
LEMMA Invariance == Spec => []Inv
<1>1. Init => Inv
  BY InitInv
<1>2. Inv /\ [Next]_vars => Inv'
  BY NextInv
<1>3. QED BY <1>1, <1>2, PTL DEF Spec

\* Every variable keeps its type; a session holds a row exactly while it is
\* opening or open (companion.py, open_session).
THEOREM QueueTypeCorrect == Spec => []TypeOK
<1>1. Inv => TypeOK
  BY DEF Inv
<1>2. QED BY <1>1, Invariance, PTL

\* The undelivered rows of the proactivity engine and the sleep pass are never
\* more than the passes that can run at once, whatever overlaps: with one pass
\* at a time the documented "at most one undelivered row" holds of them.
THEOREM BacklogBounded == Spec => []AtMostOnePerPass
<1>1. Inv => AtMostOnePerPass
  BY DEF Inv
<1>2. QED BY <1>1, Invariance, PTL

\* A check-in a session has opened with is never queued again, so nobody hears
\* it in a session that starts later, crashes while opening included.
THEOREM SaidOnlyDelivered == Spec => []SaidIsDelivered
<1>1. Inv => SaidIsDelivered
  BY DEF Inv
<1>2. QED BY <1>1, Invariance, PTL

\* A row opens no more sessions than there are clients that can have read it
\* before it was marked delivered: with one client, none is said twice.
THEOREM SaidOncePerClientHolds == Spec => []SaidOncePerClient
<1>1. Inv => SaidOncePerClient
  BY DEF Inv
<1>2. QED BY <1>1, Invariance, PTL

\* Both at once.
THEOREM SaidAtMostOnce == Spec => []SaidOnce
BY SaidOnlyDelivered, SaidOncePerClientHolds, PTL DEF SaidOnce

-------------------------------------------------------------------------------
(* The queries: the oldest and the newest row of a selection.               *)

Before == {p \in Nat \X Nat : p[1] < p[2]}

LEMMA Least ==
  ASSUME NEW S, S \subseteq Nat, S # {}
  PROVE  \E x \in S : \A y \in S : x <= y
<1>1. Before = OpToRel(<, Nat)
  BY DEF Before, OpToRel
<1>2. PICK x \in S : \A y \in S : <<y, x>> \notin Before
  BY <1>1, NatLessThanWellFounded, WFMin
<1>3. ASSUME NEW y \in S PROVE x <= y
  <2>1. <<y, x>> \in Nat \X Nat /\ <<y, x>> \notin Before
    BY <1>2
  <2>2. QED BY <2>1 DEF Before
<1>4. QED BY <1>3

LEMMA Greatest ==
  ASSUME NEW n \in Nat, NEW S \in SUBSET (1..n), S # {}
  PROVE  \E x \in S : \A y \in S : y <= x
<1> DEFINE D == {n - x : x \in S}
<1>1. D \subseteq Nat
  OBVIOUS
<1>2. D # {}
  OBVIOUS
<1> HIDE DEF D
<1>3. PICK d \in D : \A e \in D : d <= e
  BY <1>1, <1>2, Least
<1>4. PICK x \in S : d = n - x
  BY <1>3 DEF D
<1>5. ASSUME NEW y \in S PROVE y <= x
  <2>1. d <= n - y
    BY <1>3 DEF D
  <2>2. QED BY <1>4, <2>1
<1>6. QED BY <1>5

\* ORDER BY ... LIMIT 1 returns a row of the selection, the extreme one, and
\* nothing exactly when the selection is empty.
LEMMA NewestFacts ==
  ASSUME NEW n \in Nat, NEW S \in SUBSET (1..n)
  PROVE  /\ S = {} => Newest(S) = NoRec
         /\ S # {} => Newest(S) \in S /\ \A q \in S : q <= Newest(S)
BY Greatest DEF Newest

LEMMA OldestFacts ==
  ASSUME NEW n \in Nat, NEW S \in SUBSET (1..n)
  PROVE  /\ S = {} => Oldest(S) = NoRec
         /\ S # {} => Oldest(S) \in S /\ \A q \in S : Oldest(S) <= q
<1>1. S \subseteq Nat
  OBVIOUS
<1>2. QED BY <1>1, Least DEF Oldest

\* The three selections of the matching service.
LEMMA Selections ==
  ASSUME log \in Seq(Row)
  PROVE  /\ Logged = 1..Len(log) /\ Len(log) \in Nat
         /\ OpenUndelivered = NoRec
              \/ /\ OpenUndelivered \in Logged
                 /\ ~log[OpenUndelivered].delivered /\ IsOpen(OpenUndelivered)
         /\ DueFollowup = NoRec
              \/ /\ DueFollowup \in Logged
                 /\ log[DueFollowup].delivered /\ IsOpen(DueFollowup)
         /\ PendingFollowup = NoRec
              \/ /\ PendingFollowup \in Logged
                 /\ log[PendingFollowup].sent /\ IsOpen(PendingFollowup)
<1>1. Logged = 1..Len(log) /\ Len(log) \in Nat
  BY DEF Logged
<1> DEFINE U == {r \in Logged : ~log[r].delivered /\ IsOpen(r)}
           D == {r \in Logged : /\ log[r].delivered /\ ~log[r].sent
                                /\ log[r].age # "new" /\ IsOpen(r)}
           F == {r \in Logged : log[r].sent /\ IsOpen(r)}
<1>2. U \in SUBSET (1..Len(log)) /\ D \in SUBSET (1..Len(log)) /\ F \in SUBSET (1..Len(log))
  BY <1>1
<1>3. OpenUndelivered = Newest(U) /\ DueFollowup = Oldest(D) /\ PendingFollowup = Newest(F)
  BY DEF OpenUndelivered, DueFollowup, PendingFollowup
<1>4. Newest(U) = NoRec \/ Newest(U) \in U
  <2> HIDE DEF U
  <2>1. QED BY <1>1, <1>2, NewestFacts
<1>5. Newest(F) = NoRec \/ Newest(F) \in F
  <2> HIDE DEF F
  <2>1. QED BY <1>1, <1>2, NewestFacts
<1>6. Oldest(D) = NoRec \/ Oldest(D) \in D
  <2> HIDE DEF D
  <2>1. QED BY <1>1, <1>2, OldestFacts
<1>7. QED BY <1>1, <1>3, <1>4, <1>5, <1>6

\* An UPDATE of one row.
LEMMA RowUpdated ==
  ASSUME NEW R, NEW q \in Seq(R), NEW r, NEW x, r \in DOMAIN q => x \in R
  PROVE  LET u == [q EXCEPT ![r] = x] IN
         /\ u \in Seq(R) /\ Len(u) = Len(q) /\ DOMAIN u = DOMAIN q
         /\ \A i \in DOMAIN q : u[i] = IF i = r THEN x ELSE q[i]
<1> DEFINE u == [q EXCEPT ![r] = x]
<1>1. DOMAIN q = 1..Len(q) /\ Len(q) \in Nat /\ q \in [1..Len(q) -> R]
  OBVIOUS
<1>2. u \in [1..Len(q) -> R]
  BY <1>1
<1>3. u \in Seq(R) /\ Len(u) = Len(q)
  BY <1>1, <1>2
<1>4. \A i \in DOMAIN q : u[i] = IF i = r THEN x ELSE q[i]
  BY <1>1
<1>5. QED BY <1>1, <1>2, <1>3, <1>4

-------------------------------------------------------------------------------
(* Types.                                                                   *)

\* A follow-up is about a recommendation, and a session that opened with a
\* check-in holds it.
Ties ==
  /\ \A p \in Passes : pass[p] = "due" => pick[p] \in Recs
  /\ \A id \in Ids : about[id][1] = "followup" => about[id][2] \in Recs
  /\ \A s \in Sessions : sess[s] # "closed" => held[s] \in Ids

\* The ids in the queue are distinct, so delivering one takes it out.
JobTypeInv == JobTypeOK /\ NoDup(queue) /\ Ties

\* What an insert does to the queue.
LEMMA Inserted ==
  ASSUME JobTypeInv, NEW id \in Fresh, NEW by \in {"pass", "route"}, Insert(id, by)
  PROVE  /\ queue' \in Seq(Ids) /\ NoDup(queue') /\ Queued' = Queued \cup {id}
         /\ source' \in [Ids -> {"pass", "route"}] /\ said' \in [Ids -> Nat]
         /\ id \in Ids /\ id \notin Queued /\ \A s \in Sessions : held[s] # id
<1>1. /\ id \in Ids /\ id \notin Elems(queue) /\ \A s \in Sessions : held[s] # id
  BY DEF Fresh, Queued
<1>2. queue \in Seq(Ids) /\ NoDup(queue)
  BY DEF JobTypeInv, JobTypeOK
<1>3. queue' = Append(queue, id)
  BY DEF Insert
<1>4. queue' \in Seq(Ids) /\ NoDup(queue') /\ Elems(queue') = Elems(queue) \cup {id}
  BY <1>1, <1>2, <1>3, AppendFacts
<1>5. source' \in [Ids -> {"pass", "route"}] /\ said' \in [Ids -> Nat]
  BY DEF Insert, JobTypeInv, JobTypeOK
<1>6. QED BY <1>1, <1>4, <1>5 DEF Queued

\* The head of the queue, when there is one.
LEMMA PendingFacts ==
  ASSUME JobTypeInv
  PROVE  /\ Pending = None => Queued = {}
         /\ Pending # None => Pending \in Queued /\ Pending \in Ids
<1>1. queue \in Seq(Ids) /\ None \notin Ids
  BY QueueAssumption DEF JobTypeInv, JobTypeOK
<1>2. QED BY <1>1 DEF Pending, Queued, Elems

\* What an update of one row, and what appending one, leave of the log.
LEMMA RowKept ==
  ASSUME log \in Seq(Row), Len(log) <= MaxLog, NEW r, NEW x, r \in Logged => x \in Row,
         log' = [log EXCEPT ![r] = x]
  PROVE  /\ log' \in Seq(Row) /\ Len(log') <= MaxLog /\ Len(log') = Len(log)
         /\ Logged' = Logged
         /\ \A i \in Logged : log'[i] = IF i = r THEN x ELSE log[i]
<1>1. r \in DOMAIN log => x \in Row
  BY DEF Logged
<1>2. LET u == [log EXCEPT ![r] = x] IN
         /\ u \in Seq(Row) /\ Len(u) = Len(log) /\ DOMAIN u = DOMAIN log
         /\ \A i \in DOMAIN log : u[i] = IF i = r THEN x ELSE log[i]
  <2> HIDE DEF Row
  <2>1. QED BY <1>1, RowUpdated
<1>3. QED BY <1>2 DEF Logged

LEMMA RowAdded ==
  ASSUME log \in Seq(Row), Len(log) < MaxLog, NEW x \in Row, log' = Append(log, x)
  PROVE  /\ log' \in Seq(Row) /\ Len(log') <= MaxLog /\ Len(log') = Len(log) + 1
         /\ Logged' = Logged \cup {Len(log) + 1} /\ Len(log) + 1 \notin Logged
         /\ log'[Len(log) + 1] = x
         /\ \A i \in Logged : log'[i] = log[i]
<1>1. Len(log) \in Nat /\ Logged = 1..Len(log)
  BY DEF Logged
<1>2. MaxLog \in Nat
  BY JobAssumption
<1> HIDE DEF Row
<1>3. /\ log' \in Seq(Row) /\ Len(log') = Len(log) + 1
      /\ log'[Len(log) + 1] = x /\ \A i \in 1..Len(log) : log'[i] = log[i]
  OBVIOUS
<1>4. Logged' = 1..(Len(log) + 1)
  BY <1>3 DEF Logged
<1>5. QED BY <1>1, <1>2, <1>3, <1>4

\* One field of a row changes.
LEMMA RowFields ==
  ASSUME NEW x \in Row
  PROVE  /\ [x EXCEPT !.delivered = TRUE] \in Row
         /\ [x EXCEPT !.sent = TRUE] \in Row
         /\ \A a \in {"new", "due", "cold"} : [x EXCEPT !.age = a] \in Row
         /\ \A o \in Outcome : [x EXCEPT !.outcome = o] \in Row
BY DEF Row

LEMMA JobInitType == JobInit => JobTypeInv
<1> SUFFICES ASSUME JobInit PROVE JobTypeInv
  OBVIOUS
<1> USE DEF JobInit, Init
<1>1. queue \in Seq(Ids) /\ NoDup(queue) /\ log \in Seq(Row) /\ Len(log) <= MaxLog
  BY JobAssumption DEF NoDup
<1>2. call \in [Passes -> Call]
  BY DEF Call, Idle
<1>3. armed \in [Sessions -> Questions]
  BY DEF Unarmed, Questions
<1>4. /\ source \in [Ids -> {"pass", "route"}] /\ said \in [Ids -> Nat]
      /\ held \in [Sessions -> Ids \cup {None}]
      /\ pass \in [Passes -> Stages]
      /\ sess \in [Sessions -> {"closed", "read", "marked", "setup", "open"}]
  BY DEF Stages
<1>5. /\ about \in [Ids -> {"job", "followup", "other"} \X (Recs \cup {NoRec})]
      /\ pick \in [Passes -> Recs \cup {NoRec}]
      /\ active \in BOOLEAN /\ asked \subseteq Recs /\ waited \subseteq Recs
  OBVIOUS
<1>6. faults \in 0..MaxFaults
  BY JobAssumption
<1>7. /\ \A p \in Passes : pass[p] # "due"
      /\ \A id \in Ids : about[id][1] # "followup"
      /\ \A s \in Sessions : sess[s] = "closed"
  OBVIOUS
<1>8. QED BY <1>1, <1>2, <1>3, <1>4, <1>5, <1>6, <1>7 DEF JobTypeInv, JobTypeOK, Ties

\* A failure is counted; without one the count stays.
LEMMA FaultCounted ==
  ASSUME JobTypeOK, \/ UNCHANGED faults
                    \/ faults < MaxFaults /\ faults' = faults + 1
  PROVE  faults' \in 0..MaxFaults
BY JobAssumption DEF JobTypeOK

LEMMA JobNextType == JobTypeInv /\ [JobNext]_allVars => JobTypeInv'
<1> SUFFICES ASSUME JobTypeInv, [JobNext]_allVars PROVE JobTypeInv'
  OBVIOUS
<1>t. /\ queue \in Seq(Ids) /\ NoDup(queue) /\ source \in [Ids -> {"pass", "route"}]
      /\ held \in [Sessions -> Ids \cup {None}]
      /\ pass \in [Passes -> Stages]
      /\ sess \in [Sessions -> {"closed", "read", "marked", "setup", "open"}]
      /\ said \in [Ids -> Nat]
      /\ log \in Seq(Row) /\ Len(log) <= MaxLog
      /\ about \in [Ids -> {"job", "followup", "other"} \X (Recs \cup {NoRec})]
      /\ pick \in [Passes -> Recs \cup {NoRec}]
      /\ call \in [Passes -> Call]
      /\ armed \in [Sessions -> Questions]
      /\ active \in BOOLEAN /\ asked \subseteq Recs /\ waited \subseteq Recs
      /\ faults \in 0..MaxFaults
  BY DEF JobTypeInv, JobTypeOK
<1>h. /\ \A p \in Passes : pass[p] = "due" => pick[p] \in Recs
      /\ \A id \in Ids : about[id][1] = "followup" => about[id][2] \in Recs
      /\ \A s \in Sessions : sess[s] # "closed" => held[s] \in Ids
  BY DEF JobTypeInv, Ties
<1>s. /\ OpenUndelivered \in Recs \cup {NoRec} /\ DueFollowup \in Recs \cup {NoRec}
      /\ PendingFollowup \in Recs \cup {NoRec}
      /\ Logged = 1..Len(log) /\ Len(log) \in Nat /\ Logged \subseteq Recs
  BY <1>t, Selections, JobAssumption DEF Recs
<1>f. UNCHANGED faults \/ (faults < MaxFaults /\ faults' = faults + 1)
        => faults' \in 0..MaxFaults
  BY FaultCounted DEF JobTypeInv
<1>c. /\ Idle \in Call /\ [at |-> "asked", data |-> None] \in Call
      /\ \A j \in Jobs : [at |-> "picked", data |-> j] \in Call
      /\ \A d \in SUBSET Range(Partner) : [at |-> "read", data |-> d] \in Call
  BY DEF Call, Idle
<1>a. /\ Unarmed \in Questions
      /\ \A r \in Recs \cup {NoRec} : /\ [kind |-> "job", rec |-> r] \in Questions
                                      /\ [kind |-> "followup", rec |-> r] \in Questions
      /\ NoRec \in Recs \cup {NoRec}
  BY DEF Unarmed, Questions
<1>1. ASSUME NEW p \in Passes, StartFollowups(p) PROVE JobTypeInv'
  <2>1. /\ pass' \in [Passes -> Stages]
        /\ \A q \in Passes : pass'[q] = "due" => pass[q] = "due"
        /\ UNCHANGED <<queue, source, sess, held, said, jobVars>>
    BY <1>t, <1>1 DEF Stages, StartFollowups
  <2>2. QED BY <1>t, <1>h, <2>1 DEF JobTypeInv, JobTypeOK, Ties, jobVars
<1>2. ASSUME NEW p \in Passes, AsksDue(p) PROVE JobTypeInv'
  <2>1. /\ pick' \in [Passes -> Recs \cup {NoRec}]
        /\ pass' \in [Passes -> Stages]
        /\ \A q \in Passes : pass'[q] = "due" => pick'[q] \in Recs
    <3>1. CASE /\ DueFollowup # NoRec /\ pick' = [pick EXCEPT ![p] = DueFollowup]
               /\ pass' = [pass EXCEPT ![p] = "due"]
      BY <3>1, <1>t, <1>h, <1>s DEF Stages
    <3>2. CASE pick' = pick /\ pass' = [pass EXCEPT ![p] = "between"]
      BY <3>2, <1>t, <1>h DEF Stages
    <3>3. QED BY <1>2, <3>1, <3>2 DEF AsksDue
  <2>2. faults' \in 0..MaxFaults
    BY <1>2, <1>f DEF AsksDue, Fails
  <2>3. UNCHANGED <<queue, source, sess, held, said, log, about, call, armed, active, asked, waited>>
    BY <1>2 DEF AsksDue
  <2>4. QED BY <1>t, <1>h, <2>1, <2>2, <2>3 DEF JobTypeInv, JobTypeOK, Ties
<1>3. ASSUME NEW p \in Passes, NEW kind \in {"job", "followup"},
             NEW next \in {"idle", "sending"}, QueueAbout(p, kind, next),
             kind = "followup" => pick[p] \in Recs
      PROVE  JobTypeInv'
  <2>1. /\ queue' \in Seq(Ids) /\ NoDup(queue') /\ source' \in [Ids -> {"pass", "route"}]
        /\ said' \in [Ids -> Nat]
        /\ about' \in [Ids -> {"job", "followup", "other"} \X (Recs \cup {NoRec})]
        /\ \A i \in Ids : about'[i][1] = "followup" => about'[i][2] \in Recs
    <3>1. CASE \E id \in Fresh : Insert(id, "pass") /\ about' = [about EXCEPT ![id] = <<kind, pick[p]>>]
      <4>1. PICK id \in Fresh : Insert(id, "pass") /\ about' = [about EXCEPT ![id] = <<kind, pick[p]>>]
        BY <3>1
      <4>2. /\ about' \in [Ids -> {"job", "followup", "other"} \X (Recs \cup {NoRec})]
            /\ \A i \in Ids : about'[i][1] = "followup" => about'[i][2] \in Recs
        BY <4>1, <1>3, <1>t, <1>h
      <4>3. QED BY <4>1, <4>2, Inserted
    <3>2. CASE UNCHANGED <<queue, source, said, about>>
      BY <3>2, <1>t, <1>h
    <3>3. QED BY <1>3, <3>1, <3>2 DEF QueueAbout
  <2>2. /\ pass' \in [Passes -> Stages]
        /\ \A q \in Passes : pass'[q] = "due" => pass[q] = "due"
    <3>1. \E v \in {"idle", "sending", "between"} : pass' = [pass EXCEPT ![p] = v]
      BY <1>3 DEF QueueAbout
    <3>2. QED BY <3>1, <1>t DEF Stages
  <2>3. faults' \in 0..MaxFaults
    BY <1>3, <1>f DEF QueueAbout, Fails
  <2>4. UNCHANGED <<sess, held, log, pick, call, armed, active, asked, waited>>
    BY <1>3 DEF QueueAbout
  <2>5. QED BY <1>t, <1>h, <2>1, <2>2, <2>3, <2>4 DEF JobTypeInv, JobTypeOK, Ties
<1>4. ASSUME NEW p \in Passes, MarkSent(p) PROVE JobTypeInv'
  <2>1. log' \in Seq(Row) /\ Len(log') <= MaxLog
    <3>1. CASE log' = [log EXCEPT ![pick[p]].sent = TRUE]
      <4> DEFINE x == [log[pick[p]] EXCEPT !.sent = TRUE]
      <4>1. pick[p] \in Logged => x \in Row
        <5>1. pick[p] \in Logged => log[pick[p]] \in Row
          BY <1>t, <1>s
        <5>2. QED BY <5>1, RowFields
      <4>2. log' = [log EXCEPT ![pick[p]] = x]
        BY <3>1
      <4> HIDE DEF x
      <4>3. QED BY <1>t, <1>h, <4>1, <4>2, RowKept
    <3>2. QED BY <1>4, <1>t, <3>1 DEF MarkSent, Stages
  <2>2. faults' \in 0..MaxFaults
    BY <1>4, <1>f DEF MarkSent, Fails
  <2>3. /\ pass' \in [Passes -> Stages]
        /\ \A q \in Passes : pass'[q] = "due" => pass[q] = "due"
        /\ UNCHANGED <<queue, source, sess, held, said, about, pick, call, armed, active, asked, waited>>
    BY <1>4, <1>t DEF MarkSent, Stages
  <2>4. QED BY <1>t, <1>h, <2>1, <2>2, <2>3 DEF JobTypeInv, JobTypeOK, Ties
<1>5. ASSUME NEW p \in Passes, StartMatch(p) PROVE JobTypeInv'
  <2>1. /\ pass' \in [Passes -> Stages]
        /\ \A q \in Passes : pass'[q] = "due" => pass[q] = "due"
        /\ call' \in [Passes -> Call]
        /\ UNCHANGED <<queue, source, sess, held, said, log, about, pick, armed, active, asked, waited, faults>>
    <3>1. \E v \in {"matching", "idle"} : pass' = [pass EXCEPT ![p] = v]
      BY <1>5 DEF StartMatch
    <3>2. \/ call' = [call EXCEPT ![p] = [at |-> "asked", data |-> None]]
          \/ call' = call
      BY <1>5 DEF StartMatch
    <3>3. pass' \in [Passes -> Stages] /\ \A q \in Passes : pass'[q] = "due" => pass[q] = "due"
      BY <1>t, <3>1 DEF Stages
    <3>4. call' \in [Passes -> Call]
      BY <1>t, <1>c, <3>2
    <3>5. QED BY <1>5, <3>3, <3>4 DEF StartMatch
  <2>2. QED BY <1>t, <1>h, <2>1 DEF JobTypeInv, JobTypeOK, Ties
<1>6. ASSUME NEW p \in Passes, MatchReads(p) PROVE JobTypeInv'
  <2>1. Disliked \in SUBSET Range(Partner)
    <3>1. ASSUME NEW r \in Logged PROVE log[r].job \in DOMAIN Partner
      <4>1. log[r] \in Row
        BY <1>t, <1>s
      <4>2. QED BY <4>1, JobAssumption DEF Row
    <3>2. QED BY <3>1 DEF Disliked, Range
  <2>2. /\ call' \in [Passes -> Call]
        /\ pass' \in [Passes -> Stages]
        /\ \A q \in Passes : pass'[q] = "due" => pass[q] = "due"
        /\ UNCHANGED <<queue, source, sess, held, said, log, about, pick, armed, active, asked, waited, faults>>
    <3>1. CASE Blocked
      <4>1. /\ call' = [call EXCEPT ![p] = Idle]
            /\ pass' = [pass EXCEPT ![p] = IF @ = "matching" THEN "idle" ELSE @]
        BY <1>6, <3>1 DEF MatchReads
      <4>2. QED BY <1>6, <1>t, <1>c, <4>1 DEF MatchReads, Stages
    <3>2. CASE ~Blocked
      <4>1. call' = [call EXCEPT ![p] = [at |-> "read", data |-> Disliked]] /\ pass' = pass
        BY <1>6, <3>2 DEF MatchReads
      <4> HIDE DEF Disliked
      <4>2. call' \in [Passes -> Call]
        BY <2>1, <1>t, <1>c, <4>1
      <4>3. QED BY <1>6, <1>t, <4>1, <4>2 DEF MatchReads
    <3>3. QED BY <3>1, <3>2
  <2>3. QED BY <1>t, <1>h, <2>2 DEF JobTypeInv, JobTypeOK, Ties
<1>7. ASSUME NEW p \in Passes, MatchPicks(p) PROVE JobTypeInv'
  <2>1. PICK fits \in SUBSET (Jobs \ Fallback) :
          \/ /\ call' = [call EXCEPT ![p] = Idle]
             /\ pass' = [pass EXCEPT ![p] = IF @ = "matching" THEN "idle" ELSE @]
          \/ /\ \E j \in Choice(fits, call[p].data) :
                   call' = [call EXCEPT ![p] = [at |-> "picked", data |-> j]]
             /\ UNCHANGED pass
    BY <1>7 DEF MatchPicks
  <2>2. Choice(fits, call[p].data) \subseteq Jobs
    BY DEF Choice
  <2>3. call' \in [Passes -> Call]
    <3>1. CASE call' = [call EXCEPT ![p] = Idle]
      BY <3>1, <1>t, <1>c
    <3>2. CASE \E j \in Choice(fits, call[p].data) :
                 call' = [call EXCEPT ![p] = [at |-> "picked", data |-> j]]
      <4>1. PICK j \in Jobs : call' = [call EXCEPT ![p] = [at |-> "picked", data |-> j]]
        BY <2>2, <3>2
      <4>2. QED BY <4>1, <1>t, <1>c
    <3>3. QED BY <2>1, <3>1, <3>2
  <2>4. pass' \in [Passes -> Stages] /\ \A q \in Passes : pass'[q] = "due" => pass[q] = "due"
    BY <2>1, <1>t DEF Stages
  <2>5. UNCHANGED <<queue, source, sess, held, said, log, about, pick, armed, active, asked, waited, faults>>
    BY <1>7 DEF MatchPicks
  <2>6. QED BY <1>t, <1>h, <2>3, <2>4, <2>5 DEF JobTypeInv, JobTypeOK, Ties
<1>8. ASSUME NEW p \in Passes, MatchLogs(p) PROVE JobTypeInv'
  <2>1. /\ call[p].at = "picked" /\ Len(log) < MaxLog
        /\ log' = Append(log, NewRec(call[p].data))
        /\ call' = [call EXCEPT ![p] = Idle]
        /\ UNCHANGED <<queue, source, sess, held, said, about, armed, active, asked, waited, faults>>
    BY <1>8 DEF MatchLogs
  <2>2. NewRec(call[p].data) \in Row
    <3>1. call[p] \in Call
      BY <1>t
    <3>2. call[p].data \in Jobs
      BY <2>1, <3>1 DEF Call
    <3>3. QED BY <3>2 DEF NewRec, Row
  <2>3. log' \in Seq(Row) /\ Len(log') <= MaxLog
    BY <2>1, <2>2, <1>t, RowAdded
  <2>4. call' \in [Passes -> Call]
    BY <2>1, <1>t, <1>c
  <2>5. /\ pick' \in [Passes -> Recs \cup {NoRec}]
        /\ pass' \in [Passes -> Stages]
        /\ \A q \in Passes : pass'[q] = "due" => pick'[q] \in Recs
    <3>1. Len(log) + 1 \in Recs
      BY <1>s, <2>1, JobAssumption DEF Recs
    <3>2. CASE pass[p] = "matching"
      <4>1. /\ pass' = [pass EXCEPT ![p] = "hint"]
            /\ pick' = [pick EXCEPT ![p] = Len(log) + 1]
        BY <1>8, <3>2 DEF MatchLogs
      <4>2. QED BY <1>t, <1>h, <3>1, <4>1 DEF Stages
    <3>3. CASE pass[p] # "matching"
      <4>1. UNCHANGED <<pass, pick>>
        BY <1>8, <3>3 DEF MatchLogs
      <4>2. QED BY <1>t, <1>h, <4>1
    <3>4. QED BY <3>2, <3>3
  <2>6. QED BY <1>t, <1>h, <2>1, <2>3, <2>4, <2>5 DEF JobTypeInv, JobTypeOK, Ties
<1>9. ASSUME NEW p \in Passes, GivesUp(p) PROVE JobTypeInv'
  <2>1. faults' \in 0..MaxFaults
    BY <1>9, <1>f DEF GivesUp, Fails
  <2>2. /\ pass' \in [Passes -> Stages]
        /\ \A q \in Passes : pass'[q] = "due" => pass[q] = "due"
        /\ UNCHANGED <<queue, source, sess, held, said, log, about, pick, call, armed, active, asked, waited>>
    BY <1>9, <1>t DEF GivesUp, Stages
  <2>3. QED BY <1>t, <1>h, <2>1, <2>2 DEF JobTypeInv, JobTypeOK, Ties
<1>10. ASSUME OthersQueue PROVE JobTypeInv'
  <2>1. PICK id \in Fresh : Insert(id, "route") /\ about' = [about EXCEPT ![id] = <<"other", NoRec>>]
    BY <1>10 DEF OthersQueue
  <2>2. /\ about' \in [Ids -> {"job", "followup", "other"} \X (Recs \cup {NoRec})]
        /\ \A i \in Ids : about'[i][1] = "followup" => about'[i][2] \in Recs
    BY <2>1, <1>t, <1>h
  <2>3. /\ queue' \in Seq(Ids) /\ NoDup(queue') /\ source' \in [Ids -> {"pass", "route"}]
        /\ said' \in [Ids -> Nat]
    BY <2>1, Inserted
  <2>4. UNCHANGED <<pass, sess, held, log, pick, call, armed, active, asked, waited, faults>>
    BY <1>10 DEF OthersQueue
  <2>5. QED BY <1>t, <1>h, <2>2, <2>3, <2>4 DEF JobTypeInv, JobTypeOK, Ties
<1>11. ASSUME NEW r \in Logged, TimePasses(r) PROVE JobTypeInv'
  <2>1. log' \in Seq(Row) /\ Len(log') <= MaxLog
    <3>1. ASSUME NEW a \in {"due", "cold"}, log' = [log EXCEPT ![r].age = a]
          PROVE  log' \in Seq(Row) /\ Len(log') <= MaxLog
      <4> DEFINE x == [log[r] EXCEPT !.age = a]
      <4>1. x \in Row
        <5>1. log[r] \in Row
          BY <1>t, <1>s
        <5>2. QED BY <5>1, RowFields
      <4>2. log' = [log EXCEPT ![r] = x]
        BY <3>1
      <4> HIDE DEF x
      <4>3. QED BY <1>t, <1>h, <4>1, <4>2, RowKept
    <3>2. QED BY <1>11, <1>t, <3>1 DEF TimePasses
  <2>2. waited' \subseteq Recs
    BY <1>11, <1>t, <1>s DEF TimePasses
  <2>3. UNCHANGED <<vars, about, pick, call, armed, active, asked, faults>>
    BY <1>11 DEF TimePasses
  <2>4. QED BY <1>t, <1>h, <2>1, <2>2, <2>3 DEF JobTypeInv, JobTypeOK, Ties, vars
<1>12. ASSUME NEW s \in Sessions, Reads(s) PROVE JobTypeInv'
  <2>1. Pending \in Ids
    BY <1>12, PendingFacts DEF Reads, ReadPending
  <2>2. /\ held' \in [Sessions -> Ids \cup {None}]
        /\ sess' \in [Sessions -> {"closed", "read", "marked", "setup", "open"}]
        /\ \A t \in Sessions : sess'[t] # "closed" => held'[t] \in Ids
        /\ UNCHANGED <<queue, source, pass, said, jobVars>>
    BY <1>12, <2>1, <1>t, <1>h DEF Reads, ReadPending
  <2>3. QED BY <1>t, <1>h, <2>2 DEF JobTypeInv, JobTypeOK, Ties, jobVars
<1>13. ASSUME NEW s \in Sessions, Marks(s) PROVE JobTypeInv'
  <2>1. /\ queue' = Without(queue, held[s])
        /\ sess' \in [Sessions -> {"closed", "read", "marked", "setup", "open"}]
        /\ \A t \in Sessions : sess'[t] # "closed" => held'[t] \in Ids
        /\ UNCHANGED <<source, pass, held, said, jobVars>>
    BY <1>13, <1>t, <1>h DEF Marks, MarkDelivered
  <2>2. queue' \in Seq(Ids) /\ NoDup(queue')
    BY <2>1, <1>t, WithoutFacts
  <2>3. QED BY <1>t, <1>h, <2>1, <2>2 DEF JobTypeInv, JobTypeOK, Ties, jobVars
<1>14. ASSUME NEW s \in Sessions, Says(s) PROVE JobTypeInv'
  <2>1. /\ sess' \in [Sessions -> {"closed", "read", "marked", "setup", "open"}]
        /\ UNCHANGED <<queue, source, pass, held, log, about, pick, call, armed, active, waited, faults>>
        /\ held[s] \in Ids /\ \A t \in Sessions : sess'[t] # "closed" => sess[t] # "closed"
    BY <1>14, <1>t, <1>h DEF Says
  <2>2. said' \in [Ids -> Nat]
    BY <1>14, <1>t, <2>1 DEF Says
  <2>4. asked' \subseteq Recs
    BY <1>14, <1>t, <1>h, <2>1 DEF Says
  <2>5. QED BY <1>t, <1>h, <2>1, <2>2, <2>4 DEF JobTypeInv, JobTypeOK, Ties
<1>15. ASSUME NEW s \in Sessions, Setup(s) PROVE JobTypeInv'
  <2>1. /\ sess' \in [Sessions -> {"closed", "read", "marked", "setup", "open"}]
        /\ \A t \in Sessions : sess'[t] # "closed" => held'[t] \in Ids
        /\ UNCHANGED <<queue, source, pass, held, said, about, pick, call, active, asked, waited>>
    BY <1>15, <1>t, <1>h DEF Setup
  <2>2. /\ log' \in Seq(Row) /\ Len(log') <= MaxLog /\ armed' \in [Sessions -> Questions]
        /\ faults' \in 0..MaxFaults
    <3>1. CASE SetupJob(s)
      <4>1. log' \in Seq(Row) /\ Len(log') <= MaxLog
        <5>1. ASSUME NEW r \in Logged, log' = [log EXCEPT ![r].delivered = TRUE]
              PROVE  log' \in Seq(Row) /\ Len(log') <= MaxLog
          <6> DEFINE x == [log[r] EXCEPT !.delivered = TRUE]
          <6>1. x \in Row
            <7>1. log[r] \in Row
              BY <1>t, <1>s
            <7>2. QED BY <7>1, RowFields
          <6>2. log' = [log EXCEPT ![r] = x]
            BY <5>1
          <6> HIDE DEF x
          <6>3. QED BY <1>t, <1>h, <6>1, <6>2, RowKept
        <5>2. OpenUndelivered # NoRec => OpenUndelivered \in Logged
          BY <1>t, Selections
        <5>3. QED BY <3>1, <5>1, <5>2, <1>t DEF SetupJob
      <4>2. armed' \in [Sessions -> Questions]
        <5>1. \/ armed' = [armed EXCEPT ![s] = [kind |-> "job", rec |-> OpenUndelivered]]
              \/ armed' = [armed EXCEPT ![s] = [kind |-> "job", rec |-> NoRec]]
          BY <3>1 DEF SetupJob
        <5>2. QED BY <5>1, <1>t, <1>s, <1>a
      <4>3. faults' \in 0..MaxFaults
        BY <3>1, <1>f DEF SetupJob, Fails
      <4>4. QED BY <4>1, <4>2, <4>3
    <3>2. CASE SetupFollowup(s)
      <4>1. armed' \in [Sessions -> Questions]
        <5>1. \/ armed' = [armed EXCEPT ![s] = [kind |-> "followup", rec |-> PendingFollowup]]
              \/ armed' = [armed EXCEPT ![s] = [kind |-> "followup", rec |-> NoRec]]
          BY <3>2 DEF SetupFollowup
        <5>2. QED BY <5>1, <1>t, <1>s, <1>a
      <4>2. UNCHANGED log /\ faults' \in 0..MaxFaults
        BY <3>2, <1>f DEF SetupFollowup, Fails
      <4>3. QED BY <4>1, <4>2, <1>t
    <3>3. QED BY <1>15, <3>1, <3>2, <1>t DEF Setup
  <2>3. QED BY <1>t, <1>h, <2>1, <2>2 DEF JobTypeInv, JobTypeOK, Ties
<1>16. ASSUME NEW s \in Sessions, Replies(s) PROVE JobTypeInv'
  <2>1. /\ armed' = [armed EXCEPT ![s] = Unarmed]
        /\ UNCHANGED <<vars, about, pick, call, asked, waited>>
    BY <1>16 DEF Replies
  <2>2. armed' \in [Sessions -> Questions]
    BY <2>1, <1>t, <1>a
  <2>3. log' \in Seq(Row) /\ Len(log') <= MaxLog
    <3>1. ASSUME NEW o \in Outcome, log' = [log EXCEPT ![armed[s].rec].outcome = o]
          PROVE  log' \in Seq(Row) /\ Len(log') <= MaxLog
      <4> DEFINE r == armed[s].rec
                 x == [log[r] EXCEPT !.outcome = o]
      <4>1. r \in Logged => x \in Row
        <5>1. r \in Logged => log[r] \in Row
          BY <1>t, <1>s
        <5>2. QED BY <5>1, RowFields
      <4>2. log' = [log EXCEPT ![r] = x]
        BY <3>1
      <4> HIDE DEF x, r
      <4>3. QED BY <1>t, <1>h, <4>1, <4>2, RowKept
    <3>2. log' = log \/ \E o \in Outcome : log' = [log EXCEPT ![armed[s].rec].outcome = o]
      BY <1>16 DEF Replies
    <3>3. QED BY <3>1, <3>2, <1>t
  <2>4. active' \in BOOLEAN
    BY <1>16, <1>t DEF Replies
  <2>5. faults' \in 0..MaxFaults
    BY <1>16, <1>f DEF Replies, Fails
  <2>6. QED BY <1>t, <1>h, <2>1, <2>2, <2>3, <2>4, <2>5 DEF JobTypeInv, JobTypeOK, Ties, vars
<1>17. ASSUME NEW s \in Sessions, Leaves(s) PROVE JobTypeInv'
  <2>1. /\ sess' \in [Sessions -> {"closed", "read", "marked", "setup", "open"}]
        /\ held' \in [Sessions -> Ids \cup {None}]
        /\ armed' \in [Sessions -> Questions]
        /\ \A t \in Sessions : sess'[t] # "closed" => held'[t] \in Ids
        /\ UNCHANGED <<queue, source, pass, said, log, about, pick, call, active, asked, waited>>
    BY <1>17, <1>t, <1>h, <1>a DEF Leaves
  <2>2. faults' \in 0..MaxFaults
    BY <1>17, <1>f DEF Leaves, Fails
  <2>3. QED BY <1>t, <1>h, <2>1, <2>2 DEF JobTypeInv, JobTypeOK, Ties
<1>18. CASE UNCHANGED allVars
  BY <1>t, <1>h, <1>18 DEF JobTypeInv, JobTypeOK, Ties, allVars, vars, jobVars
<1>19. ASSUME NEW p \in Passes, QueueFollowup(p) \/ QueueJob(p) PROVE JobTypeInv'
  BY <1>3, <1>19, <1>h DEF QueueFollowup, QueueJob
<1>20. QED
  BY <1>1, <1>2, <1>4, <1>5, <1>6, <1>7, <1>8, <1>9, <1>10, <1>11, <1>12, <1>13,
     <1>14, <1>15, <1>16, <1>17, <1>18, <1>19
  DEF JobNext, Sleep, Match, Opens

LEMMA JobTypes == JobSpec => []JobTypeInv
BY JobInitType, JobNextType, PTL DEF JobSpec

\* Whatever overlaps and fails, every variable keeps its type: the log is never
\* longer than its bound, a GET /match that goes on carries a job of the catalog,
\* and an armed reply names a recommendation or none.
THEOREM JobTypeCorrect == JobSpec => []JobTypeOK
BY JobTypes, PTL DEF JobTypeInv

-------------------------------------------------------------------------------
(* What a step does to the rows that are there.                             *)

\* Nothing is told apart but `delivered`, which is never taken back.
Steady ==
  /\ Len(log') = Len(log) /\ Logged' = Logged
  /\ \A r \in Logged : /\ log'[r].job = log[r].job /\ log'[r].outcome = log[r].outcome
                       /\ log[r].delivered => log'[r].delivered

\* One row may be closed, or closed again.
Books(r) ==
  /\ Len(log') = Len(log) /\ Logged' = Logged
  /\ \A q \in Logged :
       /\ log'[q].job = log[q].job /\ log'[q].delivered = log[q].delivered
       /\ log'[q].sent = log[q].sent
       /\ log'[q].outcome = log[q].outcome \/ (q = r /\ log'[q].outcome \in Outcome)

\* Of the steps that touch the log, three change a row's flags only.
LEMMA SentIsSteady ==
  ASSUME JobTypeInv, NEW p \in Passes, MarkSent(p)
  PROVE  Steady /\ \A r \in Logged : /\ log'[r].delivered = log[r].delivered
                                     /\ log'[r].sent => log[r].sent \/ r = pick[p]
<1>1. log \in Seq(Row) /\ Len(log) <= MaxLog /\ Logged = 1..Len(log)
  BY DEF JobTypeInv, JobTypeOK, Logged
<1>2. CASE log' = [log EXCEPT ![pick[p]].sent = TRUE]
  <2> DEFINE r == pick[p]
             x == [log[r] EXCEPT !.sent = TRUE]
  <2>1. r \in Logged => log[r] \in Row
    BY <1>1
  <2>2. r \in Logged => /\ x \in Row /\ x.job = log[r].job /\ x.outcome = log[r].outcome
                        /\ x.delivered = log[r].delivered
    BY <2>1, RowFields DEF Row
  <2>3. log' = [log EXCEPT ![r] = x]
    BY <1>2
  <2> HIDE DEF x, r
  <2>4. /\ Len(log') = Len(log) /\ Logged' = Logged
        /\ \A i \in Logged : log'[i] = IF i = r THEN x ELSE log[i]
    <3>1. r \in Logged => x \in Row
      BY <2>2
    <3>2. QED BY <1>1, <2>3, <3>1, RowKept
  <2>5. QED BY <2>2, <2>4 DEF Steady, r
<1>3. QED BY <1>2 DEF MarkSent, Steady, Logged

LEMMA TimeIsSteady ==
  ASSUME JobTypeInv, NEW r \in Logged, TimePasses(r)
  PROVE  Steady /\ \A q \in Logged : /\ log'[q].delivered = log[q].delivered
                                     /\ log'[q].sent = log[q].sent
<1>1. log \in Seq(Row) /\ Len(log) <= MaxLog /\ Logged = 1..Len(log)
  BY DEF JobTypeInv, JobTypeOK, Logged
<1>2. ASSUME NEW a \in {"due", "cold"}, log' = [log EXCEPT ![r].age = a]
      PROVE  Steady /\ \A q \in Logged : /\ log'[q].delivered = log[q].delivered
                                         /\ log'[q].sent = log[q].sent
  <2> DEFINE x == [log[r] EXCEPT !.age = a]
  <2>1. log[r] \in Row
    BY <1>1
  <2>2. /\ x \in Row /\ x.job = log[r].job /\ x.outcome = log[r].outcome
        /\ x.delivered = log[r].delivered /\ x.sent = log[r].sent
    BY <2>1, RowFields DEF Row
  <2>3. log' = [log EXCEPT ![r] = x]
    BY <1>2
  <2> HIDE DEF x
  <2>4. /\ Len(log') = Len(log) /\ Logged' = Logged
        /\ \A i \in Logged : log'[i] = IF i = r THEN x ELSE log[i]
    <3>1. r \in Logged => x \in Row
      BY <2>2
    <3>2. QED BY <1>1, <2>3, <3>1, RowKept
  <2>5. QED BY <2>2, <2>4 DEF Steady
<1>3. QED BY <1>2 DEF TimePasses, Steady, Logged

LEMMA SetupIsSteady ==
  ASSUME JobTypeInv, NEW s \in Sessions, Setup(s)
  PROVE  /\ Steady
         /\ \A r \in Logged :
              /\ log'[r].sent = log[r].sent
              /\ log'[r].delivered => \/ log[r].delivered
                                      \/ about[held[s]][1] = "job" /\ IsOpen(r)
<1>1. log \in Seq(Row) /\ Len(log) <= MaxLog /\ Logged = 1..Len(log)
  BY DEF JobTypeInv, JobTypeOK, Logged
<1>2. CASE /\ about[held[s]][1] = "job" /\ OpenUndelivered # NoRec
           /\ log' = [log EXCEPT ![OpenUndelivered].delivered = TRUE]
  <2> DEFINE r == OpenUndelivered
             x == [log[r] EXCEPT !.delivered = TRUE]
  <2>1. r \in Logged /\ log[r] \in Row /\ IsOpen(r)
    BY <1>1, <1>2, Selections
  <2>2. x \in Row /\ x.job = log[r].job /\ x.outcome = log[r].outcome /\ x.sent = log[r].sent
        /\ x.delivered
    BY <2>1, RowFields DEF Row
  <2>3. log' = [log EXCEPT ![r] = x]
    BY <1>2
  <2> HIDE DEF x, r
  <2>4. /\ Len(log') = Len(log) /\ Logged' = Logged
        /\ \A i \in Logged : log'[i] = IF i = r THEN x ELSE log[i]
    <3>1. r \in Logged => x \in Row
      BY <2>2
    <3>2. QED BY <1>1, <2>3, <3>1, RowKept
  <2>5. QED BY <1>2, <2>1, <2>2, <2>4 DEF Steady
<1>3. CASE UNCHANGED log
  BY <1>3 DEF Steady, Logged
<1>4. QED BY <1>2, <1>3 DEF Setup, SetupJob, SetupFollowup

\* A reply books an outcome on the row it is armed with, or nothing.
LEMMA ReplyBooks ==
  ASSUME JobTypeInv, NEW s \in Sessions, Replies(s)
  PROVE  /\ Books(armed[s].rec)
         /\ log' = log \/ (armed[s].kind = "followup" /\ armed[s].rec # NoRec)
<1>1. log \in Seq(Row) /\ Len(log) <= MaxLog /\ Logged = 1..Len(log)
  BY DEF JobTypeInv, JobTypeOK, Logged
<1>2. ASSUME NEW o \in Outcome, log' = [log EXCEPT ![armed[s].rec].outcome = o]
      PROVE  Books(armed[s].rec)
  <2> DEFINE r == armed[s].rec
             x == [log[r] EXCEPT !.outcome = o]
  <2>1. r \in Logged => log[r] \in Row
    BY <1>1
  <2>2. r \in Logged => /\ x \in Row /\ x.job = log[r].job /\ x.delivered = log[r].delivered
                        /\ x.sent = log[r].sent /\ x.outcome = o
    BY <2>1, RowFields DEF Row
  <2>3. log' = [log EXCEPT ![r] = x]
    BY <1>2
  <2> HIDE DEF x, r
  <2>4. /\ Len(log') = Len(log) /\ Logged' = Logged
        /\ \A i \in Logged : log'[i] = IF i = r THEN x ELSE log[i]
    <3>1. r \in Logged => x \in Row
      BY <2>2
    <3>2. QED BY <1>1, <2>3, <3>1, RowKept
  <2>5. QED BY <2>2, <2>4 DEF Books, r
<1>3. CASE UNCHANGED log
  BY <1>3 DEF Books, Logged
<1>4. \/ UNCHANGED log
      \/ /\ \E o \in Outcome : log' = [log EXCEPT ![armed[s].rec].outcome = o]
         /\ armed[s].kind = "followup" /\ armed[s].rec # NoRec
  BY DEF Replies
<1>5. QED BY <1>2, <1>3, <1>4

\* Every other step of the brain and of its sessions leaves the log alone.
LEMMA OthersAreSteady ==
  ASSUME UNCHANGED log
  PROVE  Steady
BY DEF Steady, Logged

-------------------------------------------------------------------------------
(* One thread at a time.  The nightly pass is one process and works through *)
(* its users in turn: passes over one user do not overlap.                  *)

Busy(p) == pass[p] # "idle" \/ call[p] # Idle

OnePass == Overlap = FALSE \/ \A p, q \in Passes : p = q

\* Only the newest recommendation can be open; and a GET /match that went past
\* its check still finds every thread closed, and its pick new to the user: the
\* service only looks once, and it is the pass that waits for it which keeps
\* everybody else from logging a recommendation meanwhile.
ThreadInv ==
  /\ \A p, q \in Passes : Busy(p) /\ Busy(q) => p = q
  /\ \A r \in Logged : IsOpen(r) => r = Len(log)
  /\ \A q, r \in Logged : q < r => log[q].job # log[r].job
  /\ \A p \in Passes : call[p].at \in {"read", "picked"} => \A r \in Logged : ~IsOpen(r)
  /\ \A p \in Passes : call[p].at = "picked" => call[p].data \notin Recommended

\* A step of a pass that is busy, or the only one, leaves at most one busy.
LEMMA StillOnePass ==
  ASSUME JobTypeInv, NEW p \in Passes, \A q, r \in Passes : Busy(q) /\ Busy(r) => q = r,
         \/ Busy(p) \/ (\A q \in Passes : ~Busy(q)) \/ \A q, r \in Passes : q = r,
         \A q \in Passes : q # p => pass'[q] = pass[q] /\ call'[q] = call[q]
  PROVE  \A q, r \in Passes : Busy(q)' /\ Busy(r)' => q = r
BY DEF Busy

\* A step that closes threads at most, logs none, and lets no call go on.
LEMMA NothingOpens ==
  ASSUME ThreadInv,
         Len(log') = Len(log), Logged' = Logged,
         \A r \in Logged : /\ log'[r].job = log[r].job
                           /\ log'[r].outcome = None => log[r].outcome = None,
         \A p \in Passes : call'[p] = call[p] \/ call'[p].at \in {"idle", "asked"}
  PROVE  /\ \A r \in Logged' : IsOpen(r)' => r = Len(log')
         /\ \A q, r \in Logged' : q < r => log'[q].job # log'[r].job
         /\ \A p \in Passes : call'[p].at \in {"read", "picked"} =>
              \A r \in Logged' : ~IsOpen(r)'
         /\ \A p \in Passes : call'[p].at = "picked" => call'[p].data \notin Recommended'
         /\ Recommended' = Recommended
<1>1. \A r \in Logged : IsOpen(r)' => IsOpen(r)
  BY DEF IsOpen
<1>2. Recommended' = Recommended
  BY DEF Recommended
<1>3. QED BY <1>1, <1>2 DEF ThreadInv

LEMMA ThreadNext == OnePass /\ JobTypeInv /\ ThreadInv /\ [JobNext]_allVars => ThreadInv'
<1> SUFFICES ASSUME OnePass, JobTypeInv, ThreadInv, [JobNext]_allVars PROVE ThreadInv'
  OBVIOUS
<1>t. /\ log \in Seq(Row) /\ Len(log) <= MaxLog /\ Logged = 1..Len(log) /\ Len(log) \in Nat
      /\ pass \in [Passes -> Stages] /\ call \in [Passes -> Call]
  BY DEF JobTypeInv, JobTypeOK, Logged
<1>o. \A q, r \in Passes : Busy(q) /\ Busy(r) => q = r
  BY DEF ThreadInv
<1>i. Idle.at = "idle"
  BY DEF Idle
<1>d. UNCHANGED log => /\ Len(log') = Len(log) /\ Logged' = Logged
                       /\ \A r \in Logged :
                            /\ log'[r].job = log[r].job
                            /\ log'[r].outcome = None => log[r].outcome = None
  BY DEF Logged
<1>1. ASSUME UNCHANGED log, NEW p \in Passes,
             Busy(p) \/ (\A q \in Passes : ~Busy(q)) \/ (\A q, r \in Passes : q = r),
             \A q \in Passes : q # p => pass'[q] = pass[q] /\ call'[q] = call[q],
             call'[p] = call[p] \/ call'[p].at \in {"idle", "asked"}
      PROVE  ThreadInv'
  <2>1. \A q, r \in Passes : Busy(q)' /\ Busy(r)' => q = r
    BY <1>1, <1>o, StillOnePass
  <2>2. \A q \in Passes : call'[q] = call[q] \/ call'[q].at \in {"idle", "asked"}
    BY <1>1
  <2>3. QED BY <1>1, <1>d, <2>1, <2>2, NothingOpens DEF ThreadInv
<1>2. ASSUME NEW p \in Passes, StartFollowups(p) PROVE ThreadInv'
  <2>1. (\A q \in Passes : ~Busy(q)) \/ (\A q, r \in Passes : q = r)
    BY <1>2 DEF StartFollowups, MayBegin, OnePass, Busy
  <2>2. /\ UNCHANGED log /\ call' = call
        /\ \A q \in Passes : q # p => pass'[q] = pass[q]
    BY <1>2, <1>t DEF StartFollowups, jobVars
  <2>3. QED BY <1>1, <2>1, <2>2
<1>3. ASSUME NEW p \in Passes, AsksDue(p) \/ QueueFollowup(p) \/ QueueJob(p) \/ GivesUp(p)
      PROVE  ThreadInv'
  <2>1. Busy(p) /\ UNCHANGED log /\ call' = call
    BY <1>3 DEF AsksDue, QueueFollowup, QueueJob, QueueAbout, GivesUp, Busy
  <2>2. \A q \in Passes : q # p => pass'[q] = pass[q]
    BY <1>3, <1>t DEF AsksDue, QueueFollowup, QueueJob, QueueAbout, GivesUp
  <2>3. QED BY <1>1, <2>1, <2>2
<1>4. ASSUME NEW p \in Passes, MarkSent(p) PROVE ThreadInv'
  <2>1. Busy(p) /\ call' = call /\ \A q \in Passes : q # p => pass'[q] = pass[q]
    BY <1>4, <1>t DEF MarkSent, Busy
  <2>2. \A q, r \in Passes : Busy(q)' /\ Busy(r)' => q = r
    BY <2>1, <1>o, StillOnePass
  <2>3. /\ Len(log') = Len(log) /\ Logged' = Logged
        /\ \A r \in Logged : log'[r].job = log[r].job /\ log'[r].outcome = log[r].outcome
    BY <1>4, SentIsSteady DEF Steady
  <2>4. QED BY <2>1, <2>2, <2>3, NothingOpens DEF ThreadInv
<1>5. ASSUME NEW p \in Passes, StartMatch(p) PROVE ThreadInv'
  <2>1. /\ Busy(p) /\ UNCHANGED log
        /\ \A q \in Passes : q # p => pass'[q] = pass[q] /\ call'[q] = call[q]
        /\ call'[p] = call[p] \/ call'[p].at \in {"idle", "asked"}
    BY <1>5, <1>t DEF StartMatch, Busy
  <2>2. QED BY <1>1, <2>1
<1>6. ASSUME NEW p \in Passes, MatchReads(p) PROVE ThreadInv'
  <2>1. Busy(p) /\ UNCHANGED log
    BY <1>6, <1>i DEF MatchReads, Busy
  <2>2. CASE Blocked
    <3>1. /\ call' = [call EXCEPT ![p] = Idle]
          /\ pass' = [pass EXCEPT ![p] = IF @ = "matching" THEN "idle" ELSE @]
      BY <1>6, <2>2 DEF MatchReads
    <3>2. /\ \A q \in Passes : q # p => pass'[q] = pass[q] /\ call'[q] = call[q]
          /\ call'[p].at \in {"idle", "asked"}
      BY <3>1, <1>t, <1>i
    <3>3. QED BY <1>1, <2>1, <3>2
  <2>3. CASE ~Blocked
    <3>1. /\ call' = [call EXCEPT ![p] = [at |-> "read", data |-> Disliked]] /\ pass' = pass
      BY <1>6, <2>3 DEF MatchReads
    <3>2. \A r \in Logged : ~IsOpen(r)
      BY <2>3 DEF Blocked
    <3> HIDE DEF Disliked
    <3>3. /\ \A q \in Passes : q # p => pass'[q] = pass[q] /\ call'[q] = call[q]
          /\ call'[p].at = "read"
      BY <3>1, <1>t
    <3>4. \A q, r \in Passes : Busy(q)' /\ Busy(r)' => q = r
      BY <2>1, <3>3, <1>o, StillOnePass
    <3>5. Logged' = Logged /\ Recommended' = Recommended /\ \A r \in Logged : ~IsOpen(r)'
      BY <2>1, <3>2 DEF Logged, Recommended, IsOpen
    <3>6. \A q \in Passes : call'[q].at = "picked" => call'[q].data \notin Recommended'
      BY <3>3, <3>5 DEF ThreadInv
    <3>7. QED BY <2>1, <3>4, <3>5, <3>6 DEF ThreadInv
  <2>4. QED BY <2>2, <2>3
<1>7. ASSUME NEW p \in Passes, MatchPicks(p) PROVE ThreadInv'
  <2>1. /\ Busy(p) /\ UNCHANGED log /\ call[p].at = "read"
    BY <1>7, <1>i DEF MatchPicks, Busy
  <2>2. PICK fits \in SUBSET (Jobs \ Fallback) :
          \/ /\ call' = [call EXCEPT ![p] = Idle]
             /\ pass' = [pass EXCEPT ![p] = IF @ = "matching" THEN "idle" ELSE @]
          \/ /\ \E j \in Choice(fits, call[p].data) :
                   call' = [call EXCEPT ![p] = [at |-> "picked", data |-> j]]
             /\ UNCHANGED pass
    BY <1>7 DEF MatchPicks
  <2>3. CASE /\ call' = [call EXCEPT ![p] = Idle]
             /\ pass' = [pass EXCEPT ![p] = IF @ = "matching" THEN "idle" ELSE @]
    <3>1. /\ \A q \in Passes : q # p => pass'[q] = pass[q] /\ call'[q] = call[q]
          /\ call'[p].at \in {"idle", "asked"}
      BY <2>3, <1>t, <1>i
    <3>2. QED BY <1>1, <2>1, <3>1
  <2>4. CASE /\ \E j \in Choice(fits, call[p].data) :
                   call' = [call EXCEPT ![p] = [at |-> "picked", data |-> j]]
             /\ UNCHANGED pass
    <3>1. PICK j \in Choice(fits, call[p].data) :
                   call' = [call EXCEPT ![p] = [at |-> "picked", data |-> j]]
      BY <2>4
    <3>2. j \notin Recommended
      BY <3>1 DEF Choice
    <3>3. /\ \A q \in Passes : q # p => pass'[q] = pass[q] /\ call'[q] = call[q]
          /\ call'[p].at = "picked" /\ call'[p].data = j
      BY <2>4, <3>1, <1>t
    <3>4. \A q, r \in Passes : Busy(q)' /\ Busy(r)' => q = r
      BY <2>1, <3>3, <1>o, StillOnePass
    <3>5. \A r \in Logged : ~IsOpen(r)
      BY <2>1 DEF ThreadInv
    <3>6. Logged' = Logged /\ Recommended' = Recommended /\ \A r \in Logged : ~IsOpen(r)'
      BY <2>1, <3>5 DEF Logged, Recommended, IsOpen
    <3>7. \A q \in Passes : call'[q].at = "picked" => call'[q].data \notin Recommended'
      BY <3>2, <3>3, <3>6 DEF ThreadInv
    <3>8. QED BY <2>1, <3>4, <3>6, <3>7 DEF ThreadInv
  <2>5. QED BY <2>2, <2>3, <2>4
<1>8. ASSUME NEW p \in Passes, MatchLogs(p) PROVE ThreadInv'
  <2>1. /\ call[p].at = "picked" /\ Len(log) < MaxLog
        /\ log' = Append(log, NewRec(call[p].data)) /\ call' = [call EXCEPT ![p] = Idle]
    BY <1>8 DEF MatchLogs
  <2>2. \A q \in Passes : q # p => pass'[q] = pass[q] /\ call'[q] = call[q]
    BY <1>8, <2>1, <1>t DEF MatchLogs
  <2>3. Busy(p)
    BY <2>1, <1>i DEF Busy
  <2>4. NewRec(call[p].data) \in Row
    <3>1. call[p] \in Call
      BY <1>t
    <3>2. call[p].data \in Jobs
      BY <2>1, <3>1 DEF Call
    <3>3. QED BY <3>2 DEF NewRec, Row
  <2>5. /\ Len(log') = Len(log) + 1 /\ Logged' = Logged \cup {Len(log) + 1}
        /\ log'[Len(log) + 1] = NewRec(call[p].data) /\ \A i \in Logged : log'[i] = log[i]
    BY <2>1, <2>4, <1>t, RowAdded
  <2>6. log'[Len(log) + 1].job = call[p].data /\ call[p].data \notin Recommended
    BY <2>1, <2>5 DEF ThreadInv, NewRec
  <2>7. \A r \in Logged : ~IsOpen(r)' /\ log'[r].job # call[p].data
    BY <2>1, <2>5, <2>6 DEF ThreadInv, IsOpen, Recommended
  <2>8. \A q, r \in Passes : Busy(q)' /\ Busy(r)' => q = r
    BY <2>2, <2>3, <1>o, StillOnePass
  <2>9. \A q \in Passes : call'[q].at \notin {"read", "picked"}
    <3>1. call'[p] = Idle
      BY <2>1, <1>t
    <3>2. \A q \in Passes : q # p => call[q] = Idle
      BY <2>3, <1>o DEF Busy
    <3>3. QED BY <2>2, <3>1, <3>2, <1>i
  <2>10. \A r \in Logged' : IsOpen(r)' => r = Len(log')
    BY <2>5, <2>7
  <2>11. \A q, r \in Logged' : q < r => log'[q].job # log'[r].job
    BY <2>5, <2>6, <2>7, <1>t DEF ThreadInv
  <2>12. QED BY <2>8, <2>9, <2>10, <2>11 DEF ThreadInv
<1>9. ASSUME UNCHANGED <<pass, call>>,
             /\ Len(log') = Len(log) /\ Logged' = Logged
             /\ \A r \in Logged : /\ log'[r].job = log[r].job
                                  /\ log'[r].outcome = None => log[r].outcome = None
      PROVE  ThreadInv'
  <2>1. \A q, r \in Passes : Busy(q)' /\ Busy(r)' => q = r
    BY <1>9, <1>o DEF Busy
  <2>2. QED BY <1>9, <2>1, NothingOpens DEF ThreadInv
<1>10. ASSUME NEW r \in Logged, TimePasses(r) PROVE ThreadInv'
  <2>1. UNCHANGED <<pass, call>>
    BY <1>10 DEF TimePasses, vars
  <2>2. QED BY <1>9, <1>10, <2>1, TimeIsSteady DEF Steady
<1>11. ASSUME NEW s \in Sessions, Setup(s) PROVE ThreadInv'
  <2>1. UNCHANGED <<pass, call>>
    BY <1>11 DEF Setup
  <2>2. QED BY <1>9, <1>11, <2>1, SetupIsSteady DEF Steady
<1>12. ASSUME NEW s \in Sessions, Replies(s) PROVE ThreadInv'
  <2>1. UNCHANGED <<pass, call>>
    BY <1>12 DEF Replies, vars
  <2>2. Books(armed[s].rec)
    BY <1>12, ReplyBooks
  <2>3. None \notin Outcome
    BY JobAssumption
  <2>4. QED BY <1>9, <2>1, <2>2, <2>3 DEF Books
<1>13. ASSUME UNCHANGED <<pass, call, log>> PROVE ThreadInv'
  BY <1>9, <1>13, <1>d
<1>14. CASE OthersQueue
  BY <1>13, <1>14 DEF OthersQueue
<1>15. ASSUME NEW s \in Sessions, Reads(s) \/ Marks(s) \/ Says(s) \/ Leaves(s) PROVE ThreadInv'
  BY <1>13, <1>15 DEF Reads, ReadPending, Marks, MarkDelivered, Says, Leaves, jobVars
<1>16. CASE UNCHANGED allVars
  BY <1>13, <1>16 DEF allVars, vars, jobVars
<1>17. QED
  BY <1>2, <1>3, <1>4, <1>5, <1>6, <1>7, <1>8, <1>10, <1>11, <1>12, <1>14, <1>15, <1>16
  DEF JobNext, Sleep, Match, Opens

LEMMA ThreadInit == JobInit => ThreadInv
<1> SUFFICES ASSUME JobInit PROVE ThreadInv
  OBVIOUS
<1>1. Logged = {}
  BY DEF JobInit, Logged
<1>2. \A p \in Passes : call[p].at = "idle" /\ ~Busy(p)
  BY DEF JobInit, Init, Idle, Busy
<1>3. QED BY <1>1, <1>2 DEF ThreadInv

LEMMA ThreadHolds == ASSUME OnePass PROVE JobSpec => []ThreadInv
<1>1. JobInit => ThreadInv
  BY ThreadInit
<1>2. JobTypeInv /\ ThreadInv /\ [JobNext]_allVars => ThreadInv'
  BY ThreadNext
<1>3. QED BY <1>1, <1>2, JobTypes, PTL DEF JobSpec

\* "Lifecycle is one OPEN thread per user", whatever fails and whoever's
\* sessions overlap, as long as the passes over the user do not: the service
\* has no lock of its own, and two passes that overlap can both find the way
\* clear and log a recommendation each.
THEOREM OneOpenThreadHolds == ASSUME OnePass PROVE JobSpec => []OneOpenThread
<1>1. ThreadInv => OneOpenThread
  BY DEF ThreadInv, OneOpenThread
<1>2. QED BY <1>1, ThreadHolds, PTL

-------------------------------------------------------------------------------
(* The user's answers.  The user is one client: their sessions follow one   *)
(* another.                                                                 *)

OneClient == \A s, t \in Sessions : s = t

\* What a GET /match read of the disliked partners stays true until it logs its
\* pick, because the thread a reply can still close is open.
PartnerInv ==
  /\ \A q, r \in Logged : q < r /\ log[q].outcome = "disliked" =>
       Partner[log[q].job] # Partner[log[r].job]
  /\ \A p \in Passes : /\ call[p].at = "read" => call[p].data = Disliked
                       /\ call[p].at = "picked" => Partner[call[p].data] \notin Disliked
  /\ \A s \in Sessions : armed[s] # Unarmed => sess[s] = "open"
  /\ \A s \in Sessions : armed[s].kind = "followup" /\ armed[s].rec # NoRec =>
       armed[s].rec \in Logged /\ log[armed[s].rec].outcome = None

\* A step that changes no outcome and lets no call go on.
LEMMA PartnersKept ==
  ASSUME PartnerInv, Logged' = Logged,
         \A r \in Logged : log'[r].job = log[r].job /\ log'[r].outcome = log[r].outcome,
         \A p \in Passes : call'[p] = call[p] \/ call'[p].at \in {"idle", "asked"}
  PROVE  /\ \A q, r \in Logged' : q < r /\ log'[q].outcome = "disliked" =>
              Partner[log'[q].job] # Partner[log'[r].job]
         /\ \A p \in Passes : /\ call'[p].at = "read" => call'[p].data = Disliked'
                              /\ call'[p].at = "picked" => Partner[call'[p].data] \notin Disliked'
         /\ Disliked' = Disliked
         /\ \A r \in Logged : IsOpen(r)' = IsOpen(r)
<1>1. Disliked' = Disliked
  BY DEF Disliked
<1>2. \A r \in Logged : IsOpen(r)' = IsOpen(r)
  BY DEF IsOpen
<1>3. QED BY <1>1, <1>2 DEF PartnerInv

LEMMA PartnerNext ==
  OneClient /\ OnePass /\ JobTypeInv /\ ThreadInv /\ PartnerInv /\ [JobNext]_allVars
    => PartnerInv'
<1> SUFFICES ASSUME OneClient, OnePass, JobTypeInv, ThreadInv, PartnerInv, [JobNext]_allVars
             PROVE  PartnerInv'
  OBVIOUS
<1>t. /\ log \in Seq(Row) /\ Len(log) <= MaxLog /\ Logged = 1..Len(log) /\ Len(log) \in Nat
      /\ pass \in [Passes -> Stages] /\ call \in [Passes -> Call]
      /\ armed \in [Sessions -> Questions]
      /\ sess \in [Sessions -> {"closed", "read", "marked", "setup", "open"}]
  BY DEF JobTypeInv, JobTypeOK, Logged
<1>i. Idle.at = "idle" /\ Unarmed.kind = "none"
  BY DEF Idle, Unarmed
<1>a. /\ \A s \in Sessions : armed[s] # Unarmed => sess[s] = "open"
      /\ \A s \in Sessions : armed[s].kind = "followup" /\ armed[s].rec # NoRec =>
           armed[s].rec \in Logged /\ log[armed[s].rec].outcome = None
  BY DEF PartnerInv
<1>1. ASSUME \/ UNCHANGED log
             \/ Steady,
             \A p \in Passes : call'[p] = call[p] \/ call'[p].at \in {"idle", "asked"},
             \A s \in Sessions : \/ armed'[s] = Unarmed
                                 \/ armed'[s] = armed[s] /\ (sess[s] = "open" => sess'[s] = "open")
      PROVE  PartnerInv'
  <2>1. /\ Logged' = Logged
        /\ \A r \in Logged : log'[r].job = log[r].job /\ log'[r].outcome = log[r].outcome
    BY <1>1, OthersAreSteady DEF Steady
  <2>2. /\ \A q, r \in Logged' : q < r /\ log'[q].outcome = "disliked" =>
              Partner[log'[q].job] # Partner[log'[r].job]
        /\ \A p \in Passes : /\ call'[p].at = "read" => call'[p].data = Disliked'
                             /\ call'[p].at = "picked" => Partner[call'[p].data] \notin Disliked'
        /\ \A r \in Logged : IsOpen(r)' = IsOpen(r)
    BY <1>1, <2>1, PartnersKept
  <2>3. \A s \in Sessions : armed'[s] # Unarmed => sess'[s] = "open"
    BY <1>1, <1>a
  <2>4. ASSUME NEW s \in Sessions, armed'[s].kind = "followup", armed'[s].rec # NoRec
        PROVE  armed'[s].rec \in Logged' /\ log'[armed'[s].rec].outcome = None
    <3>1. armed'[s] = armed[s]
      BY <1>1, <1>i, <2>4
    <3>2. PICK r \in Logged : armed[s].rec = r /\ IsOpen(r)
      BY <1>a, <2>4, <3>1 DEF IsOpen
    <3>3. IsOpen(r)'
      BY <2>2, <3>2
    <3>4. QED BY <2>1, <3>1, <3>2, <3>3 DEF IsOpen
  <2>5. QED BY <2>2, <2>3, <2>4 DEF PartnerInv
<1>2. ASSUME NEW p \in Passes, \/ StartFollowups(p) \/ AsksDue(p) \/ QueueFollowup(p)
                               \/ QueueJob(p) \/ GivesUp(p)
      PROVE  PartnerInv'
  <2>1. UNCHANGED <<log, call, armed, sess>>
    BY <1>2 DEF StartFollowups, AsksDue, QueueFollowup, QueueJob, QueueAbout, GivesUp, jobVars
  <2>2. QED BY <1>1, <2>1
<1>3. ASSUME NEW p \in Passes, MarkSent(p) PROVE PartnerInv'
  <2>1. UNCHANGED <<call, armed, sess>> /\ Steady
    BY <1>3, SentIsSteady DEF MarkSent
  <2>2. QED BY <1>1, <2>1
<1>4. ASSUME NEW p \in Passes, StartMatch(p) PROVE PartnerInv'
  <2>1. UNCHANGED <<log, armed, sess>>
    BY <1>4 DEF StartMatch
  <2>2. \A q \in Passes : call'[q] = call[q] \/ call'[q].at \in {"idle", "asked"}
    BY <1>4, <1>t DEF StartMatch
  <2>3. QED BY <1>1, <2>1, <2>2
<1>5. ASSUME NEW p \in Passes, MatchReads(p) PROVE PartnerInv'
  <2>1. UNCHANGED <<log, armed, sess>>
    BY <1>5 DEF MatchReads
  <2>2. CASE call' = [call EXCEPT ![p] = Idle]
    <3>1. \A q \in Passes : call'[q] = call[q] \/ call'[q].at \in {"idle", "asked"}
      BY <2>2, <1>t, <1>i
    <3>2. QED BY <1>1, <2>1, <3>1
  <2>3. CASE call' = [call EXCEPT ![p] = [at |-> "read", data |-> Disliked]]
    <3>1. /\ Logged' = Logged /\ Disliked' = Disliked
      BY <2>1 DEF Logged, Disliked
    <3> HIDE DEF Disliked
    <3>2. /\ \A q \in Passes : q # p => call'[q] = call[q]
          /\ call'[p].at = "read" /\ call'[p].data = Disliked
      BY <2>3, <1>t
    <3>3. QED BY <2>1, <3>1, <3>2 DEF PartnerInv
  <2>4. QED BY <1>5, <2>2, <2>3 DEF MatchReads
<1>6. ASSUME NEW p \in Passes, MatchPicks(p) PROVE PartnerInv'
  <2>1. UNCHANGED <<log, armed, sess>> /\ call[p].at = "read"
    BY <1>6 DEF MatchPicks
  <2>2. PICK fits \in SUBSET (Jobs \ Fallback) :
          \/ call' = [call EXCEPT ![p] = Idle]
          \/ \E j \in Choice(fits, call[p].data) :
                call' = [call EXCEPT ![p] = [at |-> "picked", data |-> j]]
    BY <1>6 DEF MatchPicks
  <2>3. CASE call' = [call EXCEPT ![p] = Idle]
    <3>1. \A q \in Passes : call'[q] = call[q] \/ call'[q].at \in {"idle", "asked"}
      BY <2>3, <1>t, <1>i
    <3>2. QED BY <1>1, <2>1, <3>1
  <2>4. CASE \E j \in Choice(fits, call[p].data) :
                call' = [call EXCEPT ![p] = [at |-> "picked", data |-> j]]
    <3>1. PICK j \in Choice(fits, call[p].data) :
                call' = [call EXCEPT ![p] = [at |-> "picked", data |-> j]]
      BY <2>4
    <3>2. Partner[j] \notin Disliked
      <4>1. Partner[j] \notin call[p].data
        BY <3>1 DEF Choice
      <4>2. QED BY <4>1, <2>1 DEF PartnerInv
    <3>3. /\ Logged' = Logged /\ Disliked' = Disliked
      BY <2>1 DEF Logged, Disliked
    <3> HIDE DEF Disliked
    <3>4. /\ \A q \in Passes : q # p => call'[q] = call[q]
          /\ call'[p].at = "picked" /\ call'[p].data = j
      BY <3>1, <1>t
    <3>5. QED BY <2>1, <3>2, <3>3, <3>4 DEF PartnerInv
  <2>5. QED BY <2>2, <2>3, <2>4
<1>7. ASSUME NEW p \in Passes, MatchLogs(p) PROVE PartnerInv'
  <2>1. /\ call[p].at = "picked" /\ Len(log) < MaxLog
        /\ log' = Append(log, NewRec(call[p].data)) /\ call' = [call EXCEPT ![p] = Idle]
        /\ UNCHANGED <<armed, sess>>
    BY <1>7 DEF MatchLogs
  <2>2. NewRec(call[p].data) \in Row
    <3>1. call[p] \in Call
      BY <1>t
    <3>2. call[p].data \in Jobs
      BY <2>1, <3>1 DEF Call
    <3>3. QED BY <3>2 DEF NewRec, Row
  <2>3. /\ Len(log') = Len(log) + 1 /\ Logged' = Logged \cup {Len(log) + 1}
        /\ log'[Len(log) + 1] = NewRec(call[p].data) /\ \A i \in Logged : log'[i] = log[i]
    BY <2>1, <2>2, <1>t, RowAdded
  <2>4. /\ log'[Len(log) + 1].job = call[p].data /\ log'[Len(log) + 1].outcome # "disliked"
        /\ Partner[call[p].data] \notin Disliked
    BY <2>1, <2>3, JobAssumption DEF PartnerInv, NewRec, Outcome
  <2>5. \A q \in Passes : call'[q].at \notin {"read", "picked"}
    <3>1. call'[p] = Idle /\ \A q \in Passes : q # p => call'[q] = call[q]
      BY <2>1, <1>t
    <3>2. \A q \in Passes : q # p => call[q] = Idle
      BY <2>1, <1>i DEF ThreadInv, Busy
    <3>3. QED BY <3>1, <3>2, <1>i
  <2>6. \A q, r \in Logged' : q < r /\ log'[q].outcome = "disliked" =>
          Partner[log'[q].job] # Partner[log'[r].job]
    <3>1. \A q \in Logged : log[q].outcome = "disliked" => Partner[log[q].job] \in Disliked
      BY DEF Disliked
    <3>2. QED BY <2>3, <2>4, <3>1, <1>t DEF PartnerInv
  <2>7. ASSUME NEW s \in Sessions, armed'[s].kind = "followup", armed'[s].rec # NoRec
        PROVE  armed'[s].rec \in Logged' /\ log'[armed'[s].rec].outcome = None
    BY <2>1, <2>3, <2>7, <1>a DEF IsOpen
  <2>8. \A s \in Sessions : armed'[s] # Unarmed => sess'[s] = "open"
    BY <2>1, <1>a
  <2>9. QED BY <2>5, <2>6, <2>7, <2>8 DEF PartnerInv
<1>8. ASSUME NEW r \in Logged, TimePasses(r) PROVE PartnerInv'
  <2>1. UNCHANGED <<call, armed, sess>> /\ Steady
    BY <1>8, TimeIsSteady DEF TimePasses, vars
  <2>2. QED BY <1>1, <2>1
<1>9. ASSUME NEW s \in Sessions, Reads(s) \/ Marks(s) \/ Says(s) \/ Leaves(s)
      PROVE  PartnerInv'
  <2>1. UNCHANGED <<log, call>>
    BY <1>9 DEF Reads, ReadPending, Marks, MarkDelivered, Says, Leaves, jobVars
  <2>2. \A t \in Sessions : \/ armed'[t] = Unarmed
                            \/ armed'[t] = armed[t] /\ (sess[t] = "open" => sess'[t] = "open")
    BY <1>9, <1>t DEF Reads, ReadPending, Marks, MarkDelivered, Says, Leaves, jobVars
  <2>3. QED BY <1>1, <2>1, <2>2
<1>10. ASSUME NEW s \in Sessions, Setup(s) PROVE PartnerInv'
  <2>1. UNCHANGED call /\ Steady /\ sess' = [sess EXCEPT ![s] = "open"]
    BY <1>10, SetupIsSteady DEF Setup
  <2>2. /\ Logged' = Logged
        /\ \A r \in Logged : log'[r].job = log[r].job /\ log'[r].outcome = log[r].outcome
    BY <2>1 DEF Steady
  <2>3. /\ \A q, r \in Logged' : q < r /\ log'[q].outcome = "disliked" =>
              Partner[log'[q].job] # Partner[log'[r].job]
        /\ \A p \in Passes : /\ call'[p].at = "read" => call'[p].data = Disliked'
                             /\ call'[p].at = "picked" => Partner[call'[p].data] \notin Disliked'
        /\ \A r \in Logged : IsOpen(r)' = IsOpen(r)
    BY <2>1, <2>2, PartnersKept
  <2>4. \A t \in Sessions : sess'[t] = "open"
    BY <2>1, <1>t DEF OneClient
  <2>5. ASSUME armed'[s].kind = "followup", armed'[s].rec # NoRec
        PROVE  armed'[s].rec \in Logged' /\ log'[armed'[s].rec].outcome = None
    <3>1. armed[s] = Unarmed
      BY <1>10, <1>a DEF Setup
    <3>2. armed'[s].rec = PendingFollowup
      <4>1. CASE SetupJob(s)
        BY <4>1, <1>t, <2>5 DEF SetupJob
      <4>2. CASE SetupFollowup(s)
        BY <4>2, <1>t, <2>5 DEF SetupFollowup
      <4>3. CASE UNCHANGED armed
        BY <4>3, <3>1, <2>5, <1>i
      <4>4. QED BY <1>10, <4>1, <4>2, <4>3 DEF Setup
    <3>3. PICK r \in Logged : PendingFollowup = r /\ IsOpen(r)
      BY <1>t, <2>5, <3>2, Selections
    <3>4. QED BY <2>2, <2>3, <3>2, <3>3 DEF IsOpen
  <2>6. \A t \in Sessions : t = s
    BY DEF OneClient
  <2>7. QED BY <2>3, <2>4, <2>5, <2>6 DEF PartnerInv
<1>11. ASSUME NEW s \in Sessions, Replies(s) PROVE PartnerInv'
  <2>1. /\ UNCHANGED <<call, sess>> /\ armed' = [armed EXCEPT ![s] = Unarmed]
    BY <1>11 DEF Replies, vars
  <2>2. CASE UNCHANGED log
    <3>1. \A t \in Sessions : \/ armed'[t] = Unarmed \/ armed'[t] = armed[t]
      BY <2>1, <1>t
    <3>2. QED BY <1>1, <2>1, <2>2, <3>1
  <2>3. CASE armed[s].kind = "followup" /\ armed[s].rec # NoRec
    <3>1. PICK r \in Logged : armed[s].rec = r /\ IsOpen(r)
      BY <2>3, <1>a DEF IsOpen
    <3>2. r = Len(log) /\ \A p \in Passes : call[p].at \notin {"read", "picked"}
      BY <3>1 DEF ThreadInv
    <3>3. /\ Logged' = Logged
          /\ \A q \in Logged : /\ log'[q].job = log[q].job
                               /\ q # r => log'[q].outcome = log[q].outcome
      BY <1>11, <3>1, ReplyBooks DEF Books
    <3>4. \A t \in Sessions : armed'[t] = Unarmed
      BY <2>1, <1>t DEF OneClient
    <3>5. \A q, t \in Logged' : q < t /\ log'[q].outcome = "disliked" =>
            Partner[log'[q].job] # Partner[log'[t].job]
      BY <3>2, <3>3, <1>t DEF PartnerInv
    <3>6. QED BY <2>1, <3>2, <3>4, <3>5, <1>i DEF PartnerInv
  <2>4. QED BY <1>11, <2>2, <2>3, ReplyBooks
<1>12. CASE OthersQueue
  BY <1>1, <1>12 DEF OthersQueue
<1>13. CASE UNCHANGED allVars
  BY <1>1, <1>13 DEF allVars, vars, jobVars
<1>14. QED
  BY <1>2, <1>3, <1>4, <1>5, <1>6, <1>7, <1>8, <1>9, <1>10, <1>11, <1>12, <1>13
  DEF JobNext, Sleep, Match, Opens

LEMMA PartnerInit == JobInit => PartnerInv
<1> SUFFICES ASSUME JobInit PROVE PartnerInv
  OBVIOUS
<1>1. Logged = {}
  BY DEF JobInit, Logged
<1>2. /\ \A p \in Passes : call[p].at = "idle"
      /\ \A s \in Sessions : armed[s] = Unarmed /\ armed[s].kind = "none"
  BY DEF JobInit, Idle, Unarmed
<1>3. QED BY <1>1, <1>2 DEF PartnerInv

LEMMA PartnerHolds == ASSUME OnePass, OneClient PROVE JobSpec => []PartnerInv
<1>1. JobInit => PartnerInv
  BY PartnerInit
<1>2. JobTypeInv /\ ThreadInv /\ PartnerInv /\ [JobNext]_allVars => PartnerInv'
  BY PartnerNext
<1>3. QED BY <1>1, <1>2, JobTypes, ThreadHolds, PTL DEF JobSpec

\* "Never the same job twice; never a disliked partner again": one open thread
\* at any time, about a job and a partner that are new to the user.
THEOREM OneNewThreadHolds == ASSUME OnePass, OneClient PROVE JobSpec => []OneNewThread
<1>1. ThreadInv /\ PartnerInv => OneNewThread
  BY DEF ThreadInv, PartnerInv, OneNewThread, OneOpenThread, NeverAgain
<1>2. QED BY <1>1, ThreadHolds, PartnerHolds, PTL

-------------------------------------------------------------------------------
(* An outcome is an answer to what the user was asked.                      *)

\* What is booked was shown and asked about, and the flag goes with a like.
BookedWell ==
  /\ \A r \in Logged : /\ log[r].outcome # None => log[r].delivered /\ r \in asked
                       /\ log[r].sent => log[r].delivered
  /\ active => \E r \in Logged : log[r].outcome = "liked"

\* A follow-up is queued about the newest recommendation, and no newer one is
\* looked for while it is in the queue.
QueuedLatest ==
  /\ \A p \in Passes : pass[p] \in {"due", "sending"} =>
       pick[p] = Len(log) /\ pick[p] \in Logged /\ log[pick[p]].delivered
  /\ \A p \in Passes : call[p] # Idle =>
       pass[p] \in {"idle", "matching"} /\ \A id \in Queued : about[id][1] = "other"
  /\ \A id \in Queued : about[id][1] = "followup" =>
       about[id][2] = Len(log) /\ Len(log) \in Logged

\* A session that opens with a follow-up speaks about the newest recommendation
\* that was delivered, and the reply it waits for is booked on that one.
TalksLatest ==
  /\ \A s \in Sessions : sess[s] # "closed" /\ about[held[s]][1] = "followup" =>
       /\ about[held[s]][2] \in Logged
       /\ \A r \in Logged : r > about[held[s]][2] => ~log[r].delivered
       /\ sess[s] \in {"setup", "open"} => about[held[s]][2] \in asked
  /\ \A s \in Sessions : armed[s].kind = "followup" /\ armed[s].rec # NoRec =>
       /\ about[held[s]][1] = "followup" /\ armed[s].rec = about[held[s]][2]
       /\ log[armed[s].rec].delivered

AnswerInv == BookedWell /\ QueuedLatest /\ TalksLatest

\* A step that neither logs, delivers nor books.
SameRows ==
  /\ Len(log') = Len(log) /\ Logged' = Logged
  /\ \A r \in Logged : /\ log'[r].outcome = log[r].outcome
                       /\ log'[r].delivered = log[r].delivered

LEMMA BookedKept ==
  ASSUME BookedWell, SameRows, UNCHANGED active, asked \subseteq asked',
         \A r \in Logged : log'[r].sent => log[r].sent \/ log[r].delivered
  PROVE  BookedWell'
BY DEF BookedWell, SameRows

LEMMA QueuedKept ==
  ASSUME QueuedLatest, SameRows, UNCHANGED <<about, pick>>, Queued' \subseteq Queued,
         \A p \in Passes : pass'[p] \in {"due", "sending"} => pass[p] \in {"due", "sending"},
         \A p \in Passes : call'[p] # Idle =>
            /\ call[p] # Idle \/ Queued' = {}
            /\ pass'[p] \in {"idle", "matching"}
  PROVE  QueuedLatest'
<1>1. \A p \in Passes : pass'[p] \in {"due", "sending"} =>
        pick'[p] = Len(log') /\ pick'[p] \in Logged' /\ log'[pick'[p]].delivered
  BY DEF QueuedLatest, SameRows
<1>2. \A p \in Passes : call'[p] # Idle =>
        pass'[p] \in {"idle", "matching"} /\ \A id \in Queued' : about'[id][1] = "other"
  BY DEF QueuedLatest
<1>3. \A id \in Queued' : about'[id][1] = "followup" =>
        about'[id][2] = Len(log') /\ Len(log') \in Logged'
  BY DEF QueuedLatest, SameRows
<1>4. QED BY <1>1, <1>2, <1>3 DEF QueuedLatest

LEMMA TalksKept ==
  ASSUME TalksLatest, SameRows, PartnerInv, UNCHANGED asked,
         \A s \in Sessions : \/ /\ UNCHANGED <<sess[s], held[s], armed[s]>>
                                /\ sess[s] # "closed" => about'[held[s]] = about[held[s]]
                             \/ sess'[s] = "closed" /\ armed'[s] = Unarmed
  PROVE  TalksLatest'
<1>1. Unarmed.kind = "none"
  BY DEF Unarmed
<1>2. \A s \in Sessions : sess'[s] # "closed" /\ about'[held'[s]][1] = "followup" =>
       /\ about'[held'[s]][2] \in Logged'
       /\ \A r \in Logged' : r > about'[held'[s]][2] => ~log'[r].delivered
       /\ sess'[s] \in {"setup", "open"} => about'[held'[s]][2] \in asked'
  BY DEF TalksLatest, SameRows
<1>3. ASSUME NEW s \in Sessions, armed'[s].kind = "followup", armed'[s].rec # NoRec
      PROVE  /\ about'[held'[s]][1] = "followup" /\ armed'[s].rec = about'[held'[s]][2]
             /\ log'[armed'[s].rec].delivered
  <2>1. UNCHANGED <<held[s], armed[s]>> /\ about'[held[s]] = about[held[s]]
    BY <1>1, <1>3 DEF PartnerInv
  <2>2. armed[s].rec \in Logged
    BY <1>3, <2>1 DEF PartnerInv
  <2>3. QED BY <1>3, <2>1, <2>2 DEF TalksLatest, SameRows
<1>4. QED BY <1>2, <1>3 DEF TalksLatest

LEMMA AnswerNext ==
  OneClient /\ OnePass /\ JobTypeInv /\ JobTypeInv' /\ ThreadInv /\ PartnerInv /\ AnswerInv
    /\ [JobNext]_allVars => AnswerInv'
<1> SUFFICES ASSUME OneClient, OnePass, JobTypeInv, JobTypeInv', ThreadInv, PartnerInv,
                    AnswerInv, [JobNext]_allVars
             PROVE  AnswerInv'
  OBVIOUS
<1>t. /\ log \in Seq(Row) /\ Len(log) <= MaxLog /\ Logged = 1..Len(log) /\ Len(log) \in Nat
      /\ pass \in [Passes -> Stages] /\ call \in [Passes -> Call]
      /\ armed \in [Sessions -> Questions] /\ pick \in [Passes -> Recs \cup {NoRec}]
      /\ sess \in [Sessions -> {"closed", "read", "marked", "setup", "open"}]
      /\ held \in [Sessions -> Ids \cup {None}]
      /\ about \in [Ids -> {"job", "followup", "other"} \X (Recs \cup {NoRec})]
      /\ queue \in Seq(Ids) /\ Queued \subseteq Ids /\ None \notin Ids
  BY QueueAssumption DEF JobTypeInv, JobTypeOK, Logged, Queued, Elems
<1>h. \A s \in Sessions : sess[s] # "closed" => held[s] \in Ids
  BY DEF JobTypeInv, Ties
<1>i. Idle.at = "idle" /\ Unarmed.kind = "none"
  BY DEF Idle, Unarmed
<1>u. AnswerInv = (BookedWell /\ QueuedLatest /\ TalksLatest)
  BY DEF AnswerInv
<1>r. UNCHANGED log => SameRows /\ \A r \in Logged : log'[r].sent = log[r].sent
  BY DEF SameRows, Logged
<1>b. UNCHANGED <<log, active>> /\ asked \subseteq asked' => BookedWell'
  BY <1>r, <1>u, BookedKept
<1>a. \A s \in Sessions : armed[s] # Unarmed => sess[s] = "open"
  BY DEF PartnerInv
<1>1. ASSUME NEW p \in Passes, StartFollowups(p) PROVE AnswerInv'
  <2>1. UNCHANGED <<queue, sess, held, log, about, pick, call, armed, active, asked>>
    BY <1>1 DEF StartFollowups, jobVars
  <2>2. /\ \A q \in Passes : pass'[q] \in {"due", "sending"} => pass[q] \in {"due", "sending"}
        /\ \A q \in Passes : call'[q] # Idle => pass'[q] = pass[q]
    BY <1>1, <1>t, <2>1 DEF StartFollowups
  <2>3. QueuedLatest'
    <3>1. Queued' \subseteq Queued
      BY <2>1 DEF Queued
    <3>2. QED BY <1>r, <1>u, <2>1, <2>2, <3>1, QueuedKept DEF QueuedLatest
  <2>4. QED BY <1>r, <1>b, <1>u, <2>1, <2>3, TalksKept DEF AnswerInv
<1>2. ASSUME NEW p \in Passes, AsksDue(p) PROVE AnswerInv'
  <2>1. /\ UNCHANGED <<queue, sess, held, log, about, call, armed, active, asked>>
        /\ pass[p] = "followups"
    BY <1>2 DEF AsksDue
  <2>2. call[p] = Idle
    BY <2>1, <1>u DEF QueuedLatest
  <2>3. Queued' = Queued /\ Logged' = Logged
    BY <2>1 DEF Queued, Logged
  <2>4. QueuedLatest'
    <3>1. CASE /\ DueFollowup # NoRec /\ pick' = [pick EXCEPT ![p] = DueFollowup]
               /\ pass' = [pass EXCEPT ![p] = "due"]
      <4>1. PICK r \in Logged : DueFollowup = r /\ log[r].delivered /\ IsOpen(r)
        BY <1>t, <3>1, Selections
      <4>2. r = Len(log)
        BY <4>1 DEF ThreadInv
      <4>3. /\ pick'[p] = r /\ \A q \in Passes : q # p => pass'[q] = pass[q] /\ pick'[q] = pick[q]
        BY <3>1, <4>1, <1>t
      <4>4. QED BY <1>u, <2>1, <2>2, <2>3, <4>1, <4>2, <4>3 DEF QueuedLatest
    <3>2. CASE pick' = pick /\ pass' = [pass EXCEPT ![p] = "between"]
      <4>1. /\ \A q \in Passes : pass'[q] \in {"due", "sending"} => pass[q] \in {"due", "sending"}
            /\ \A q \in Passes : call'[q] # Idle => pass'[q] = pass[q]
        BY <1>t, <2>1, <2>2, <3>2
      <4>2. QED BY <1>r, <1>u, <2>1, <2>3, <3>2, <4>1, QueuedKept DEF QueuedLatest
    <3>3. QED BY <1>2, <3>1, <3>2 DEF AsksDue
  <2>5. QED BY <1>r, <1>b, <1>u, <2>1, <2>4, TalksKept DEF AnswerInv
<1>3. ASSUME NEW id \in Fresh, NEW by \in {"pass", "route"}, Insert(id, by),
             NEW k \in {"job", "followup", "other"}, NEW r,
             about' = [about EXCEPT ![id] = <<k, r>>],
             UNCHANGED <<sess, held, log, pick, call, armed, active, asked>>,
             k = "followup" => r = Len(log) /\ Len(log) \in Logged,
             k # "other" => \A p \in Passes : call[p] = Idle,
             \A p \in Passes : pass'[p] \in {"due", "sending"} => pass[p] \in {"due", "sending"},
             \A p \in Passes : call[p] # Idle => pass'[p] = pass[p]
      PROVE  AnswerInv'
  <2>1. /\ Queued' = Queued \cup {id} /\ id \in Ids /\ id \notin Queued
        /\ \A s \in Sessions : held[s] # id
    BY <1>3, Inserted
  <2>2. /\ about'[id][1] = k /\ about'[id][2] = r
        /\ \A i \in Ids : i # id => about'[i] = about[i]
    BY <1>3, <1>t, <2>1
  <2>3. Logged' = Logged /\ SameRows
    BY <1>3, <1>r DEF SameRows
  <2>4. QueuedLatest'
    <3>1. \A p \in Passes : pass'[p] \in {"due", "sending"} =>
            pick'[p] = Len(log') /\ pick'[p] \in Logged' /\ log'[pick'[p]].delivered
      BY <1>3, <1>u, <2>3 DEF QueuedLatest
    <3>2. \A p \in Passes : call'[p] # Idle =>
            pass'[p] \in {"idle", "matching"} /\ \A i \in Queued' : about'[i][1] = "other"
      BY <1>3, <1>t, <1>u, <2>1, <2>2 DEF QueuedLatest
    <3>3. \A i \in Queued' : about'[i][1] = "followup" =>
            about'[i][2] = Len(log') /\ Len(log') \in Logged'
      <4>1. \A i \in Queued : about'[i] = about[i]
        BY <1>t, <2>1, <2>2
      <4>2. Len(log') = Len(log)
        BY <1>3
      <4>3. \A i \in Queued : about[i][1] = "followup" => about[i][2] = Len(log) /\ Len(log) \in Logged
        BY <1>u DEF QueuedLatest
      <4>4. QED BY <1>3, <2>1, <2>2, <2>3, <4>1, <4>2, <4>3
    <3>4. QED BY <3>1, <3>2, <3>3 DEF QueuedLatest
  <2>5. \A s \in Sessions : sess[s] # "closed" => about'[held[s]] = about[held[s]]
    BY <1>h, <2>1, <2>2
  <2>6. TalksLatest'
    BY <1>3, <1>u, <2>3, <2>5, TalksKept
  <2>7. QED BY <1>3, <1>b, <2>4, <2>6 DEF AnswerInv
<1>4. ASSUME NEW p \in Passes, NEW kind \in {"job", "followup"},
             NEW next \in {"idle", "sending"}, QueueAbout(p, kind, next),
             pass[p] \in {"due", "hint"},
             kind = "followup" <=> pass[p] = "due", kind = "job" => next = "idle"
      PROVE  AnswerInv'
  <2>1. \A q \in Passes : call[q] = Idle
    <3>1. call[p] = Idle
      BY <1>4, <1>u DEF QueuedLatest
    <3>2. Busy(p)
      BY <1>4 DEF Busy
    <3>3. QED BY <3>1, <3>2 DEF ThreadInv, Busy
  <2>2. UNCHANGED <<sess, held, log, pick, call, armed, active, asked>>
    BY <1>4 DEF QueueAbout
  <2>3. \A q \in Passes : pass'[q] \in {"due", "sending"} => pass[q] \in {"due", "sending"}
    <3>1. \E v \in {"idle", "between"} \cup {next} : pass' = [pass EXCEPT ![p] = v]
      BY <1>4 DEF QueueAbout
    <3>2. CASE kind = "followup"
      BY <1>4, <1>t, <3>1, <3>2
    <3>3. CASE kind = "job"
      BY <1>4, <1>t, <3>1, <3>3
    <3>4. QED BY <3>2, <3>3
  <2>4. CASE \E id \in Fresh : Insert(id, "pass") /\ about' = [about EXCEPT ![id] = <<kind, pick[p]>>]
    <3>1. PICK id \in Fresh : Insert(id, "pass") /\ about' = [about EXCEPT ![id] = <<kind, pick[p]>>]
      BY <2>4
    <3>2. PICK r : r = pick[p]
      OBVIOUS
    <3>3. kind = "followup" => r = Len(log) /\ Len(log) \in Logged
      BY <1>4, <1>u, <3>2 DEF QueuedLatest
    <3>4. about' = [about EXCEPT ![id] = <<kind, r>>]
      BY <3>1, <3>2
    <3>5. QED BY <1>3, <2>1, <2>2, <2>3, <3>1, <3>3, <3>4
  <2>5. CASE UNCHANGED <<queue, source, said, about>>
    <3>1. Queued' = Queued
      BY <2>5 DEF Queued
    <3>2. QueuedLatest'
      BY <1>r, <1>u, <2>1, <2>2, <2>3, <2>5, <3>1, QueuedKept
    <3>3. QED BY <1>r, <1>b, <1>u, <2>2, <2>5, <3>2, TalksKept DEF AnswerInv
  <2>6. QED BY <1>4, <2>4, <2>5 DEF QueueAbout
<1>5. ASSUME NEW p \in Passes, MarkSent(p) PROVE AnswerInv'
  <2>1. /\ UNCHANGED <<queue, sess, held, about, pick, call, armed, active, asked>>
        /\ pass[p] = "sending" /\ pass' = [pass EXCEPT ![p] = "between"]
    BY <1>5 DEF MarkSent
  <2>2. SameRows /\ \A r \in Logged : log'[r].sent => log[r].sent \/ log[r].delivered
    <3>1. log[pick[p]].delivered
      BY <1>u, <2>1 DEF QueuedLatest
    <3>2. QED BY <1>5, <3>1, SentIsSteady DEF Steady, SameRows
  <2>3. Queued' = Queued
    BY <2>1 DEF Queued
  <2>4. call[p] = Idle
    BY <1>u, <2>1 DEF QueuedLatest
  <2>5. QueuedLatest'
    <3>1. /\ \A q \in Passes : pass'[q] \in {"due", "sending"} => pass[q] \in {"due", "sending"}
          /\ \A q \in Passes : call'[q] # Idle => pass'[q] = pass[q]
      BY <1>t, <2>1, <2>4
    <3>2. QED BY <1>u, <2>1, <2>2, <2>3, <3>1, QueuedKept DEF QueuedLatest
  <2>6. BookedWell'
    BY <1>u, <2>1, <2>2, BookedKept
  <2>7. QED BY <1>u, <2>1, <2>2, <2>5, <2>6, TalksKept DEF AnswerInv
<1>6. ASSUME NEW p \in Passes, StartMatch(p) \/ MatchReads(p) \/ MatchPicks(p) \/ GivesUp(p)
      PROVE  AnswerInv'
  <2>1. UNCHANGED <<queue, sess, held, log, about, pick, armed, active, asked>>
    BY <1>6 DEF StartMatch, MatchReads, MatchPicks, GivesUp
  <2>2. Queued' = Queued
    BY <2>1 DEF Queued
  <2>3. /\ \A q \in Passes : pass'[q] \in {"due", "sending"} => pass[q] \in {"due", "sending"}
        /\ \A q \in Passes : call'[q] # Idle =>
             /\ call[q] # Idle \/ Queued' = {}
             /\ pass'[q] \in {"idle", "matching"}
    <3>1. CASE StartMatch(p)
      <4>1. CASE Pending = None
        <5>1. /\ pass' = [pass EXCEPT ![p] = "matching"]
              /\ \A q \in Passes : q # p => call'[q] = call[q]
          BY <1>t, <3>1, <4>1 DEF StartMatch
        <5>2. Queued' = {}
          BY <2>2, <4>1, PendingFacts
        <5>3. QED BY <1>t, <1>u, <5>1, <5>2 DEF QueuedLatest
      <4>2. CASE Pending # None
        <5>1. pass' = [pass EXCEPT ![p] = "idle"] /\ call' = call
          BY <3>1, <4>2 DEF StartMatch
        <5>2. QED BY <1>t, <1>u, <5>1 DEF QueuedLatest
      <4>3. QED BY <4>1, <4>2
    <3>2. CASE MatchReads(p) \/ MatchPicks(p)
      <4>1. call[p] # Idle
        BY <3>2, <1>i DEF MatchReads, MatchPicks
      <4>2. \E v \in {"idle", pass[p]} : pass' = [pass EXCEPT ![p] = v]
        <5>1. \/ pass' = [pass EXCEPT ![p] = IF @ = "matching" THEN "idle" ELSE @]
              \/ UNCHANGED pass
          BY <3>2 DEF MatchReads, MatchPicks
        <5>2. UNCHANGED pass => pass' = [pass EXCEPT ![p] = pass[p]]
          BY <1>t
        <5>3. QED BY <5>1, <5>2
      <4>3. \A q \in Passes : q # p => call'[q] = call[q]
        BY <3>2, <1>t DEF MatchReads, MatchPicks
      <4>4. pass[p] \in {"idle", "matching"} /\ \A q \in Passes : call[q] # Idle =>
              pass[q] \in {"idle", "matching"}
        BY <1>u, <4>1 DEF QueuedLatest
      <4>5. \A q \in Passes : pass'[q] = IF q = p THEN pass'[p] ELSE pass[q]
        BY <1>t, <4>2
      <4>6. pass'[p] \in {"idle", "matching"}
        BY <1>t, <4>2, <4>4
      <4>7. QED BY <1>t, <1>u, <4>1, <4>3, <4>4, <4>5, <4>6 DEF QueuedLatest
    <3>3. CASE GivesUp(p)
      <4>1. pass' = [pass EXCEPT ![p] = "idle"] /\ call' = call
        BY <3>3 DEF GivesUp
      <4>2. QED BY <1>t, <1>u, <4>1 DEF QueuedLatest
    <3>4. QED BY <1>6, <3>1, <3>2, <3>3
  <2>4. QueuedLatest'
    BY <1>r, <1>u, <2>1, <2>2, <2>3, QueuedKept
  <2>5. QED BY <1>r, <1>b, <1>u, <2>1, <2>4, TalksKept DEF AnswerInv
<1>7. ASSUME NEW p \in Passes, MatchLogs(p) PROVE AnswerInv'
  <2>1. /\ call[p].at = "picked" /\ Len(log) < MaxLog
        /\ log' = Append(log, NewRec(call[p].data)) /\ call' = [call EXCEPT ![p] = Idle]
        /\ UNCHANGED <<queue, sess, held, about, armed, active, asked>>
    BY <1>7 DEF MatchLogs
  <2>2. NewRec(call[p].data) \in Row
    <3>1. call[p] \in Call
      BY <1>t
    <3>2. call[p].data \in Jobs
      BY <2>1, <3>1 DEF Call
    <3>3. QED BY <3>2 DEF NewRec, Row
  <2>3. /\ Len(log') = Len(log) + 1 /\ Logged' = Logged \cup {Len(log) + 1}
        /\ log'[Len(log) + 1] = NewRec(call[p].data) /\ \A i \in Logged : log'[i] = log[i]
    BY <2>1, <2>2, <1>t, RowAdded
  <2>4. /\ log'[Len(log) + 1].outcome = None /\ ~log'[Len(log) + 1].delivered
        /\ ~log'[Len(log) + 1].sent
    BY <2>3 DEF NewRec
  <2>5. call[p] # Idle /\ \A q \in Passes : q # p => call[q] = Idle /\ pass[q] = "idle"
    BY <2>1, <1>i DEF ThreadInv, Busy
  <2>6. BookedWell'
    BY <1>u, <2>1, <2>3, <2>4 DEF BookedWell
  <2>7. QueuedLatest'
    <3>1. pass[p] \in {"idle", "matching"} /\ \A id \in Queued : about[id][1] = "other"
      BY <1>u, <2>5 DEF QueuedLatest
    <3>2. \A q \in Passes : pass'[q] \notin {"due", "sending"}
      BY <1>7, <1>t, <2>5, <3>1 DEF MatchLogs
    <3>3. \A q \in Passes : call'[q] = Idle
      BY <1>t, <2>1, <2>5
    <3>4. Queued' = Queued
      BY <2>1 DEF Queued
    <3>5. QED BY <2>1, <3>1, <3>2, <3>3, <3>4 DEF QueuedLatest
  <2>8. TalksLatest'
    <3>1. \A s \in Sessions : armed[s].kind = "followup" /\ armed[s].rec # NoRec =>
            armed[s].rec \in Logged
      BY DEF PartnerInv
    <3>2. UNCHANGED <<sess, about, held, armed, asked>>
      BY <1>u, <2>1
    <3>3. \A r \in Logged' : log'[r].delivered => r \in Logged /\ log[r].delivered
      BY <2>3, <2>4
    <3>4. ASSUME NEW s \in Sessions, sess[s] # "closed", about[held[s]][1] = "followup"
          PROVE  /\ about[held[s]][2] \in Logged'
                 /\ \A r \in Logged' : r > about[held[s]][2] => ~log'[r].delivered
                 /\ sess[s] \in {"setup", "open"} => about[held[s]][2] \in asked
      BY <1>u, <2>3, <3>3, <3>4 DEF TalksLatest
    <3>5. ASSUME NEW s \in Sessions, armed[s].kind = "followup", armed[s].rec # NoRec
          PROVE  /\ about[held[s]][1] = "followup" /\ armed[s].rec = about[held[s]][2]
                 /\ log'[armed[s].rec].delivered
      BY <1>u, <2>3, <3>1, <3>5 DEF TalksLatest
    <3>6. QED BY <3>2, <3>4, <3>5 DEF TalksLatest
  <2>9. QED BY <2>6, <2>7, <2>8 DEF AnswerInv
<1>8. ASSUME OthersQueue PROVE AnswerInv'
  <2>1. PICK id \in Fresh : Insert(id, "route") /\ about' = [about EXCEPT ![id] = <<"other", NoRec>>]
    BY <1>8 DEF OthersQueue
  <2>2. UNCHANGED <<pass, sess, held, log, pick, call, armed, active, asked>>
    BY <1>8 DEF OthersQueue
  <2>3. QED BY <1>3, <2>1, <2>2
<1>9. ASSUME NEW r \in Logged, TimePasses(r) PROVE AnswerInv'
  <2>1. UNCHANGED <<queue, pass, sess, held, about, pick, call, armed, active, asked>>
    BY <1>9 DEF TimePasses, vars
  <2>2. SameRows /\ \A q \in Logged : log'[q].sent = log[q].sent
    BY <1>9, TimeIsSteady DEF Steady, SameRows
  <2>3. Queued' = Queued
    BY <2>1 DEF Queued
  <2>4. BookedWell'
    BY <1>u, <2>1, <2>2, BookedKept
  <2>5. QueuedLatest'
    BY <1>u, <2>1, <2>2, <2>3, QueuedKept DEF QueuedLatest
  <2>6. QED BY <1>u, <2>1, <2>2, <2>4, <2>5, TalksKept DEF AnswerInv
<1>q. ASSUME UNCHANGED <<pass, about, pick, call, log>>, Queued' \subseteq Queued
      PROVE  QueuedLatest'
  BY <1>q, <1>r, <1>u, QueuedKept DEF QueuedLatest
<1>10. ASSUME NEW s \in Sessions, Reads(s) PROVE AnswerInv'
  <2>1. /\ sess[s] = "closed" /\ Pending # None
        /\ held' = [held EXCEPT ![s] = Pending] /\ sess' = [sess EXCEPT ![s] = "read"]
        /\ UNCHANGED <<queue, pass, log, about, pick, call, armed, active, asked>>
    BY <1>10 DEF Reads, ReadPending, jobVars
  <2>2. Queued' = Queued /\ Logged' = Logged
    BY <2>1 DEF Queued, Logged
  <2>3. PICK id \in Queued : id = Pending
    BY <2>1, PendingFacts
  <2>4. TalksLatest'
    <3>1. held'[s] = id /\ sess'[s] = "read" /\ armed'[s] = Unarmed
      BY <1>a, <1>t, <2>1, <2>3
    <3>2. \A t \in Sessions : t = s
      BY DEF OneClient
    <3>3. about[id][1] = "followup" =>
            /\ about[id][2] \in Logged /\ \A r \in Logged : ~(r > about[id][2])
      <4>1. about[id][1] = "followup" => about[id][2] = Len(log) /\ Len(log) \in Logged
        BY <1>u DEF QueuedLatest
      <4>2. \A r \in Logged : ~(r > Len(log))
        BY <1>t
      <4>3. QED BY <4>1, <4>2
    <3>4. QED BY <1>i, <2>1, <2>2, <3>1, <3>2, <3>3 DEF TalksLatest
  <2>5. QED BY <1>b, <1>q, <2>1, <2>2, <2>4 DEF AnswerInv
<1>11. ASSUME NEW s \in Sessions, Marks(s) PROVE AnswerInv'
  <2>1. /\ sess[s] = "read" /\ sess' = [sess EXCEPT ![s] = "marked"]
        /\ queue' = Without(queue, held[s])
        /\ UNCHANGED <<pass, held, log, about, pick, call, armed, active, asked>>
    BY <1>11 DEF Marks, MarkDelivered, jobVars
  <2>2. Queued' \subseteq Queued /\ Logged' = Logged
    <3>1. Elems(queue') \subseteq Elems(queue) \ {held[s]}
      BY <1>t, <2>1, WithoutFacts DEF JobTypeInv
    <3>2. QED BY <2>1, <3>1 DEF Queued, Logged
  <2>3. TalksLatest'
    <3>1. \A t \in Sessions : /\ sess[t] # "closed" <=> sess'[t] # "closed"
                              /\ sess'[t] \in {"setup", "open"} => sess[t] \in {"setup", "open"}
      BY <1>t, <2>1
    <3>2. QED BY <1>u, <2>1, <2>2, <3>1 DEF TalksLatest
  <2>4. QED BY <1>b, <1>q, <2>1, <2>2, <2>3 DEF AnswerInv
<1>12. ASSUME NEW s \in Sessions, Says(s) PROVE AnswerInv'
  <2>1. /\ sess[s] = "marked" /\ sess' = [sess EXCEPT ![s] = "setup"]
        /\ asked' = IF about[held[s]][1] = "followup" THEN asked \cup {about[held[s]][2]} ELSE asked
        /\ UNCHANGED <<queue, pass, held, log, about, pick, call, armed, active>>
    BY <1>12 DEF Says
  <2>2. Queued' = Queued /\ Logged' = Logged /\ asked \subseteq asked'
    BY <2>1 DEF Queued, Logged
  <2>3. TalksLatest'
    BY <1>a, <1>i, <1>t, <1>u, <2>1, <2>2 DEF TalksLatest
  <2>4. QED BY <1>b, <1>q, <2>1, <2>2, <2>3 DEF AnswerInv
<1>13. ASSUME NEW s \in Sessions, Setup(s) PROVE AnswerInv'
  <2>1. /\ sess[s] = "setup" /\ sess' = [sess EXCEPT ![s] = "open"]
        /\ UNCHANGED <<queue, pass, held, about, pick, call, active, asked>>
    BY <1>13 DEF Setup
  <2>2. /\ Len(log') = Len(log) /\ Logged' = Logged
        /\ \A r \in Logged :
             /\ log'[r].outcome = log[r].outcome /\ log'[r].sent = log[r].sent
             /\ log[r].delivered => log'[r].delivered
             /\ log'[r].delivered => log[r].delivered \/ about[held[s]][1] = "job"
    BY <1>13, SetupIsSteady DEF Steady
  <2>3. Queued' = Queued
    BY <2>1 DEF Queued
  <2>4. BookedWell'
    BY <1>u, <2>1, <2>2 DEF BookedWell
  <2>5. QueuedLatest'
    BY <1>u, <2>1, <2>2, <2>3 DEF QueuedLatest
  <2>6. \A t \in Sessions : t = s
    BY DEF OneClient
  <2>7. about[held[s]][1] = "followup" =>
          /\ about[held[s]][2] \in Logged /\ about[held[s]][2] \in asked
          /\ \A r \in Logged : r > about[held[s]][2] => ~log'[r].delivered
    BY <1>u, <2>1, <2>2 DEF TalksLatest
  <2>8. ASSUME armed'[s].kind = "followup", armed'[s].rec # NoRec
        PROVE  /\ about[held[s]][1] = "followup" /\ armed'[s].rec = about[held[s]][2]
               /\ log'[armed'[s].rec].delivered
    <3>1. armed[s] = Unarmed
      BY <1>a, <2>1
    <3>2. about[held[s]][1] = "followup" /\ armed'[s].rec = PendingFollowup
      <4>1. CASE SetupJob(s)
        BY <4>1, <1>t, <2>8 DEF SetupJob
      <4>2. CASE SetupFollowup(s)
        BY <4>2, <1>t, <2>8 DEF SetupFollowup
      <4>3. CASE UNCHANGED armed
        BY <4>3, <3>1, <2>8, <1>i
      <4>4. QED BY <1>13, <4>1, <4>2, <4>3 DEF Setup
    <3>3. PICK r \in Logged : PendingFollowup = r /\ IsOpen(r) /\ log[r].sent
      BY <1>t, <2>8, <3>2, Selections
    <3>4. r = Len(log) /\ log[r].delivered
      BY <1>u, <3>3 DEF ThreadInv, BookedWell
    <3>5. about[held[s]][2] \in Logged /\ ~(r > about[held[s]][2])
      BY <1>u, <2>1, <3>2, <3>3, <3>4 DEF TalksLatest
    <3>6. r = about[held[s]][2]
      BY <1>t, <3>4, <3>5
    <3>7. QED BY <2>2, <3>2, <3>3, <3>4, <3>6
  <2>9. TalksLatest'
    BY <2>1, <2>2, <2>6, <2>7, <2>8 DEF TalksLatest
  <2>10. QED BY <2>4, <2>5, <2>9 DEF AnswerInv
<1>14. ASSUME NEW s \in Sessions, Replies(s) PROVE AnswerInv'
  <2>1. /\ sess[s] = "open" /\ armed' = [armed EXCEPT ![s] = Unarmed]
        /\ UNCHANGED <<queue, pass, sess, held, about, pick, call, asked>>
    BY <1>14 DEF Replies, vars
  <2>2. Queued' = Queued
    BY <2>1 DEF Queued
  <2>4. /\ Len(log') = Len(log) /\ Logged' = Logged
        /\ \A q \in Logged : log'[q].delivered = log[q].delivered /\ log'[q].sent = log[q].sent
    BY <1>14, ReplyBooks DEF Books
  <2>5. \A t \in Sessions : armed'[t] = Unarmed
    BY <1>t, <2>1 DEF OneClient
  <2>6. QueuedLatest'
    BY <1>u, <2>1, <2>2, <2>4 DEF QueuedLatest
  <2>7. TalksLatest'
    BY <1>i, <1>u, <2>1, <2>4, <2>5 DEF TalksLatest
  <2>8. /\ \A q \in Logged : /\ log'[q].outcome # None => log'[q].delivered /\ q \in asked'
                             /\ log'[q].sent => log'[q].delivered
        /\ active' => \E q \in Logged : log'[q].outcome = "liked"
    <3>1. CASE UNCHANGED log
      <4>1. active' = active
        <5>1. CASE \E o \in Outcome : /\ log' = [log EXCEPT ![armed[s].rec].outcome = o]
                                      /\ armed[s].kind = "followup" /\ armed[s].rec # NoRec
          <6>1. PICK o \in Outcome : /\ log' = [log EXCEPT ![armed[s].rec].outcome = o]
                                     /\ armed[s].kind = "followup" /\ armed[s].rec # NoRec
            BY <5>1
          <6>2. PICK r \in Logged : armed[s].rec = r /\ log[r].outcome = None
            BY <6>1 DEF PartnerInv
          <6>3. log'[r].outcome = o
            BY <1>t, <6>1, <6>2 DEF Row
          <6>4. QED BY <3>1, <6>2, <6>3, JobAssumption
        <5>2. QED BY <1>14, <5>1 DEF Replies
      <4>2. QED BY <1>u, <2>1, <3>1, <4>1 DEF BookedWell
    <3>2. CASE /\ armed[s].kind = "followup" /\ armed[s].rec # NoRec
      <4>1. PICK d \in Logged : armed[s].rec = d /\ log[d].outcome = None
        BY <3>2 DEF PartnerInv
      <4>2. log[d].delivered /\ d \in asked
        BY <1>u, <2>1, <3>2, <4>1 DEF TalksLatest
      <4>3. \A q \in Logged : q # d => log'[q].outcome = log[q].outcome
        BY <1>14, <4>1, ReplyBooks DEF Books
      <4>4. active' => active \/ log'[d].outcome = "liked"
        <5>1. CASE \E o \in Outcome : /\ log' = [log EXCEPT ![armed[s].rec].outcome = o]
                                      /\ active' = (active \/ o = "liked")
          <6>1. PICK o \in Outcome : /\ log' = [log EXCEPT ![armed[s].rec].outcome = o]
                                     /\ active' = (active \/ o = "liked")
            BY <5>1
          <6>2. log'[d].outcome = o
            BY <1>t, <4>1, <6>1 DEF Row
          <6>3. QED BY <6>1, <6>2
        <5>2. QED BY <1>14, <5>1 DEF Replies
      <4>5. \A q \in Logged : /\ log'[q].outcome # None => log'[q].delivered /\ q \in asked'
                              /\ log'[q].sent => log'[q].delivered
        BY <1>u, <2>1, <2>4, <4>1, <4>2, <4>3 DEF BookedWell
      <4>6. active' => \E q \in Logged : log'[q].outcome = "liked"
        <5>1. CASE active
          <6>1. PICK q \in Logged : log[q].outcome = "liked"
            BY <1>u, <5>1 DEF BookedWell
          <6>2. q # d
            BY <4>1, <6>1, JobAssumption DEF Outcome
          <6>3. QED BY <4>3, <6>1, <6>2
        <5>2. QED BY <4>4, <5>1
      <4>7. QED BY <4>5, <4>6
    <3>3. QED BY <1>14, <3>1, <3>2, ReplyBooks
  <2>9. BookedWell'
    BY <2>4, <2>8 DEF BookedWell
  <2>10. QED BY <2>6, <2>7, <2>9 DEF AnswerInv
<1>15. ASSUME NEW s \in Sessions, Leaves(s) PROVE AnswerInv'
  <2>1. UNCHANGED <<queue, pass, log, about, pick, call, active, asked>>
    BY <1>15 DEF Leaves
  <2>2. \A t \in Sessions : \/ UNCHANGED <<sess[t], held[t], armed[t]>>
                            \/ sess'[t] = "closed" /\ armed'[t] = Unarmed
    <3>1. /\ sess' = [sess EXCEPT ![s] = "closed"] /\ held' = [held EXCEPT ![s] = None]
          /\ armed' = [armed EXCEPT ![s] = Unarmed]
      BY <1>15 DEF Leaves
    <3>2. /\ sess'[s] = "closed" /\ armed'[s] = Unarmed
          /\ \A t \in Sessions : t # s => UNCHANGED <<sess[t], held[t], armed[t]>>
      BY <1>t, <3>1
    <3>3. QED BY <3>2
  <2>3. Queued' = Queued
    BY <2>1 DEF Queued
  <2>4. TalksLatest'
    BY <1>r, <1>u, <2>1, <2>2, TalksKept
  <2>5. QED BY <1>b, <1>q, <2>1, <2>3, <2>4 DEF AnswerInv
<1>16. CASE UNCHANGED allVars
  <2>1. UNCHANGED <<queue, pass, sess, held, log, about, pick, call, armed, active, asked>>
    BY <1>16 DEF allVars, vars, jobVars
  <2>2. Queued' = Queued
    BY <2>1 DEF Queued
  <2>3. QED BY <1>b, <1>q, <1>r, <1>u, <2>1, <2>2, TalksKept DEF AnswerInv
<1>17. ASSUME NEW p \in Passes, QueueFollowup(p) \/ QueueJob(p) PROVE AnswerInv'
  BY <1>4, <1>17 DEF QueueFollowup, QueueJob
<1>18. QED
  BY <1>1, <1>2, <1>5, <1>6, <1>7, <1>8, <1>9, <1>10, <1>11, <1>12, <1>13, <1>14,
     <1>15, <1>16, <1>17
  DEF JobNext, Sleep, Match, Opens

LEMMA AnswerInit == JobInit => AnswerInv
<1> SUFFICES ASSUME JobInit PROVE AnswerInv
  OBVIOUS
<1>1. Logged = {} /\ Queued = {}
  BY DEF JobInit, Init, Logged, Queued, Elems
<1>2. /\ ~active /\ \A p \in Passes : pass[p] = "idle" /\ call[p] = Idle
      /\ \A s \in Sessions : sess[s] = "closed" /\ armed[s].kind = "none"
  BY DEF JobInit, Init, Unarmed
<1>3. QED BY <1>1, <1>2 DEF AnswerInv, BookedWell, QueuedLatest, TalksLatest

LEMMA AnswersHold == ASSUME OnePass, OneClient PROVE JobSpec => []AnswerInv
<1>1. JobInit => AnswerInv
  BY AnswerInit
<1>2. JobTypeInv /\ JobTypeInv' /\ ThreadInv /\ PartnerInv /\ AnswerInv /\ [JobNext]_allVars
        => AnswerInv'
  BY AnswerNext
<1>3. QED BY <1>1, <1>2, JobTypes, ThreadHolds, PartnerHolds, PTL DEF JobSpec

\* An outcome is booked only on a recommendation whose link the user was shown
\* and which a session asked them about, and the engagement flag is up only if
\* one of their answers was a like (match.py, record_outcome).
THEOREM OutcomeIsAnswerHolds == ASSUME OnePass, OneClient PROVE JobSpec => []OutcomeIsAnswer
<1>1. AnswerInv => OutcomeIsAnswer
  BY DEF AnswerInv, BookedWell, OutcomeIsAnswer, IsOpen
<1>2. QED BY <1>1, AnswersHold, PTL

\* The reply a session waits for is booked on the recommendation its opener
\* asked about, or on none when the service did not answer.
AnswerInPlace ==
  \A s \in Sessions : armed[s].kind = "followup" /\ armed[s].rec # NoRec =>
    armed[s].rec = about[held[s]][2]

\* So it is, with one pass at a time and one session.
THEOREM AnswerInPlaceHolds == ASSUME OnePass, OneClient PROVE JobSpec => []AnswerInPlace
<1>1. AnswerInv => AnswerInPlace
  BY DEF AnswerInv, TalksLatest, AnswerInPlace
<1>2. QED BY <1>1, AnswersHold, PTL
==============================================================================
