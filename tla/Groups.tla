-------------------------------- MODULE Groups --------------------------------
(***************************************************************************)
(* The connections service, several at once: the nightly clustering pass,  *)
(* which finds people who share an interest and all suit one another and   *)
(* queues a group introduction for each of them; the route that declines a *)
(* group when a member says no; and the erasure of a member.               *)
(*                                                                         *)
(* One pass runs at a time (the scheduler's), with an await at every       *)
(* statement of the store and every call of the brain; one launch state.   *)
(***************************************************************************)
EXTENDS Integers, FiniteSets, FiniteSetsExt

CONSTANTS
  Crowd,      \* accounts of the launched state
  None,
  Nodes,      \* specific interests
  GroupIds,   \* bound: the groups ever proposed
  Weights,    \* the scores a couple may have; 0 is "no row"
  Threshold,  \* group_score_threshold
  MinSize, MaxSize,
  MaxSkips,   \* bound: couples skipped
  MaxForgotten,     \* bound: accounts erased
  MaxGroupFaults,   \* bound: lost calls, exceptions and crashes
  FindCliques(_),   \* bron_kerbosch(adj)
  Trim(_, _, _)     \* the outcomes of _trim_to_size(clique, scores, target)

VARIABLES
  fans,      \* user_interests of the pool, by node
  score,     \* candidate_scores: the better direction of a couple
  skipped,   \* match_state: couples one of whom skipped the other
  status,    \* group_candidates by id: "none" is "no row"
  crew,      \* member_ids by id, of erased rows too; {} before the id is used
  about,     \* interest_node_id by id
  at,        \* the pass: "idle", "nodes" or "surfacing"
  ahead,     \* the pass: nodes it has not come to
  node,      \* the pass: the node it is at
  crews,     \* the pass: its candidates for that node
  top,       \* the pass: the candidate it is about to save
  batch,     \* the pass: proposed groups it has not come to
  current,   \* the pass: the group it is surfacing
  unasked,   \* the pass: members of it not yet asked
  allQueued, \* the pass: every member so far was
  open,      \* check-ins <<group, member>> the member has not answered
  declining, \* requests that read the group and are about to decline it
  forgotten, \* accounts whose rows the deletion has erased
  invited,   \* history: check-ins the brain ever stored
  twice,     \* history: a member was asked about a group again
  groupFaults

rowVars  == <<status, crew, about>>
passVars == <<at, ahead, node, crews, top, batch, current, unasked, allQueued>>
sessionVars == <<open, declining, invited, twice>>
dataVars == <<fans, score, skipped, forgotten>>
groupVars == <<dataVars, rowVars, passVars, sessionVars, groupFaults>>

Rows == {g \in GroupIds : status[g] # "none"}
CrowdCouples == {c \in SUBSET Crowd : Cardinality(c) = 2}
Places == GroupIds \X Crowd   \* a member's place in a group

\* get_users_by_interest for a node: what an erasure leaves of it.
Sizable(n) == Cardinality(fans[n]) >= MinSize

-------------------------------------------------------------------------------
(* The graph of a node: pure functions of what the pass read.                *)

\* Mutant: the bar is only that the couple was scored.
ScoredEdges(us, sc, sk) ==
  [u \in us |-> {v \in us \ {u} : sc[{u, v}] > 0 /\ {u, v} \notin sk}]

\* _build_adjacency
Adjacency(us, sc, sk) ==
  [u \in us |-> {v \in us \ {u} : sc[{u, v}] >= Threshold /\ {u, v} \notin sk}]

\* The couples of a group.
Within(group) == {c \in SUBSET group : Cardinality(c) = 2}

\* _mean_pair_score, rounded half up to the unit of the scores.
MeanPairScore(group, sc) ==
  LET total == MapThenSumSet(LAMBDA c : sc[c], Within(group))
      n     == Cardinality(Within(group))
  IN  IF n = 0 THEN 0 ELSE (2 * total + n) \div (2 * n)

\* What a clique may become: trimmed to MaxSize, dropped below MinSize.
Fitted(clique, sc) ==
  {g \in (IF Cardinality(clique) > MaxSize THEN Trim(clique, sc, MaxSize) ELSE {clique}) :
     Cardinality(g) >= MinSize}

\* The lists of candidates the loop over the cliques may build.
CandidateLists(us) ==
  LET cliques == {c \in FindCliques(Adjacency(us, score, skipped)) : Fitted(c, score) # {}}
  IN  {{f[c] : c \in cliques} :
         f \in {h \in [cliques -> SUBSET us] : \A c \in cliques : h[c] \in Fitted(c, score)}}

\* What the operators given for FindCliques and Trim must compute.
IsClique(adj, c) == \A u, v \in c : u # v => v \in adj[u]
MaximalCliques(adj) ==
  {c \in SUBSET DOMAIN adj :
     IsClique(adj, c) /\ \A v \in DOMAIN adj \ c : ~IsClique(adj, c \cup {v})}

ASSUME GroupAssumption ==
  /\ IsFiniteSet(Crowd)
  /\ None \notin Nodes \cup GroupIds
  /\ Weights \subseteq Nat /\ 0 \in Weights
  /\ Threshold \in Nat \ {0} /\ MaxGroupFaults \in Nat
  /\ MinSize \in Nat \ {0} /\ MaxSize \in Nat /\ MinSize <= MaxSize
  /\ MaxSkips \in Nat /\ MaxForgotten \in Nat

ASSUME FindCliquesAssumption ==
  \A us \in SUBSET Crowd : \A es \in SUBSET CrowdCouples :
    LET adj == [u \in us |-> {v \in us \ {u} : {u, v} \in es}]
    IN  FindCliques(adj) = MaximalCliques(adj)

ASSUME TrimAssumption ==
  \A group \in SUBSET Crowd : \A sc \in [CrowdCouples -> Weights] :
    \A size \in 1 .. Cardinality(group) - 1 :
      \A g \in Trim(group, sc, size) : g \subseteq group /\ Cardinality(g) = size

-------------------------------------------------------------------------------
(* The clustering pass.                                                      *)

PassIdle ==
  /\ at = "idle" /\ ahead = {} /\ node = None /\ crews = {} /\ top = {}
  /\ batch = {} /\ current = None /\ unasked = {} /\ allQueued = TRUE

GroupInit ==
  /\ fans \in [Nodes -> SUBSET Crowd]
  /\ score \in [CrowdCouples -> Weights]
  /\ skipped = {} /\ forgotten = {}
  /\ status = [g \in GroupIds |-> "none"] /\ crew = [g \in GroupIds |-> {}]
  /\ about \in [GroupIds -> Nodes]
  /\ PassIdle
  /\ open = {} /\ declining = {}
  /\ invited = {} /\ twice = FALSE
  /\ groupFaults = 0

GroupFault == groupFaults < MaxGroupFaults /\ groupFaults' = groupFaults + 1

\* get_clusterable_interest_nodes
StartClustering ==
  /\ at = "idle"
  /\ at' = "nodes" /\ ahead' = {n \in Nodes : Sizable(n)}
  /\ UNCHANGED <<dataVars, rowVars, node, crews, top, batch, current, unasked, allQueued, sessionVars, groupFaults>>

\* _cluster_node up to the sort: users, scores and skipped pairs, then cliques.
ReadNode(n) ==
  /\ at = "nodes" /\ node = None /\ n \in ahead
  /\ ahead' = ahead \ {n}
  /\ IF Sizable(n)
     THEN \E list \in CandidateLists(fans[n]) :
            /\ crews' = list
            /\ node' = IF list = {} THEN None ELSE n
     ELSE UNCHANGED <<crews, node>>
  /\ UNCHANGED <<dataVars, rowVars, at, top, batch, current, unasked, allQueued, sessionVars, groupFaults>>

\* Mutant: a group counts against overlap once everybody was asked.
TakenOnceSurfaced(n) == {crew[g] : g \in {h \in Rows : about[h] = n /\ status[h] = "surfaced"}}

\* get_surfaced_group_member_ids
Taken(n) ==
  {crew[g] : g \in {h \in Rows : about[h] = n /\ status[h] \in {"surfacing", "surfaced"}}}

\* The best candidate that overlaps no surfaced group of the node, if any.
ChooseTop ==
  /\ node # None /\ top = {}
  /\ LET free == {c \in crews : \A s \in Taken(node) : c \cap s = {}}
         best == {c \in free : \A d \in free : MeanPairScore(d, score) <= MeanPairScore(c, score)}
     IN  IF free = {}
         THEN node' = None /\ UNCHANGED top
         ELSE top' \in best /\ UNCHANGED node
  /\ crews' = {}
  /\ UNCHANGED <<dataVars, rowVars, at, ahead, batch, current, unasked, allQueued, sessionVars, groupFaults>>

\* Mutant: the candidate of a finished node is still there at the next.
NodeDoneKept == node' = None /\ crews' = {} /\ top' = top

\* The locals of _cluster_node end with it.
NodeDone == node' = None /\ crews' = {} /\ top' = {}

\* The row of a node and a set of members, if there is one.
SameGroup == {g \in Rows : about[g] = node /\ crew[g] = top}

\* Mutant: a group found again is proposed again.
ProposeAgain ==
  /\ top # {}
  /\ NodeDone
  /\ IF SameGroup # {}
     THEN /\ status' = [g \in GroupIds |-> IF g \in SameGroup THEN "proposed" ELSE status[g]]
          /\ UNCHANGED <<crew, about>>
     ELSE \E g \in {h \in GroupIds : crew[h] = {}} :
            /\ status' = [status EXCEPT ![g] = "proposed"]
            /\ crew' = [crew EXCEPT ![g] = top] /\ about' = [about EXCEPT ![g] = node]
  /\ UNCHANGED <<dataVars, at, ahead, batch, current, unasked, allQueued, sessionVars, groupFaults>>

\* save_group_candidate: a row of the same members keeps its id and status.
Propose ==
  /\ top # {}
  /\ NodeDone
  /\ IF SameGroup # {}
     THEN UNCHANGED rowVars
     ELSE \E g \in {h \in GroupIds : crew[h] = {}} :
            /\ status' = [status EXCEPT ![g] = "proposed"]
            /\ crew' = [crew EXCEPT ![g] = top] /\ about' = [about EXCEPT ![g] = node]
  /\ UNCHANGED <<dataVars, at, ahead, batch, current, unasked, allQueued, sessionVars, groupFaults>>

\* An exception anywhere in _cluster_node: the pass goes on with the next.
NodeFails ==
  /\ node # None /\ GroupFault /\ NodeDone
  /\ UNCHANGED <<dataVars, rowVars, at, ahead, batch, current, unasked, allQueued, sessionVars>>

\* get_proposed_groups
StartSurfacing ==
  /\ at = "nodes" /\ ahead = {} /\ node = None
  /\ at' = "surfacing" /\ batch' = {g \in GroupIds : status[g] = "proposed"}
  /\ UNCHANGED <<dataVars, rowVars, ahead, node, crews, top, current, unasked, allQueued, sessionVars, groupFaults>>

\* update_group_status: no row, no update.
SetStatus(g, s) == status' = IF g \in Rows THEN [status EXCEPT ![g] = s] ELSE status

Take(g) ==
  /\ at = "surfacing" /\ current = None /\ g \in batch
  /\ batch' = batch \ {g}

\* Mutant: the group is marked when its members are asked, not before.
BeginUnmarked(g) ==
  /\ Take(g)
  /\ current' = g /\ unasked' = crew[g] /\ allQueued' = TRUE
  /\ UNCHANGED <<dataVars, rowVars, at, ahead, node, crews, top, sessionVars, groupFaults>>

\* The group is marked SURFACING before the first member is asked.
BeginGroup(g) ==
  /\ Take(g)
  /\ SetStatus(g, "surfacing")
  /\ current' = g /\ unasked' = crew[g] /\ allQueued' = TRUE
  /\ UNCHANGED <<dataVars, crew, about, at, ahead, node, crews, top, sessionVars, groupFaults>>

\* That update raises.
BeginFails(g) ==
  /\ Take(g) /\ GroupFault
  /\ UNCHANGED <<dataVars, rowVars, at, ahead, node, crews, top, current, unasked, allQueued, sessionVars>>

\* The brain stores a check-in.
Invite(g, m) ==
  /\ open' = open \cup {<<g, m>>}
  /\ invited' = invited \cup {<<g, m>>}
  /\ twice' = (twice \/ <<g, m>> \in invited)
  /\ UNCHANGED declining

Call(m) == m \in unasked /\ unasked' = unasked \ {m}

\* queue_checkin answers with the check-in's id.
Ask(m) ==
  /\ Call(m) /\ Invite(current, m)
  /\ UNCHANGED <<dataVars, rowVars, at, ahead, node, crews, top, batch, current, allQueued, groupFaults>>

\* Mutant: one answer decides for all.
AskRefusedKept(m) ==
  /\ Call(m)
  /\ UNCHANGED <<dataVars, rowVars, at, ahead, node, crews, top, batch, current, allQueued, sessionVars, groupFaults>>

\* The brain is down or refuses: None.
AskRefused(m) ==
  /\ Call(m) /\ allQueued' = FALSE
  /\ UNCHANGED <<dataVars, rowVars, at, ahead, node, crews, top, batch, current, sessionVars, groupFaults>>

\* It stored the check-in and its answer was lost: None as well.
AskUnanswered(m) ==
  /\ Call(m) /\ GroupFault /\ Invite(current, m) /\ allQueued' = FALSE
  /\ UNCHANGED <<dataVars, rowVars, at, ahead, node, crews, top, batch, current>>

GroupDone == current' = None /\ unasked' = {} /\ allQueued' = TRUE

\* The second update, whatever the row says by now.
EndGroup ==
  /\ current # None /\ unasked = {}
  /\ SetStatus(current, IF allQueued THEN "surfaced" ELSE "surfacing")
  /\ GroupDone
  /\ UNCHANGED <<dataVars, crew, about, at, ahead, node, crews, top, batch, sessionVars, groupFaults>>

\* It raises, and the pass goes on with the next group.
EndFails ==
  /\ current # None /\ unasked = {} /\ GroupFault /\ GroupDone
  /\ UNCHANGED <<dataVars, rowVars, at, ahead, node, crews, top, batch, sessionVars>>

StopClustering ==
  /\ at' = "idle" /\ ahead' = {} /\ batch' = {} /\ NodeDone /\ GroupDone
  /\ UNCHANGED <<dataVars, rowVars, sessionVars>>

FinishClustering ==
  /\ at = "surfacing" /\ batch = {} /\ current = None
  /\ StopClustering /\ UNCHANGED groupFaults

CrashClustering == at # "idle" /\ GroupFault /\ StopClustering

-------------------------------------------------------------------------------
(* The members, and what else changes the tables.                            *)

\* A session delivers the check-in and the member says yes: nothing changes.
Accept(p) ==
  /\ p \in open
  /\ open' = open \ {p}
  /\ UNCHANGED <<dataVars, rowVars, passVars, declining, invited, twice, groupFaults>>

\* The member says no: group_response looks the group up.
PostDecline(p) ==
  /\ p \in open
  /\ open' = open \ {p}
  /\ declining' = IF status[p[1]] \in {"none", "declined"} THEN declining ELSE declining \cup {p}
  /\ UNCHANGED <<dataVars, rowVars, passVars, invited, twice, groupFaults>>

\* Its update.
WriteDecline(p) ==
  /\ p \in declining
  /\ declining' = declining \ {p}
  /\ SetStatus(p[1], "declined")
  /\ UNCHANGED <<dataVars, crew, about, passVars, open, invited, twice, groupFaults>>

\* The scoring of one-to-one introductions goes on: somebody skips somebody.
SkipPair(c) ==
  /\ c \cap forgotten = {} /\ Cardinality(skipped) < MaxSkips
  /\ skipped' = skipped \cup {c}
  /\ UNCHANGED <<fans, score, forgotten, rowVars, passVars, sessionVars, groupFaults>>

\* The deletion of an account: every row of the service that names the user.
\* What the brain has queued for others, or a session has delivered, stays.
EraseMember(u) ==
  /\ u \in forgotten \/ Cardinality(forgotten) < MaxForgotten
  /\ forgotten' = forgotten \cup {u}
  /\ fans' = [n \in Nodes |-> fans[n] \ {u}]
  /\ score' = [c \in CrowdCouples |-> IF u \in c THEN 0 ELSE score[c]]
  /\ skipped' = {c \in skipped : u \notin c}
  /\ status' = [g \in GroupIds |-> IF u \in crew[g] THEN "none" ELSE status[g]]
  /\ UNCHANGED <<crew, about, passVars, sessionVars, groupFaults>>

-------------------------------------------------------------------------------
Cluster ==
  \/ StartClustering \/ ChooseTop \/ Propose \/ NodeFails
  \/ \E n \in Nodes : ReadNode(n)

SurfaceGroups ==
  \/ StartSurfacing \/ EndGroup \/ EndFails \/ FinishClustering \/ CrashClustering
  \/ \E g \in GroupIds : BeginGroup(g) \/ BeginFails(g)
  \/ \E m \in Crowd : Ask(m) \/ AskRefused(m) \/ AskUnanswered(m)

MemberStep(p) == Accept(p) \/ PostDecline(p) \/ WriteDecline(p)

GroupNext ==
  \/ Cluster \/ SurfaceGroups
  \/ \E p \in Places : MemberStep(p)
  \/ \E c \in CrowdCouples : SkipPair(c)
  \/ \E u \in Crowd : EraseMember(u)

GroupSpec == GroupInit /\ [][GroupNext]_groupVars

-------------------------------------------------------------------------------
(* Properties.                                                               *)

GroupTypeOK ==
  /\ fans \in [Nodes -> SUBSET Crowd] /\ score \in [CrowdCouples -> Weights]
  /\ skipped \subseteq CrowdCouples /\ forgotten \subseteq Crowd
  /\ status \in [GroupIds -> {"none", "proposed", "surfacing", "surfaced", "declined"}]
  /\ crew \in [GroupIds -> SUBSET Crowd] /\ about \in [GroupIds -> Nodes]
  /\ \A g \in Rows : crew[g] # {}
  /\ at \in {"idle", "nodes", "surfacing"} /\ ahead \subseteq Nodes
  /\ node \in Nodes \cup {None} /\ crews \subseteq SUBSET Crowd /\ top \subseteq Crowd
  /\ node = None => crews = {} /\ top = {}
  /\ batch \subseteq GroupIds /\ current \in GroupIds \cup {None}
  /\ unasked \subseteq Crowd /\ allQueued \in BOOLEAN
  /\ current # None => unasked \subseteq crew[current]
  /\ current = None => unasked = {}
  /\ open \subseteq invited /\ declining \subseteq invited
  /\ invited \subseteq {p \in Places : p[2] \in crew[p[1]]}
  /\ twice \in BOOLEAN
  /\ groupFaults \in Nat

\* "mutually-compatible people": the members of a group nobody left suit one
\* another pair by pair, they are neither too few nor too many, and nobody the
\* group has room for was left out.
GroupIsCrew ==
  \A g \in Rows : crew[g] \cap forgotten = {} =>
    /\ Cardinality(crew[g]) \in MinSize .. MaxSize
    /\ \A c \in Within(crew[g]) : score[c] >= Threshold
    /\ Cardinality(crew[g]) < MaxSize =>
         \A v \in fans[about[g]] \ crew[g] : \E u \in crew[g] :
           score[{u, v}] < Threshold \/ {u, v} \in skipped

\* "SURFACED: all members received the intro": each member's check-in was stored;
\* and whatever fails or crashes, nobody is asked about the same group again.
MembersAskedOnce ==
  /\ ~twice
  /\ \A g \in Rows : status[g] = "surfaced" => \A m \in crew[g] : <<g, m>> \in invited

\* A declined group is not revived: not by the pass that finds it again, nor by
\* one that reads the proposed groups; only by the pass that is asking its members.
DeclineStands ==
  [][\A g \in GroupIds : status[g] = "declined" /\ g # current =>
       status'[g] \in {"declined", "none"}]_groupVars

\* While nothing fails, the groups of a node that are still on have no member in
\* common, whatever is declined, found again or erased meanwhile.
CrewsApart ==
  groupFaults = 0 => \A g, h \in Rows :
    g # h /\ about[g] = about[h] /\ status[g] # "declined" /\ status[h] # "declined"
    => crew[g] \cap crew[h] = {}
===============================================================================
