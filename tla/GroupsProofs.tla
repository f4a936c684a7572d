------------------------------ MODULE GroupsProofs -----------------------------
(***************************************************************************)
(* Group introductions, for any crowd, any interests, any number of groups *)
(* and of failures, and any correct way to find and to trim cliques.       *)
(***************************************************************************)
EXTENDS Groups, FiniteSetTheorems, TLAPS

\* Where the pass is, its slots agree.
PassInOrder ==
  /\ at # "surfacing" => batch = {} /\ current = None
  /\ at # "nodes" => node = None /\ ahead = {}
  /\ node \notin ahead

\* Nobody was asked about a group that is only proposed or still to come; those
\* the current one has left have not been, the others have unless a call failed;
\* and who declined had been asked.
AskedInOrder ==
  /\ \A g \in GroupIds : status[g] = "proposed" \/ g \in batch =>
       g # current /\ \A m \in Crowd : <<g, m>> \notin invited
  /\ \A m \in unasked : <<current, m>> \notin invited
  /\ current # None /\ allQueued => \A m \in crew[current] \ unasked : <<current, m>> \in invited
  /\ \A g \in GroupIds : status[g] = "declined" => \E m \in Crowd : <<g, m>> \in invited

-------------------------------------------------------------------------------
LEMMA InitGroups ==
  GroupInit => GroupTypeOK /\ PassInOrder /\ AskedInOrder /\ MembersAskedOnce
BY GroupAssumption
DEF GroupInit, PassIdle, GroupTypeOK, PassInOrder, AskedInOrder, MembersAskedOnce, Rows, Places

\* A list of candidates is of groups of the people it was made of.
LEMMA CandidatesWithin ==
  ASSUME NEW us \in SUBSET Crowd, NEW list \in CandidateLists(us)
  PROVE  list \subseteq SUBSET us
<1>. DEFINE cliques == {c \in FindCliques(Adjacency(us, score, skipped)) : Fitted(c, score) # {}}
<1>1. PICK f \in [cliques -> SUBSET us] : list = {f[c] : c \in cliques}
  BY DEF CandidateLists
<1>. QED  BY <1>1

\* The types.
LEMMA GroupTypesKept == GroupTypeOK /\ [GroupNext]_groupVars => GroupTypeOK'
<1>. SUFFICES ASSUME GroupTypeOK, [GroupNext]_groupVars PROVE GroupTypeOK'
  OBVIOUS
<1>. USE DEF GroupTypeOK, Rows, Places
<1>1. ASSUME StartClustering PROVE GroupTypeOK'
  BY <1>1 DEF StartClustering, dataVars, rowVars, passVars, sessionVars
<1>2. ASSUME NEW n \in Nodes, ReadNode(n) PROVE GroupTypeOK'
  <2>1. \A list \in CandidateLists(fans[n]) : list \subseteq SUBSET Crowd
    BY CandidatesWithin
  <2>2. n # None
    BY GroupAssumption
  <2>. QED  BY <1>2, <2>1, <2>2 DEF ReadNode, dataVars, rowVars, passVars, sessionVars
<1>3. ASSUME ChooseTop PROVE GroupTypeOK'
  <2>1. \A c \in crews : c \subseteq Crowd
    OBVIOUS
  <2>. QED  BY <1>3, <2>1 DEF ChooseTop, dataVars, rowVars, passVars, sessionVars
<1>4. ASSUME Propose PROVE GroupTypeOK'
  <2>1. node \in Nodes /\ top \in SUBSET Crowd
    BY <1>4 DEF Propose
  <2>2. CASE SameGroup # {}
    BY <1>4, <2>2 DEF Propose, NodeDone, Rows, Places, dataVars, rowVars, passVars, sessionVars
  <2>3. CASE SameGroup = {}
    <3>1. PICK g \in {h \in GroupIds : crew[h] = {}} :
            /\ status' = [status EXCEPT ![g] = "proposed"]
            /\ crew' = [crew EXCEPT ![g] = top] /\ about' = [about EXCEPT ![g] = node]
      BY <1>4, <2>3 DEF Propose
    <3>. QED  BY <1>4, <2>1, <3>1 DEF Propose, NodeDone, Rows, Places, dataVars, rowVars, passVars, sessionVars
  <2>. QED  BY <2>2, <2>3
<1>5. ASSUME NodeFails PROVE GroupTypeOK'
  BY <1>5 DEF NodeFails, NodeDone, GroupFault, dataVars, rowVars, passVars, sessionVars
<1>6. ASSUME StartSurfacing PROVE GroupTypeOK'
  BY <1>6 DEF StartSurfacing, dataVars, rowVars, passVars, sessionVars
<1>7. ASSUME NEW g \in GroupIds, BeginGroup(g) PROVE GroupTypeOK'
  <2>1. g # None /\ crew[g] \subseteq Crowd
    BY GroupAssumption
  <2>2. status' \in [GroupIds -> {"none", "proposed", "surfacing", "surfaced", "declined"}]
    BY <1>7 DEF BeginGroup, SetStatus
  <2>3. Rows' = Rows
    BY <1>7 DEF BeginGroup, SetStatus
  <2>. QED  BY <1>7, <2>1, <2>2, <2>3 DEF BeginGroup, Take, dataVars, rowVars, passVars, sessionVars
<1>8. ASSUME NEW g \in GroupIds, BeginFails(g) PROVE GroupTypeOK'
  BY <1>8 DEF BeginFails, Take, GroupFault, dataVars, rowVars, passVars, sessionVars
<1>9. ASSUME NEW m \in Crowd, Ask(m) PROVE GroupTypeOK'
  BY <1>9 DEF Ask, Call, Invite, dataVars, rowVars, passVars, sessionVars
<1>10. ASSUME NEW m \in Crowd, AskRefused(m) PROVE GroupTypeOK'
  BY <1>10 DEF AskRefused, Call, dataVars, rowVars, passVars, sessionVars
<1>11. ASSUME NEW m \in Crowd, AskUnanswered(m) PROVE GroupTypeOK'
  <2>1. current \in GroupIds /\ m \in crew[current]
    BY <1>11 DEF AskUnanswered, Call
  <2>2. groupFaults' \in Nat
    BY <1>11 DEF AskUnanswered, GroupFault
  <2>3. /\ open' \subseteq invited' /\ declining' \subseteq invited'
        /\ invited' \subseteq {p \in Places : p[2] \in crew'[p[1]]}
        /\ twice' \in BOOLEAN
    BY <1>11, <2>1 DEF AskUnanswered, Invite, dataVars, rowVars, passVars, sessionVars
  <2>. HIDE DEF Places
  <2>. QED  BY <1>11, <2>1, <2>2, <2>3 DEF AskUnanswered, Call, Invite, dataVars, rowVars, passVars, sessionVars
<1>12. ASSUME EndGroup PROVE GroupTypeOK'
  BY <1>12 DEF EndGroup, GroupDone, SetStatus, Rows, dataVars, rowVars, passVars, sessionVars
<1>13. ASSUME EndFails PROVE GroupTypeOK'
  BY <1>13 DEF EndFails, GroupDone, GroupFault, dataVars, rowVars, passVars, sessionVars
<1>14. ASSUME FinishClustering PROVE GroupTypeOK'
  BY <1>14 DEF FinishClustering, StopClustering, NodeDone, GroupDone, dataVars, rowVars, passVars, sessionVars
<1>15. ASSUME CrashClustering PROVE GroupTypeOK'
  BY <1>15 DEF CrashClustering, StopClustering, NodeDone, GroupDone, GroupFault, dataVars, rowVars, passVars, sessionVars
<1>16. ASSUME NEW p \in Places, Accept(p) PROVE GroupTypeOK'
  BY <1>16 DEF Accept, dataVars, rowVars, passVars, sessionVars
<1>17. ASSUME NEW p \in Places, PostDecline(p) PROVE GroupTypeOK'
  BY <1>17 DEF PostDecline, dataVars, rowVars, passVars, sessionVars
<1>18. ASSUME NEW p \in Places, WriteDecline(p) PROVE GroupTypeOK'
  BY <1>18 DEF WriteDecline, SetStatus, Rows, Places, dataVars, rowVars, passVars, sessionVars
<1>19. ASSUME NEW c \in CrowdCouples, SkipPair(c) PROVE GroupTypeOK'
  BY <1>19 DEF SkipPair, dataVars, rowVars, passVars, sessionVars
<1>20. ASSUME NEW u \in Crowd, EraseMember(u) PROVE GroupTypeOK'
  <2>1. score' \in [CrowdCouples -> Weights]
    BY <1>20, GroupAssumption DEF EraseMember
  <2>2. fans' \in [Nodes -> SUBSET Crowd] /\ skipped' \subseteq CrowdCouples /\ forgotten' \subseteq Crowd
    BY <1>20 DEF EraseMember
  <2>3. /\ status' \in [GroupIds -> {"none", "proposed", "surfacing", "surfaced", "declined"}]
        /\ Rows' \subseteq Rows
    BY <1>20 DEF EraseMember
  <2>. QED  BY <1>20, <2>1, <2>2, <2>3 DEF EraseMember, dataVars, rowVars, passVars, sessionVars
<1>21. CASE UNCHANGED groupVars
  BY <1>21 DEF groupVars, dataVars, rowVars, passVars, sessionVars
<1>. HIDE DEF GroupTypeOK
<1>. QED
  BY <1>1, <1>2, <1>3, <1>4, <1>5, <1>6, <1>7, <1>8, <1>9, <1>10, <1>11,
     <1>12, <1>13, <1>14, <1>15, <1>16, <1>17, <1>18, <1>19, <1>20, <1>21
  DEF GroupNext, Cluster, SurfaceGroups, MemberStep

\* The pass keeps its order.
LEMMA OrderKept == GroupTypeOK /\ PassInOrder /\ [GroupNext]_groupVars => PassInOrder'
<1>. SUFFICES ASSUME GroupTypeOK /\ PassInOrder, [GroupNext]_groupVars PROVE PassInOrder'
  OBVIOUS
<1>. USE DEF GroupTypeOK, PassInOrder
<1>1. ASSUME StartClustering PROVE PassInOrder'
  BY <1>1, GroupAssumption DEF StartClustering, dataVars, rowVars, passVars, sessionVars
<1>2. ASSUME NEW n \in Nodes, ReadNode(n) PROVE PassInOrder'
  BY <1>2, GroupAssumption DEF ReadNode, dataVars, rowVars, passVars, sessionVars
<1>3. ASSUME ChooseTop PROVE PassInOrder'
  BY <1>3, GroupAssumption DEF ChooseTop, dataVars, rowVars, passVars, sessionVars
<1>4. ASSUME Propose PROVE PassInOrder'
  BY <1>4, GroupAssumption DEF Propose, NodeDone, SameGroup, Rows, dataVars, rowVars, passVars, sessionVars
<1>5. ASSUME NodeFails PROVE PassInOrder'
  BY <1>5, GroupAssumption DEF NodeFails, NodeDone, GroupFault, dataVars, rowVars, passVars, sessionVars
<1>6. ASSUME StartSurfacing PROVE PassInOrder'
  BY <1>6, GroupAssumption DEF StartSurfacing, dataVars, rowVars, passVars, sessionVars
<1>7. ASSUME NEW g \in GroupIds, BeginGroup(g) PROVE PassInOrder'
  BY <1>7, GroupAssumption DEF BeginGroup, Take, SetStatus, Rows, dataVars, rowVars, passVars, sessionVars
<1>8. ASSUME NEW g \in GroupIds, BeginFails(g) PROVE PassInOrder'
  BY <1>8, GroupAssumption DEF BeginFails, Take, GroupFault, dataVars, rowVars, passVars, sessionVars
<1>9. ASSUME NEW m \in Crowd, Ask(m) PROVE PassInOrder'
  BY <1>9, GroupAssumption DEF Ask, Call, Invite, dataVars, rowVars, passVars, sessionVars
<1>10. ASSUME NEW m \in Crowd, AskRefused(m) PROVE PassInOrder'
  BY <1>10, GroupAssumption DEF AskRefused, Call, dataVars, rowVars, passVars, sessionVars
<1>11. ASSUME NEW m \in Crowd, AskUnanswered(m) PROVE PassInOrder'
  BY <1>11, GroupAssumption DEF AskUnanswered, Call, Invite, GroupFault, dataVars, rowVars, passVars, sessionVars
<1>12. ASSUME EndGroup PROVE PassInOrder'
  BY <1>12, GroupAssumption DEF EndGroup, GroupDone, SetStatus, Rows, dataVars, rowVars, passVars, sessionVars
<1>13. ASSUME EndFails PROVE PassInOrder'
  BY <1>13, GroupAssumption DEF EndFails, GroupDone, GroupFault, dataVars, rowVars, passVars, sessionVars
<1>14. ASSUME FinishClustering PROVE PassInOrder'
  BY <1>14, GroupAssumption DEF FinishClustering, StopClustering, NodeDone, GroupDone, dataVars, rowVars, passVars, sessionVars
<1>15. ASSUME CrashClustering PROVE PassInOrder'
  BY <1>15, GroupAssumption DEF CrashClustering, StopClustering, NodeDone, GroupDone, GroupFault, dataVars, rowVars, passVars, sessionVars
<1>16. ASSUME NEW p \in Places, Accept(p) PROVE PassInOrder'
  BY <1>16, GroupAssumption DEF Accept, dataVars, rowVars, passVars, sessionVars
<1>17. ASSUME NEW p \in Places, PostDecline(p) PROVE PassInOrder'
  BY <1>17, GroupAssumption DEF PostDecline, dataVars, rowVars, passVars, sessionVars
<1>18. ASSUME NEW p \in Places, WriteDecline(p) PROVE PassInOrder'
  BY <1>18, GroupAssumption DEF WriteDecline, SetStatus, Rows, Places, dataVars, rowVars, passVars, sessionVars
<1>19. ASSUME NEW c \in CrowdCouples, SkipPair(c) PROVE PassInOrder'
  BY <1>19, GroupAssumption DEF SkipPair, dataVars, rowVars, passVars, sessionVars
<1>20. ASSUME NEW u \in Crowd, EraseMember(u) PROVE PassInOrder'
  BY <1>20, GroupAssumption DEF EraseMember, dataVars, rowVars, passVars, sessionVars
<1>21. CASE UNCHANGED groupVars
  BY <1>21 DEF groupVars, dataVars, rowVars, passVars, sessionVars
<1>. HIDE DEF GroupTypeOK, PassInOrder
<1>. QED
  BY <1>1, <1>2, <1>3, <1>4, <1>5, <1>6, <1>7, <1>8, <1>9, <1>10, <1>11,
     <1>12, <1>13, <1>14, <1>15, <1>16, <1>17, <1>18, <1>19, <1>20, <1>21
  DEF GroupNext, Cluster, SurfaceGroups, MemberStep

\* What was asked is kept in order.
LEMMA AskedKept == GroupTypeOK /\ PassInOrder /\ AskedInOrder /\ MembersAskedOnce /\ [GroupNext]_groupVars => (AskedInOrder /\ MembersAskedOnce)'
<1>. SUFFICES ASSUME GroupTypeOK /\ PassInOrder /\ AskedInOrder /\ MembersAskedOnce, [GroupNext]_groupVars PROVE (AskedInOrder /\ MembersAskedOnce)'
  OBVIOUS
<1>. USE DEF GroupTypeOK, PassInOrder, AskedInOrder, MembersAskedOnce, Rows, Places
<1>1. ASSUME StartClustering PROVE (AskedInOrder /\ MembersAskedOnce)'
  BY <1>1 DEF StartClustering, dataVars, rowVars, passVars, sessionVars
<1>2. ASSUME NEW n \in Nodes, ReadNode(n) PROVE (AskedInOrder /\ MembersAskedOnce)'
  BY <1>2 DEF ReadNode, dataVars, rowVars, passVars, sessionVars
<1>3. ASSUME ChooseTop PROVE (AskedInOrder /\ MembersAskedOnce)'
  BY <1>3 DEF ChooseTop, dataVars, rowVars, passVars, sessionVars
<1>4. ASSUME Propose PROVE (AskedInOrder /\ MembersAskedOnce)'
  <2>1. CASE SameGroup # {}
    BY <1>4, <2>1 DEF Propose, NodeDone, dataVars, rowVars, passVars, sessionVars
  <2>2. CASE SameGroup = {}
    <3>1. PICK g \in {h \in GroupIds : crew[h] = {}} :
            /\ status' = [status EXCEPT ![g] = "proposed"]
            /\ crew' = [crew EXCEPT ![g] = top] /\ about' = [about EXCEPT ![g] = node]
      BY <1>4, <2>2 DEF Propose
    <3>2. \A m \in Crowd : <<g, m>> \notin invited
      BY <3>1
    <3>3. current = None /\ unasked = {}
      BY <1>4 DEF Propose
    <3>6. /\ \A h \in GroupIds : h # g => status'[h] = status[h]
          /\ status'[g] = "proposed" /\ current' = None /\ unasked' = {} /\ UNCHANGED <<batch, invited>>
      BY <1>4, <3>1, <3>3 DEF Propose, dataVars, rowVars, passVars, sessionVars
    <3>4. AskedInOrder'
      BY <3>2, <3>3, <3>6, GroupAssumption
    <3>5. MembersAskedOnce'
      BY <1>4, <3>1, <3>3 DEF Propose, NodeDone, dataVars, rowVars, passVars, sessionVars
    <3>. QED  BY <3>4, <3>5
  <2>. QED  BY <2>1, <2>2
<1>5. ASSUME NodeFails PROVE (AskedInOrder /\ MembersAskedOnce)'
  BY <1>5 DEF NodeFails, NodeDone, GroupFault, dataVars, rowVars, passVars, sessionVars
<1>6. ASSUME StartSurfacing PROVE (AskedInOrder /\ MembersAskedOnce)'
  BY <1>6 DEF StartSurfacing, dataVars, rowVars, passVars, sessionVars
<1>7. ASSUME NEW g \in GroupIds, BeginGroup(g) PROVE (AskedInOrder /\ MembersAskedOnce)'
  <2>1. current = None /\ current' = g /\ g \in batch /\ g # None
    BY <1>7, GroupAssumption DEF BeginGroup, Take
  <2>2. \A h \in GroupIds : status'[h] # "surfacing" => status'[h] = status[h]
    BY <1>7 DEF BeginGroup, SetStatus
  <2>3. status'[g] # "proposed" /\ status'[g] # "declined"
    BY <1>7, <2>1 DEF BeginGroup, SetStatus
  <2>4. AskedInOrder'
    BY <1>7, <2>1, <2>2, <2>3 DEF BeginGroup, Take, dataVars, rowVars, passVars, sessionVars
  <2>5. MembersAskedOnce'
    BY <1>7, <2>2 DEF BeginGroup, SetStatus, dataVars, rowVars, passVars, sessionVars
  <2>. QED  BY <2>4, <2>5
<1>8. ASSUME NEW g \in GroupIds, BeginFails(g) PROVE (AskedInOrder /\ MembersAskedOnce)'
  BY <1>8 DEF BeginFails, Take, GroupFault, dataVars, rowVars, passVars, sessionVars
<1>9. ASSUME NEW m \in Crowd, Ask(m) PROVE (AskedInOrder /\ MembersAskedOnce)'
  BY <1>9 DEF Ask, Call, Invite, dataVars, rowVars, passVars, sessionVars
<1>10. ASSUME NEW m \in Crowd, AskRefused(m) PROVE (AskedInOrder /\ MembersAskedOnce)'
  BY <1>10 DEF AskRefused, Call, dataVars, rowVars, passVars, sessionVars
<1>11. ASSUME NEW m \in Crowd, AskUnanswered(m) PROVE (AskedInOrder /\ MembersAskedOnce)'
  BY <1>11 DEF AskUnanswered, Call, Invite, GroupFault, dataVars, rowVars, passVars, sessionVars
<1>12. ASSUME EndGroup PROVE (AskedInOrder /\ MembersAskedOnce)'
  <2>1. None \notin GroupIds
    BY GroupAssumption
  <2>4. /\ \A h \in GroupIds : status'[h] \in {"proposed", "declined"} => status'[h] = status[h]
        /\ current' = None /\ unasked' = {} /\ UNCHANGED <<batch, invited>>
    BY <1>12 DEF EndGroup, GroupDone, SetStatus, dataVars, rowVars, passVars, sessionVars
  <2>2. AskedInOrder'
    BY <2>1, <2>4
  <2>3. MembersAskedOnce'
    BY <1>12, <2>1 DEF EndGroup, GroupDone, SetStatus, dataVars, rowVars, passVars, sessionVars
  <2>. QED  BY <2>2, <2>3
<1>13. ASSUME EndFails PROVE (AskedInOrder /\ MembersAskedOnce)'
  <2>1. None \notin GroupIds
    BY GroupAssumption
  <2>. QED  BY <1>13, <2>1 DEF EndFails, GroupDone, dataVars, rowVars, passVars, sessionVars
<1>14. ASSUME FinishClustering PROVE (AskedInOrder /\ MembersAskedOnce)'
  BY <1>14 DEF FinishClustering, StopClustering, NodeDone, GroupDone, dataVars, rowVars, passVars, sessionVars
<1>15. ASSUME CrashClustering PROVE (AskedInOrder /\ MembersAskedOnce)'
  <2>1. None \notin GroupIds
    BY GroupAssumption
  <2>. QED  BY <1>15, <2>1 DEF CrashClustering, StopClustering, NodeDone, GroupDone, dataVars, rowVars, passVars, sessionVars
<1>16. ASSUME NEW p \in Places, Accept(p) PROVE (AskedInOrder /\ MembersAskedOnce)'
  BY <1>16 DEF Accept, dataVars, rowVars, passVars, sessionVars
<1>17. ASSUME NEW p \in Places, PostDecline(p) PROVE (AskedInOrder /\ MembersAskedOnce)'
  BY <1>17 DEF PostDecline, dataVars, rowVars, passVars, sessionVars
<1>18. ASSUME NEW p \in Places, WriteDecline(p) PROVE (AskedInOrder /\ MembersAskedOnce)'
  <2>0. p \in invited /\ p \in GroupIds \X Crowd
    BY <1>18 DEF WriteDecline
  <2>1. PICK g \in GroupIds, m \in Crowd : p = <<g, m>> /\ <<g, m>> \in invited
    BY <2>0
  <2>2. /\ status' = IF g \in Rows THEN [status EXCEPT ![g] = "declined"] ELSE status
        /\ UNCHANGED <<crew, current, batch, unasked, allQueued, invited, twice>>
    BY <1>18, <2>1 DEF WriteDecline, SetStatus, dataVars, rowVars, passVars, sessionVars
  <2>3. \A h \in GroupIds : status'[h] = status[h] \/ (h = g /\ status'[h] = "declined")
    BY <2>2
  <2>4. AskedInOrder'
    BY <2>1, <2>2, <2>3
  <2>5. MembersAskedOnce'
    BY <2>2, <2>3
  <2>. QED  BY <2>4, <2>5
<1>19. ASSUME NEW c \in CrowdCouples, SkipPair(c) PROVE (AskedInOrder /\ MembersAskedOnce)'
  BY <1>19 DEF SkipPair, dataVars, rowVars, passVars, sessionVars
<1>20. ASSUME NEW u \in Crowd, EraseMember(u) PROVE (AskedInOrder /\ MembersAskedOnce)'
  BY <1>20 DEF EraseMember, dataVars, rowVars, passVars, sessionVars
<1>21. CASE UNCHANGED groupVars
  BY <1>21 DEF groupVars, dataVars, rowVars, passVars, sessionVars
<1>. HIDE DEF GroupTypeOK, PassInOrder, AskedInOrder, MembersAskedOnce, Rows, Places
<1>. QED
  BY <1>1, <1>2, <1>3, <1>4, <1>5, <1>6, <1>7, <1>8, <1>9, <1>10, <1>11,
     <1>12, <1>13, <1>14, <1>15, <1>16, <1>17, <1>18, <1>19, <1>20, <1>21
  DEF GroupNext, Cluster, SurfaceGroups, MemberStep

-------------------------------------------------------------------------------
(* Groups of a node keep apart.                                              *)

\* While nothing fails: groups that are on, or that the pass may turn on again,
\* are apart; a proposed group's node is done, and the pass will come to it; and
\* the candidate about to be saved is apart from what is on at its node.
Live(g) == status[g] # "declined" \/ g = current
LiveApart ==
  \A g, h \in Rows : g # h /\ about[g] = about[h] /\ Live(g) /\ Live(h) => crew[g] \cap crew[h] = {}
ProposedAhead ==
  \A g \in Rows : status[g] = "proposed" =>
    /\ at # "idle"
    /\ at = "nodes" => about[g] \notin ahead /\ about[g] # node
    /\ at = "surfacing" => g \in batch
TopApart ==
  top # {} => \A g \in Rows : about[g] = node /\ status[g] # "declined" => top \cap crew[g] = {}
ApartInOrder == groupFaults = 0 => LiveApart /\ ProposedAhead /\ TopApart

LEMMA InitApart == GroupInit => ApartInOrder
BY DEF GroupInit, PassIdle, ApartInOrder, LiveApart, ProposedAhead, TopApart, Rows

\* They stay apart.
LEMMA ApartKept == GroupTypeOK /\ PassInOrder /\ AskedInOrder /\ ApartInOrder /\ [GroupNext]_groupVars => ApartInOrder'
<1>. SUFFICES ASSUME GroupTypeOK /\ PassInOrder /\ AskedInOrder /\ ApartInOrder, [GroupNext]_groupVars PROVE ApartInOrder'
  OBVIOUS
<1>. USE DEF GroupTypeOK, PassInOrder, AskedInOrder, ApartInOrder, Live, LiveApart, ProposedAhead, TopApart, Rows, Places
<1>1. ASSUME StartClustering PROVE ApartInOrder'
  BY <1>1 DEF StartClustering, dataVars, rowVars, passVars, sessionVars
<1>2. ASSUME NEW n \in Nodes, ReadNode(n) PROVE ApartInOrder'
  BY <1>2 DEF ReadNode, dataVars, rowVars, passVars, sessionVars
<1>3. ASSUME ChooseTop PROVE ApartInOrder'
  <2>1. top' # {} => node' = node /\ \A s \in Taken(node) : top' \cap s = {}
    BY <1>3 DEF ChooseTop
  <2>2. at = "nodes"
    BY <1>3 DEF ChooseTop
  <2>3. \A g \in Rows : groupFaults = 0 /\ about[g] = node /\ status[g] # "declined" => crew[g] \in Taken(node)
    BY <2>2 DEF Taken
  <2>4. UNCHANGED <<status, crew, about, current, at, ahead, batch, groupFaults>> /\ node' \in {node, None}
    BY <1>3 DEF ChooseTop, dataVars, rowVars, passVars, sessionVars
  <2>. QED  BY <2>1, <2>3, <2>4, GroupAssumption
<1>4. ASSUME Propose PROVE ApartInOrder'
  <2>0. None \notin Nodes /\ None \notin GroupIds
    BY GroupAssumption
  <2>1. node # None /\ at = "nodes" /\ current = None /\ top # {}
    BY <1>4 DEF Propose
  <2>2. CASE SameGroup # {}
    BY <1>4, <2>0, <2>2, <2>1 DEF Propose, NodeDone, dataVars, rowVars, passVars, sessionVars
  <2>3. CASE SameGroup = {}
    <3>1. PICK g \in {h \in GroupIds : crew[h] = {}} :
            /\ status' = [status EXCEPT ![g] = "proposed"]
            /\ crew' = [crew EXCEPT ![g] = top] /\ about' = [about EXCEPT ![g] = node]
      BY <1>4, <2>3 DEF Propose
    <3>2. /\ \A h \in GroupIds : h # g => status'[h] = status[h] /\ crew'[h] = crew[h] /\ about'[h] = about[h]
          /\ status'[g] = "proposed" /\ crew'[g] = top /\ about'[g] = node
          /\ UNCHANGED <<current, at, ahead, batch, groupFaults>> /\ node' = None /\ top' = {}
      BY <1>4, <3>1 DEF Propose, NodeDone, dataVars, rowVars, passVars, sessionVars
    <3>3. g \notin Rows /\ node \notin ahead /\ node \in Nodes
      BY <2>1, <3>1
    <3>4. ASSUME groupFaults = 0 PROVE LiveApart'
      BY <2>0, <3>2, <3>3, <3>4, <2>1
    <3>5. ASSUME groupFaults = 0 PROVE ProposedAhead'
      BY <3>2, <3>3, <3>5, <2>1, GroupAssumption
    <3>. QED  BY <3>2, <3>4, <3>5
  <2>. QED  BY <2>2, <2>3
<1>5. ASSUME NodeFails PROVE ApartInOrder'
  <2>1. groupFaults' # 0
    BY <1>5 DEF NodeFails, GroupFault
  <2>. QED  BY <2>1
<1>6. ASSUME StartSurfacing PROVE ApartInOrder'
  BY <1>6 DEF StartSurfacing, dataVars, rowVars, passVars, sessionVars
<1>7. ASSUME NEW g \in GroupIds, BeginGroup(g) PROVE ApartInOrder'
  <2>1. /\ current = None /\ current' = g /\ g \in batch /\ batch' = batch \ {g}
        /\ UNCHANGED <<crew, about, at, ahead, node, top, groupFaults>> /\ at = "surfacing"
    BY <1>7 DEF BeginGroup, Take, dataVars, rowVars, passVars, sessionVars
  <2>2. /\ \A h \in GroupIds : h # g => status'[h] = status[h]
        /\ g \in Rows => status'[g] = "surfacing"
        /\ g \notin Rows => status'[g] = "none"
    BY <1>7 DEF BeginGroup, SetStatus
  <2>3. status[g] # "declined"
    BY <2>1
  <2>4. Rows' = Rows
    BY <2>2
  <2>5. ASSUME groupFaults = 0 PROVE LiveApart'
    BY <2>1, <2>2, <2>3, <2>4, <2>5
  <2>6. ASSUME groupFaults = 0 PROVE ProposedAhead' /\ TopApart'
    BY <2>1, <2>2, <2>4, <2>6
  <2>. QED  BY <2>1, <2>5, <2>6
<1>8. ASSUME NEW g \in GroupIds, BeginFails(g) PROVE ApartInOrder'
  <2>1. groupFaults' # 0
    BY <1>8 DEF BeginFails, GroupFault
  <2>. QED  BY <2>1
<1>9. ASSUME NEW m \in Crowd, Ask(m) PROVE ApartInOrder'
  BY <1>9 DEF Ask, Call, Invite, dataVars, rowVars, passVars, sessionVars
<1>10. ASSUME NEW m \in Crowd, AskRefused(m) PROVE ApartInOrder'
  BY <1>10 DEF AskRefused, Call, dataVars, rowVars, passVars, sessionVars
<1>11. ASSUME NEW m \in Crowd, AskUnanswered(m) PROVE ApartInOrder'
  <2>1. groupFaults' # 0
    BY <1>11 DEF AskUnanswered, GroupFault
  <2>. QED  BY <2>1
<1>12. ASSUME EndGroup PROVE ApartInOrder'
  <2>1. /\ current # None /\ current' = None
        /\ UNCHANGED <<crew, about, at, ahead, node, top, batch, groupFaults>> /\ at = "surfacing"
    BY <1>12 DEF EndGroup, GroupDone, dataVars, rowVars, passVars, sessionVars
  <2>2. /\ \A h \in GroupIds : h # current => status'[h] = status[h]
        /\ current \in Rows => status'[current] \in {"surfaced", "surfacing"}
        /\ current \notin Rows => status'[current] = "none"
    BY <1>12 DEF EndGroup, SetStatus
  <2>4. Rows' = Rows
    BY <2>2
  <2>5. ASSUME groupFaults = 0 PROVE LiveApart'
    BY <2>1, <2>2, <2>4, <2>5, GroupAssumption
  <2>6. ASSUME groupFaults = 0 PROVE ProposedAhead' /\ TopApart'
    BY <2>1, <2>2, <2>4, <2>6
  <2>. QED  BY <2>1, <2>5, <2>6
<1>13. ASSUME EndFails PROVE ApartInOrder'
  <2>1. groupFaults' # 0
    BY <1>13 DEF EndFails, GroupFault
  <2>. QED  BY <2>1
<1>14. ASSUME FinishClustering PROVE ApartInOrder'
  BY <1>14 DEF FinishClustering, StopClustering, NodeDone, GroupDone, dataVars, rowVars, passVars, sessionVars
<1>15. ASSUME CrashClustering PROVE ApartInOrder'
  <2>1. groupFaults' # 0
    BY <1>15 DEF CrashClustering, GroupFault
  <2>. QED  BY <2>1
<1>16. ASSUME NEW p \in Places, Accept(p) PROVE ApartInOrder'
  BY <1>16 DEF Accept, dataVars, rowVars, passVars, sessionVars
<1>17. ASSUME NEW p \in Places, PostDecline(p) PROVE ApartInOrder'
  BY <1>17 DEF PostDecline, dataVars, rowVars, passVars, sessionVars
<1>18. ASSUME NEW p \in Places, WriteDecline(p) PROVE ApartInOrder'
  <2>1. /\ \A h \in GroupIds : status'[h] = status[h] \/ (h \in Rows /\ status'[h] = "declined")
        /\ UNCHANGED <<crew, about, current, at, ahead, node, top, batch, groupFaults>>
    <3>1. PICK g \in GroupIds : g = p[1]
      OBVIOUS
    <3>2. status' = IF g \in Rows THEN [status EXCEPT ![g] = "declined"] ELSE status
      BY <1>18, <3>1 DEF WriteDecline, SetStatus
    <3>3. UNCHANGED <<crew, about, current, at, ahead, node, top, batch, groupFaults>>
      BY <1>18 DEF WriteDecline, dataVars, rowVars, passVars, sessionVars
    <3>4. status \in [GroupIds -> {"none", "proposed", "surfacing", "surfaced", "declined"}]
      OBVIOUS
    <3>. QED  BY <3>2, <3>3, <3>4
  <2>2. Rows' = Rows
    BY <2>1
  <2>. QED  BY <2>1, <2>2
<1>19. ASSUME NEW c \in CrowdCouples, SkipPair(c) PROVE ApartInOrder'
  BY <1>19 DEF SkipPair, dataVars, rowVars, passVars, sessionVars
<1>20. ASSUME NEW u \in Crowd, EraseMember(u) PROVE ApartInOrder'
  BY <1>20 DEF EraseMember, dataVars, rowVars, passVars, sessionVars
<1>21. CASE UNCHANGED groupVars
  BY <1>21 DEF groupVars, dataVars, rowVars, passVars, sessionVars
<1>. HIDE DEF GroupTypeOK, PassInOrder, AskedInOrder, ApartInOrder, Live, LiveApart, ProposedAhead, TopApart, Rows, Places
<1>. QED
  BY <1>1, <1>2, <1>3, <1>4, <1>5, <1>6, <1>7, <1>8, <1>9, <1>10, <1>11,
     <1>12, <1>13, <1>14, <1>15, <1>16, <1>17, <1>18, <1>19, <1>20, <1>21
  DEF GroupNext, Cluster, SurfaceGroups, MemberStep

-------------------------------------------------------------------------------
(* The members of a group suit one another.                                  *)

\* Two people make a couple, and a couple is of two people.
LEMMA CouplesArePairs ==
  /\ \A u, v : u # v => Cardinality({u, v}) = 2
  /\ \A group \in SUBSET Crowd : \A c \in Within(group) :
       \E u, v \in group : u # v /\ c = {u, v}
<1>1. ASSUME NEW u, NEW v, u # v PROVE Cardinality({u, v}) = 2
  <2>1. IsFiniteSet({v}) /\ Cardinality({v}) = 1
    BY FS_Singleton
  <2>2. Cardinality({v} \cup {u}) = Cardinality({v}) + 1
    BY <1>1, <2>1, FS_AddElement
  <2>3. {v} \cup {u} = {u, v}
    OBVIOUS
  <2>. QED  BY <2>1, <2>2, <2>3
<1>2. ASSUME NEW group \in SUBSET Crowd, NEW c \in Within(group)
      PROVE  \E u, v \in group : u # v /\ c = {u, v}
  <2>1. c \subseteq group /\ Cardinality(c) = 2 /\ IsFiniteSet(c)
    BY GroupAssumption, FS_Subset DEF Within
  <2>2. PICK u : u \in c
    BY <2>1, FS_EmptySet
  <2>3. IsFiniteSet(c \ {u}) /\ Cardinality(c \ {u}) = 1
    BY <2>1, <2>2, FS_RemoveElement
  <2>4. PICK v : c \ {u} = {v}
    BY <2>3, FS_Singleton
  <2>. QED  BY <2>1, <2>2, <2>4
<1>. QED  BY <1>1, <1>2

\* A group c suits interest n.
Fits(c, n) ==
  /\ Cardinality(c) \in MinSize .. MaxSize
  /\ \A e \in Within(c) : score[e] >= Threshold
  /\ Cardinality(c) < MaxSize =>
       \A v \in fans[n] \ c : \E u \in c : score[{u, v}] < Threshold \/ {u, v} \in skipped

CrewsFit ==
  /\ \A c \in crews : c \cap forgotten = {} => Fits(c, node)
  /\ top # {} /\ top \cap forgotten = {} => Fits(top, node)
  /\ \A g \in Rows : crew[g] \cap forgotten = {} => Fits(crew[g], about[g])

\* What the pass makes of what it reads fits.
LEMMA CandidatesFit ==
  ASSUME GroupTypeOK, NEW n \in Nodes, NEW list \in CandidateLists(fans[n]), NEW c \in list
  PROVE  Fits(c, n)
<1>. DEFINE us  == fans[n]
            adj == Adjacency(us, score, skipped)
            cliques == {k \in FindCliques(adj) : Fitted(k, score) # {}}
            es  == {e \in CrowdCouples : score[e] >= Threshold /\ e \notin skipped}
<1>1. us \in SUBSET Crowd /\ score \in [CrowdCouples -> Weights] /\ IsFiniteSet(us)
  BY GroupAssumption, FS_Subset DEF GroupTypeOK
<1>2. PICK f \in [cliques -> SUBSET us] :
        list = {f[k] : k \in cliques} /\ \A k \in cliques : f[k] \in Fitted(k, score)
  BY DEF CandidateLists
<1>3. PICK k \in cliques : c = f[k]
  BY <1>2
<1>4. \A u, v \in us : u # v => {u, v} \in CrowdCouples
  BY <1>1, CouplesArePairs DEF CrowdCouples
<1>5. adj = [u \in us |-> {v \in us \ {u} : {u, v} \in es}]
  BY <1>4 DEF Adjacency
<1>6. FindCliques(adj) = MaximalCliques(adj)
  <2>1. us \in SUBSET Crowd /\ es \in SUBSET CrowdCouples
    BY <1>1
  <2>. HIDE DEF adj, us, es
  <2>. QED  BY <1>5, <2>1, FindCliquesAssumption, Zenon
<1>7. /\ k \subseteq us /\ IsClique(adj, k)
      /\ \A v \in us \ k : ~IsClique(adj, k \cup {v})
  BY <1>5, <1>6, <1>3 DEF MaximalCliques, Adjacency
<1>8. c \in (IF Cardinality(k) > MaxSize THEN Trim(k, score, MaxSize) ELSE {k})
      /\ Cardinality(c) >= MinSize
  BY <1>2, <1>3 DEF Fitted
<1>9. Cardinality(k) \in Nat
  BY <1>1, <1>7, FS_Subset, FS_CardinalityType
<1>10. ASSUME Cardinality(k) > MaxSize PROVE c \subseteq k /\ Cardinality(c) = MaxSize
  <2>1. MaxSize \in 1 .. Cardinality(k) - 1
    BY <1>9, <1>10, GroupAssumption
  <2>2. c \in Trim(k, score, MaxSize) /\ k \in SUBSET Crowd
    BY <1>1, <1>7, <1>8, <1>10
  <2>. QED  BY <1>1, <2>1, <2>2, TrimAssumption
<1>11. c \subseteq k /\ Cardinality(c) \in MinSize .. MaxSize /\ (c = k \/ Cardinality(c) = MaxSize)
  BY <1>8, <1>9, <1>10, GroupAssumption
<1>12. ASSUME NEW e \in Within(c) PROVE score[e] >= Threshold
  <2>1. PICK u, v \in c : u # v /\ e = {u, v}
    BY <1>1, <1>7, <1>11, CouplesArePairs
  <2>2. v \in adj[u] /\ u \in us
    BY <1>7, <1>11, <2>1 DEF IsClique
  <2>. QED  BY <2>1, <2>2 DEF Adjacency
<1>13. ASSUME Cardinality(c) < MaxSize, NEW v \in us \ c
       PROVE  \E u \in c : score[{u, v}] < Threshold \/ {u, v} \in skipped
  <2>1. c = k /\ v \in us \ k
    BY <1>11, <1>13, GroupAssumption
  <2>2. PICK a, b \in k \cup {v} : a # b /\ b \notin adj[a]
    BY <1>7, <2>1 DEF IsClique
  <2>3. PICK u \in k : v \notin adj[u] \/ u \notin adj[v]
    BY <2>2, <1>7 DEF IsClique
  <2>4. {u, v} = {v, u} /\ u # v /\ u \in us /\ v \in us
    BY <1>7, <2>1
  <2>5. ~(score[{u, v}] >= Threshold) \/ {u, v} \in skipped
    BY <2>3, <2>4 DEF Adjacency
  <2>6. score[{u, v}] \in Nat /\ Threshold \in Nat
    BY <1>1, <1>4, <2>4, GroupAssumption
  <2>7. score[{u, v}] < Threshold \/ {u, v} \in skipped
    BY <2>5, <2>6
  <2>. QED  BY <2>1, <2>7
<1>. QED  BY <1>11, <1>12, <1>13 DEF Fits

LEMMA InitFit == GroupInit => CrewsFit
BY DEF GroupInit, PassIdle, CrewsFit, Rows

\* And what fits goes on fitting, while its people stay.
LEMMA FitKept == GroupTypeOK /\ CrewsFit /\ [GroupNext]_groupVars => CrewsFit'
<1>. SUFFICES ASSUME GroupTypeOK /\ CrewsFit, [GroupNext]_groupVars PROVE CrewsFit'
  OBVIOUS
<1>1. ASSUME StartClustering PROVE CrewsFit'
  <2>1. UNCHANGED <<fans, score, skipped, forgotten>>
    BY <1>1 DEF StartClustering, dataVars
  <2>2. \A c, k : Fits(c, k)' <=> Fits(c, k)
    BY <2>1 DEF Fits
  <2>3. UNCHANGED <<status, crew, about, crews, top, node>>
    BY <1>1 DEF StartClustering, dataVars, rowVars, passVars, sessionVars
  <2>. QED  BY <2>1, <2>2, <2>3 DEF CrewsFit, Rows
<1>2. ASSUME NEW n \in Nodes, ReadNode(n) PROVE CrewsFit'
  <2>1. UNCHANGED <<fans, score, skipped, forgotten>>
    BY <1>2 DEF ReadNode, dataVars
  <2>2. \A c, k : Fits(c, k)' <=> Fits(c, k)
    BY <2>1 DEF Fits
  <2>3. /\ UNCHANGED <<status, crew, about, top>> /\ node = None
        /\ crews' = {} \/ (crews' \in CandidateLists(fans[n]) /\ node' = n) \/ (crews' = crews /\ node' = node)
    BY <1>2 DEF ReadNode, rowVars
  <2>4. \A c \in crews' : Fits(c, node')
    BY <2>3, CandidatesFit DEF GroupTypeOK
  <2>. QED  BY <2>1, <2>2, <2>3, <2>4 DEF CrewsFit, Rows, GroupTypeOK
<1>3. ASSUME ChooseTop PROVE CrewsFit'
  <2>1. UNCHANGED <<fans, score, skipped, forgotten>>
    BY <1>3 DEF ChooseTop, dataVars
  <2>2. \A c, k : Fits(c, k)' <=> Fits(c, k)
    BY <2>1 DEF Fits
  <2>3. /\ UNCHANGED <<status, crew, about>> /\ crews' = {} /\ top = {}
        /\ top' # {} => top' \in crews /\ node' = node
    BY <1>3 DEF ChooseTop, rowVars
  <2>. QED  BY <2>1, <2>2, <2>3 DEF CrewsFit, Rows
<1>4. ASSUME Propose PROVE CrewsFit'
  <2>1. UNCHANGED <<fans, score, skipped, forgotten>>
    BY <1>4 DEF Propose, NodeDone, dataVars
  <2>2. \A c, k : Fits(c, k)' <=> Fits(c, k)
    BY <2>1 DEF Fits
  <2>3. crews' = {} /\ top' = {} /\ top # {} /\ node \in Nodes
    BY <1>4 DEF Propose, NodeDone, GroupTypeOK
  <2>4. CASE SameGroup # {}
    BY <1>4, <2>1, <2>2, <2>3, <2>4 DEF Propose, rowVars, CrewsFit, Rows
  <2>5. CASE SameGroup = {}
    <3>1. PICK g \in {h \in GroupIds : crew[h] = {}} :
            /\ status' = [status EXCEPT ![g] = "proposed"]
            /\ crew' = [crew EXCEPT ![g] = top] /\ about' = [about EXCEPT ![g] = node]
      BY <1>4, <2>5 DEF Propose
    <3>2. /\ \A h \in GroupIds : h # g => status'[h] = status[h] /\ crew'[h] = crew[h] /\ about'[h] = about[h]
          /\ crew'[g] = top /\ about'[g] = node
      BY <3>1 DEF GroupTypeOK
    <3>. QED  BY <3>2, <2>1, <2>2, <2>3 DEF CrewsFit, Rows
  <2>. QED  BY <2>4, <2>5
<1>5. ASSUME NodeFails PROVE CrewsFit'
  <2>1. UNCHANGED <<fans, score, skipped, forgotten>>
    BY <1>5 DEF NodeFails, NodeDone, GroupFault, dataVars
  <2>2. \A c, k : Fits(c, k)' <=> Fits(c, k)
    BY <2>1 DEF Fits
  <2>3. UNCHANGED <<status, crew, about>> /\ crews' = {} /\ top' = {}
    BY <1>5 DEF NodeFails, NodeDone, GroupFault, rowVars
  <2>. QED  BY <2>1, <2>2, <2>3 DEF CrewsFit, Rows
<1>6. ASSUME StartSurfacing PROVE CrewsFit'
  <2>1. UNCHANGED <<fans, score, skipped, forgotten>>
    BY <1>6 DEF StartSurfacing, dataVars
  <2>2. \A c, k : Fits(c, k)' <=> Fits(c, k)
    BY <2>1 DEF Fits
  <2>3. UNCHANGED <<status, crew, about, crews, top, node>>
    BY <1>6 DEF StartSurfacing, dataVars, rowVars, passVars, sessionVars
  <2>. QED  BY <2>1, <2>2, <2>3 DEF CrewsFit, Rows
<1>7. ASSUME NEW g \in GroupIds, BeginGroup(g) PROVE CrewsFit'
  <2>1. UNCHANGED <<fans, score, skipped, forgotten>>
    BY <1>7 DEF BeginGroup, Take, SetStatus, dataVars
  <2>2. \A c, k : Fits(c, k)' <=> Fits(c, k)
    BY <2>1 DEF Fits
  <2>3. UNCHANGED <<crew, about, crews, top, node>> /\ Rows' \subseteq Rows
    BY <1>7 DEF BeginGroup, Take, SetStatus, Rows, dataVars, rowVars, passVars, sessionVars, GroupTypeOK, Places
  <2>. QED  BY <2>1, <2>2, <2>3 DEF CrewsFit
<1>8. ASSUME NEW g \in GroupIds, BeginFails(g) PROVE CrewsFit'
  <2>1. UNCHANGED <<fans, score, skipped, forgotten>>
    BY <1>8 DEF BeginFails, Take, GroupFault, dataVars
  <2>2. \A c, k : Fits(c, k)' <=> Fits(c, k)
    BY <2>1 DEF Fits
  <2>3. UNCHANGED <<status, crew, about, crews, top, node>>
    BY <1>8 DEF BeginFails, Take, GroupFault, dataVars, rowVars, passVars, sessionVars
  <2>. QED  BY <2>1, <2>2, <2>3 DEF CrewsFit, Rows
<1>9. ASSUME NEW m \in Crowd, Ask(m) PROVE CrewsFit'
  <2>1. UNCHANGED <<fans, score, skipped, forgotten>>
    BY <1>9 DEF Ask, Call, Invite, dataVars
  <2>2. \A c, k : Fits(c, k)' <=> Fits(c, k)
    BY <2>1 DEF Fits
  <2>3. UNCHANGED <<status, crew, about, crews, top, node>>
    BY <1>9 DEF Ask, Call, Invite, dataVars, rowVars, passVars, sessionVars
  <2>. QED  BY <2>1, <2>2, <2>3 DEF CrewsFit, Rows
<1>10. ASSUME NEW m \in Crowd, AskRefused(m) PROVE CrewsFit'
  <2>1. UNCHANGED <<fans, score, skipped, forgotten>>
    BY <1>10 DEF AskRefused, Call, dataVars
  <2>2. \A c, k : Fits(c, k)' <=> Fits(c, k)
    BY <2>1 DEF Fits
  <2>3. UNCHANGED <<status, crew, about, crews, top, node>>
    BY <1>10 DEF AskRefused, Call, dataVars, rowVars, passVars, sessionVars
  <2>. QED  BY <2>1, <2>2, <2>3 DEF CrewsFit, Rows
<1>11. ASSUME NEW m \in Crowd, AskUnanswered(m) PROVE CrewsFit'
  <2>1. UNCHANGED <<fans, score, skipped, forgotten>>
    BY <1>11 DEF AskUnanswered, Call, Invite, GroupFault, dataVars
  <2>2. \A c, k : Fits(c, k)' <=> Fits(c, k)
    BY <2>1 DEF Fits
  <2>3. UNCHANGED <<status, crew, about, crews, top, node>>
    BY <1>11 DEF AskUnanswered, Call, Invite, GroupFault, dataVars, rowVars, passVars, sessionVars
  <2>. QED  BY <2>1, <2>2, <2>3 DEF CrewsFit, Rows
<1>12. ASSUME EndGroup PROVE CrewsFit'
  <2>1. UNCHANGED <<fans, score, skipped, forgotten>>
    BY <1>12 DEF EndGroup, GroupDone, SetStatus, dataVars
  <2>2. \A c, k : Fits(c, k)' <=> Fits(c, k)
    BY <2>1 DEF Fits
  <2>3. UNCHANGED <<crew, about, crews, top, node>> /\ Rows' \subseteq Rows
    BY <1>12 DEF EndGroup, GroupDone, SetStatus, Rows, dataVars, rowVars, passVars, sessionVars, GroupTypeOK, Places
  <2>. QED  BY <2>1, <2>2, <2>3 DEF CrewsFit
<1>13. ASSUME EndFails PROVE CrewsFit'
  <2>1. UNCHANGED <<fans, score, skipped, forgotten>>
    BY <1>13 DEF EndFails, GroupDone, GroupFault, dataVars
  <2>2. \A c, k : Fits(c, k)' <=> Fits(c, k)
    BY <2>1 DEF Fits
  <2>3. UNCHANGED <<status, crew, about, crews, top, node>>
    BY <1>13 DEF EndFails, GroupDone, GroupFault, dataVars, rowVars, passVars, sessionVars
  <2>. QED  BY <2>1, <2>2, <2>3 DEF CrewsFit, Rows
<1>14. ASSUME FinishClustering PROVE CrewsFit'
  <2>1. UNCHANGED <<fans, score, skipped, forgotten>>
    BY <1>14 DEF FinishClustering, StopClustering, NodeDone, GroupDone, dataVars
  <2>2. \A c, k : Fits(c, k)' <=> Fits(c, k)
    BY <2>1 DEF Fits
  <2>3. UNCHANGED <<status, crew, about>> /\ crews' = {} /\ top' = {}
    BY <1>14 DEF FinishClustering, StopClustering, NodeDone, GroupDone, rowVars
  <2>. QED  BY <2>1, <2>2, <2>3 DEF CrewsFit, Rows
<1>15. ASSUME CrashClustering PROVE CrewsFit'
  <2>1. UNCHANGED <<fans, score, skipped, forgotten>>
    BY <1>15 DEF CrashClustering, StopClustering, NodeDone, GroupDone, GroupFault, dataVars
  <2>2. \A c, k : Fits(c, k)' <=> Fits(c, k)
    BY <2>1 DEF Fits
  <2>3. UNCHANGED <<status, crew, about>> /\ crews' = {} /\ top' = {}
    BY <1>15 DEF CrashClustering, StopClustering, NodeDone, GroupDone, GroupFault, rowVars
  <2>. QED  BY <2>1, <2>2, <2>3 DEF CrewsFit, Rows
<1>16. ASSUME NEW p \in Places, Accept(p) PROVE CrewsFit'
  <2>1. UNCHANGED <<fans, score, skipped, forgotten>>
    BY <1>16 DEF Accept, dataVars
  <2>2. \A c, k : Fits(c, k)' <=> Fits(c, k)
    BY <2>1 DEF Fits
  <2>3. UNCHANGED <<status, crew, about, crews, top, node>>
    BY <1>16 DEF Accept, dataVars, rowVars, passVars, sessionVars
  <2>. QED  BY <2>1, <2>2, <2>3 DEF CrewsFit, Rows
<1>17. ASSUME NEW p \in Places, PostDecline(p) PROVE CrewsFit'
  <2>1. UNCHANGED <<fans, score, skipped, forgotten>>
    BY <1>17 DEF PostDecline, dataVars
  <2>2. \A c, k : Fits(c, k)' <=> Fits(c, k)
    BY <2>1 DEF Fits
  <2>3. UNCHANGED <<status, crew, about, crews, top, node>>
    BY <1>17 DEF PostDecline, dataVars, rowVars, passVars, sessionVars
  <2>. QED  BY <2>1, <2>2, <2>3 DEF CrewsFit, Rows
<1>18. ASSUME NEW p \in Places, WriteDecline(p) PROVE CrewsFit'
  <2>1. UNCHANGED <<fans, score, skipped, forgotten>>
    BY <1>18 DEF WriteDecline, SetStatus, dataVars
  <2>2. \A c, k : Fits(c, k)' <=> Fits(c, k)
    BY <2>1 DEF Fits
  <2>3. UNCHANGED <<crew, about, crews, top, node>> /\ Rows' \subseteq Rows
    BY <1>18 DEF WriteDecline, SetStatus, Rows, dataVars, rowVars, passVars, sessionVars, GroupTypeOK, Places
  <2>. QED  BY <2>1, <2>2, <2>3 DEF CrewsFit
<1>19. ASSUME NEW c \in CrowdCouples, SkipPair(c) PROVE CrewsFit'
  <2>1. UNCHANGED <<fans, score, forgotten, status, crew, about, crews, top, node>> /\ skipped \subseteq skipped'
    BY <1>19 DEF SkipPair, rowVars, passVars
  <2>2. \A d, n : Fits(d, n) => Fits(d, n)'
    BY <2>1 DEF Fits
  <2>. QED  BY <2>1, <2>2 DEF CrewsFit, Rows
<1>20. ASSUME NEW u \in Crowd, EraseMember(u) PROVE CrewsFit'
  <2>1. /\ forgotten' = forgotten \cup {u}
        /\ fans' = [n \in Nodes |-> fans[n] \ {u}]
        /\ score' = [c \in CrowdCouples |-> IF u \in c THEN 0 ELSE score[c]]
        /\ skipped' = {c \in skipped : u \notin c}
        /\ UNCHANGED <<crew, about, crews, top, node>>
    BY <1>20 DEF EraseMember, passVars
  <2>2. Rows' \subseteq Rows
    BY <1>20 DEF EraseMember, Rows
  <2>3. ASSUME NEW c \in SUBSET Crowd, NEW n \in Nodes, u \notin c, Fits(c, n) PROVE Fits(c, n)'
    <3>1. ASSUME NEW e \in Within(c) PROVE score'[e] = score[e]
      <4>1. e \in CrowdCouples /\ u \notin e
        BY <2>3 DEF Within, CrowdCouples
      <4>. QED  BY <4>1, <2>1
    <3>2. ASSUME NEW v \in fans'[n] \ c, NEW w \in c, score[{w, v}] < Threshold \/ {w, v} \in skipped
          PROVE  score'[{w, v}] < Threshold \/ {w, v} \in skipped'
      <4>1. u # v /\ u # w /\ v # w /\ v \in Crowd /\ w \in Crowd
        BY <2>1, <2>3 DEF GroupTypeOK
      <4>2. {w, v} \in CrowdCouples /\ u \notin {w, v}
        BY <4>1, CouplesArePairs DEF CrowdCouples
      <4>. QED  BY <2>1, <3>2, <4>2
    <3>3. fans'[n] \subseteq fans[n]
      BY <2>1
    <3>. QED  BY <2>3, <3>1, <3>2, <3>3 DEF Fits
  <2>4. \A c \in crews : c \cap forgotten' = {} => Fits(c, node)'
    BY <2>1, <2>3 DEF CrewsFit, GroupTypeOK
  <2>5. top # {} /\ top \cap forgotten' = {} => Fits(top, node)'
    BY <2>1, <2>3 DEF CrewsFit, GroupTypeOK
  <2>6. \A g \in Rows : crew[g] \cap forgotten' = {} => Fits(crew[g], about[g])'
    BY <2>1, <2>3 DEF CrewsFit, GroupTypeOK, Rows
  <2>. QED  BY <2>1, <2>2, <2>4, <2>5, <2>6 DEF CrewsFit
<1>21. CASE UNCHANGED groupVars
  BY <1>21 DEF groupVars, dataVars, rowVars, passVars, sessionVars, CrewsFit, Fits, Rows
<1>. QED
  BY <1>1, <1>2, <1>3, <1>4, <1>5, <1>6, <1>7, <1>8, <1>9, <1>10, <1>11,
     <1>12, <1>13, <1>14, <1>15, <1>16, <1>17, <1>18, <1>19, <1>20, <1>21
  DEF GroupNext, Cluster, SurfaceGroups, MemberStep

-------------------------------------------------------------------------------
GroupInv ==
  GroupTypeOK /\ PassInOrder /\ AskedInOrder /\ MembersAskedOnce /\ ApartInOrder /\ CrewsFit

LEMMA GroupsInvariant == GroupSpec => []GroupInv
<1>1. GroupInit => GroupInv
  BY InitGroups, InitApart, InitFit DEF GroupInv
<1>2. GroupInv /\ [GroupNext]_groupVars => GroupInv'
  BY GroupTypesKept, OrderKept, AskedKept, ApartKept, FitKept DEF GroupInv
<1>. QED  BY <1>1, <1>2, PTL DEF GroupSpec

\* Type correctness of the clustering pass and its tables.
THEOREM GroupTypes == GroupSpec => []GroupTypeOK
BY GroupsInvariant, PTL DEF GroupInv

\* Whatever fails or crashes, nobody is asked about a group twice, and a group
\* marked surfaced has had every member asked.
THEOREM MembersAreAskedOnce == GroupSpec => []MembersAskedOnce
BY GroupsInvariant, PTL DEF GroupInv

\* Given a correct search for cliques and a correct trimming, every group is of
\* people who suit one another pair by pair.
THEOREM GroupsAreCrews == GroupSpec => []GroupIsCrew
<1>1. GroupInv => GroupIsCrew
  BY DEF GroupInv, CrewsFit, Fits, GroupIsCrew
<1>. QED  BY GroupsInvariant, <1>1, PTL

\* While nothing fails, the groups of an interest that are on share no member.
THEOREM CrewsStayApart == GroupSpec => []CrewsApart
<1>1. GroupInv => CrewsApart
  <2>. SUFFICES ASSUME GroupInv, groupFaults = 0, NEW g \in Rows, NEW h \in Rows,
                       g # h, about[g] = about[h], status[g] # "declined", status[h] # "declined"
                PROVE  crew[g] \cap crew[h] = {}
    BY DEF CrewsApart
  <2>. QED  BY DEF GroupInv, ApartInOrder, LiveApart, Live
<1>. QED  BY GroupsInvariant, <1>1, PTL

\* Only the pass that is asking a group's members writes over its decline.
THEOREM DeclinesStand == GroupSpec => DeclineStands
<1>1. ASSUME GroupInv, [GroupNext]_groupVars, NEW g \in GroupIds,
             status[g] = "declined" /\ g # current
      PROVE  status'[g] \in {"declined", "none"}
  <2>. USE DEF GroupInv, GroupTypeOK, AskedInOrder, Rows
  <2>1. ASSUME NEW h \in GroupIds, BeginGroup(h) PROVE status'[g] \in {"declined", "none"}
    BY <1>1, <2>1 DEF BeginGroup, Take, SetStatus
  <2>2. CASE Propose
    <3>1. crew[g] # {}
      BY <1>1
    <3>. QED  BY <1>1, <2>2, <3>1 DEF Propose, rowVars
  <2>3. CASE EndGroup
    BY <1>1, <2>3 DEF EndGroup, SetStatus
  <2>4. ASSUME NEW p \in Places, WriteDecline(p) PROVE status'[g] \in {"declined", "none"}
    BY <1>1, <2>4 DEF WriteDecline, SetStatus
  <2>5. ASSUME NEW u \in Crowd, EraseMember(u) PROVE status'[g] \in {"declined", "none"}
    BY <1>1, <2>5 DEF EraseMember
  <2>6. ASSUME UNCHANGED status PROVE status'[g] \in {"declined", "none"}
    BY <1>1, <2>6
  <2>7. CASE UNCHANGED groupVars
    BY <2>6, <2>7 DEF groupVars, rowVars
  <2>8. CASE Cluster /\ ~Propose
    BY <2>6, <2>8 DEF Cluster, StartClustering, ChooseTop, NodeFails, ReadNode, rowVars
  <2>9. ASSUME SurfaceGroups, ~EndGroup, \A h \in GroupIds : ~BeginGroup(h)
        PROVE  status'[g] \in {"declined", "none"}
    BY <2>6, <2>9
    DEF SurfaceGroups, StartSurfacing, EndFails, FinishClustering, CrashClustering, StopClustering,
        BeginFails, Ask, AskRefused, AskUnanswered, rowVars
  <2>10. ASSUME NEW p \in Places, MemberStep(p), ~WriteDecline(p) PROVE status'[g] \in {"declined", "none"}
    BY <2>6, <2>10 DEF MemberStep, Accept, PostDecline, rowVars
  <2>11. ASSUME NEW c \in CrowdCouples, SkipPair(c) PROVE status'[g] \in {"declined", "none"}
    BY <2>6, <2>11 DEF SkipPair, rowVars
  <2>. HIDE DEF GroupInv, Rows, GroupTypeOK, AskedInOrder
  <2>. QED  BY <1>1, <2>1, <2>2, <2>3, <2>4, <2>5, <2>7, <2>8, <2>9, <2>10, <2>11 DEF GroupNext
<1>2. GroupInv /\ [GroupNext]_groupVars =>
        [\A g \in GroupIds : status[g] = "declined" /\ g # current =>
           status'[g] \in {"declined", "none"}]_groupVars
  BY <1>1
<1>. QED  BY GroupsInvariant, <1>2, PTL DEF GroupSpec, DeclineStands
===============================================================================
