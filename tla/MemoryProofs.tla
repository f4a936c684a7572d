---------------------------- MODULE MemoryProofs -----------------------------
(***************************************************************************)
(* For any number of extractions, sessions, nodes and keys, and any        *)
(* cooldown; and for any evidence, taxonomy and answers of the model.  The *)
(* invariant of each kind is proved of its own steps; the memory follows   *)
(* one kind, and the others stay in their initial states.                  *)
(*                                                                         *)
(* Of the answers (Replies), what is picked of a sequence is reached by    *)
(* the rank of a member (InOrderFacts), what is written one by one by      *)
(* induction over the fold (FoldCommitments, FoldTraits), and the merges   *)
(* by an invariant of the fold (MergeInv).                                 *)
(***************************************************************************)
EXTENDS Mind, FoldProofs

-------------------------------------------------------------------------------
(* Chats and episodes.                                                      *)

At2(e)  == ending[e].at
Reading == {e \in Extractions : At2(e) \in {"read", "kept"}}

\* The transcripts of the tasks that run.
Tasks == UNION {ending[e].copy : e \in {x \in Extractions : At2(x) = "extracting"}}

\* Where a message that was told is safe from being lost before its extraction.
Safe == tasked \cup Tasks \cup Buffered \cup missed

EndsOK == \A e \in Reading : ending[e].chat \in Chats

\* The buffer of a chat that is being ended is the copy, but for late messages.
CopyIsBuffer == \A e \in Reading : buffer[ending[e].chat] \subseteq ending[e].copy \cup missed

KeptIsTold == \A e \in Extractions : At2(e) = "kept" => ending[e].copy \subseteq Told \cup missed

CopyIsSafe == \A e \in Reading : ending[e].copy \subseteq Safe

Keeping ==
  Known => CopyIsBuffer /\ KeptIsTold /\ CopyIsSafe /\ Told \subseteq Safe /\ SaidIsKept

SweepFinds ==
  ~straggler =>
    /\ Working \subseteq index
    /\ swept # NotSwept => Working \subseteq swept
    /\ ~Known => Working = {} /\ summaries = {}

ChatInv == ChatTypeOK /\ EndsOK /\ Keeping /\ SweepFinds

LEMMA ChatInitially == ChatInit => ChatInv
<1> SUFFICES ASSUME ChatInit PROVE ChatInv
  OBVIOUS
<1> USE DEF ChatInit
<1>1. ChatTypeOK
  BY DEF ChatTypeOK, NotEnding, Ends, NotSwept
<1>2. Reading = {} /\ \A e \in Extractions : At2(e) # "kept"
  BY DEF Reading, At2, NotEnding
<1>3. Told = {} /\ Working = {}
  BY DEF Told, Working
<1>4. QED
  BY <1>1, <1>2, <1>3
  DEF ChatInv, EndsOK, Keeping, SweepFinds, CopyIsBuffer, KeptIsTold, CopyIsSafe, SaidIsKept

\* ToldIsTasked counts the transcripts of ends that have stored theirs as well.
LEMMA ChatInvImplies ==
  ASSUME ChatInv, ErasureTypeOK PROVE EveryTurnKept /\ ChatsErased
<1>1. Tasks \subseteq InHand
  BY DEF Tasks, InHand, At2
<1>2. ToldIsTasked
  BY <1>1 DEF ChatInv, Keeping, Safe, ToldIsTasked
<1>3. SaidIsKept
  BY DEF ChatInv, Keeping, SaidIsKept
<1>4. ChatsErased
  BY DEF ChatInv, SweepFinds, ChatsErased, Known, ErasureTypeOK
<1>5. QED BY <1>2, <1>3, <1>4 DEF EveryTurnKept

-------------------------------------------------------------------------------
(* Each step.                                                               *)

LEMMA ErasureOfChats ==
  ASSUME ErasureTypeOK, ChatNext \/ EpisodeNext PROVE ErasureTypeOK'
<1>1. ASSUME UNCHANGED eraseVars \/ Stores \/ StoresTurn \/ BaseErased \/ GraphErased
      PROVE  ErasureTypeOK'
  BY <1>1 DEF ErasureTypeOK, eraseVars, Stores, StoresTurn, BaseErased, GraphErased, Known
<1>2. CASE ChatNext
  BY <1>1, <1>2
  DEF ChatNext, Respond, Reply, ReplyDrops, BufferExpires, EndBegins, StoreSummary, SummaryBlank,
      EndFails, Invalidate, ExtractionOver, Sweep, SweepFails, EraseChats, EraseGraphOfChats
<1>3. CASE EpisodeNext
  BY <1>1, <1>3
  DEF EpisodeNext, Summarise, InsertEpisode, NothingToInsert, PickRecent, Promote, PromoteFails,
      Decay, BeginReflection, SaveReflection, DropReflection, EraseEpisodes, EraseGraphOnly
<1>4. QED BY <1>2, <1>3

LEMMA ChatTypes == ASSUME ChatInv, ChatNext PROVE ChatTypeOK' /\ EndsOK'
<1> USE ChatAssumption DEF ChatInv
<1>1. ASSUME NEW c \in Chats, NEW m \in Messages, Respond(c, m) PROVE ChatTypeOK' /\ EndsOK'
  BY <1>1 DEF Respond, ChatTypeOK, EndsOK, Reading, At2, Ends, NotEnding, NotSwept, bufferVars, fateVars, chatVars
<1>2. ASSUME NEW c \in Chats, Reply(c) PROVE ChatTypeOK' /\ EndsOK'
  BY <1>2 DEF Reply, ChatTypeOK, EndsOK, Reading, At2, Ends, NotEnding, NotSwept, bufferVars, fateVars, chatVars
<1>3. ASSUME NEW c \in Chats, ReplyDrops(c) PROVE ChatTypeOK' /\ EndsOK'
  BY <1>3 DEF ReplyDrops, ChatTypeOK, EndsOK, Reading, At2, Ends, NotEnding, NotSwept, bufferVars, fateVars, chatVars
<1>4. ASSUME NEW c \in Chats, BufferExpires(c) PROVE ChatTypeOK' /\ EndsOK'
  BY <1>4 DEF BufferExpires, ChatTypeOK, EndsOK, Reading, At2, Ends, NotEnding, NotSwept, bufferVars, fateVars, chatVars
<1>5. ASSUME NEW e \in Extractions, NEW c \in Chats, EndBegins(e, c) PROVE ChatTypeOK' /\ EndsOK'
  BY <1>5 DEF EndBegins, ChatTypeOK, EndsOK, Reading, At2, Ends, NotEnding, NotSwept, bufferVars, fateVars, chatVars
<1>6. ASSUME NEW e \in Extractions, StoreSummary(e) PROVE ChatTypeOK' /\ EndsOK'
  BY <1>6 DEF StoreSummary, ChatTypeOK, EndsOK, Reading, At2, Ends, NotEnding, NotSwept, bufferVars, fateVars, chatVars
<1>7. ASSUME NEW e \in Extractions, SummaryBlank(e) PROVE ChatTypeOK' /\ EndsOK'
  BY <1>7 DEF SummaryBlank, ChatTypeOK, EndsOK, Reading, At2, Ends, NotEnding, NotSwept, bufferVars, fateVars, chatVars
<1>8. ASSUME NEW e \in Extractions, EndFails(e) PROVE ChatTypeOK' /\ EndsOK'
  BY <1>8 DEF EndFails, ChatTypeOK, EndsOK, Reading, At2, Ends, NotEnding, NotSwept, bufferVars, fateVars, chatVars
<1>9. ASSUME NEW e \in Extractions, Invalidate(e) PROVE ChatTypeOK' /\ EndsOK'
  BY <1>9 DEF Invalidate, ChatTypeOK, EndsOK, Reading, At2, Ends, NotEnding, NotSwept, bufferVars, fateVars, chatVars
<1>10. ASSUME NEW e \in Extractions, ExtractionOver(e) PROVE ChatTypeOK' /\ EndsOK'
  BY <1>10 DEF ExtractionOver, ChatTypeOK, EndsOK, Reading, At2, Ends, NotEnding, NotSwept, bufferVars, fateVars, chatVars
<1>11. ASSUME Sweep PROVE ChatTypeOK' /\ EndsOK'
  BY <1>11 DEF Sweep, ChatTypeOK, EndsOK, Reading, At2, Ends, NotEnding, NotSwept, bufferVars, fateVars, chatVars
<1>12. ASSUME SweepFails PROVE ChatTypeOK' /\ EndsOK'
  BY <1>12 DEF SweepFails, ChatTypeOK, EndsOK, Reading, At2, Ends, NotEnding, NotSwept, bufferVars, fateVars, chatVars
<1>13. ASSUME EraseChats PROVE ChatTypeOK' /\ EndsOK'
  BY <1>13 DEF EraseChats, ChatTypeOK, EndsOK, Reading, At2, Ends, NotEnding, NotSwept, bufferVars, fateVars, chatVars
<1>14. ASSUME EraseGraphOfChats PROVE ChatTypeOK' /\ EndsOK'
  BY <1>14 DEF EraseGraphOfChats, ChatTypeOK, EndsOK, Reading, At2, Ends, NotEnding, NotSwept, bufferVars, fateVars, chatVars
<1>15. QED BY <1>1, <1>2, <1>3, <1>4, <1>5, <1>6, <1>7, <1>8, <1>9, <1>10, <1>11, <1>12, <1>13, <1>14 DEF ChatNext

\* What is buffered, safe or told under the next values, in terms of these.
LEMMA ChatKeeping == ASSUME ChatInv, ChatNext, ErasureTypeOK PROVE Keeping'
<1>1. ASSUME NEW c \in Chats, NEW m \in Messages, Respond(c, m) PROVE Keeping'
  BY <1>1 DEF Respond, Keeping, CopyIsBuffer, KeptIsTold, CopyIsSafe, SaidIsKept, Safe, Tasks, Told, Buffered, Reading, At2, Known, ChatTypeOK, EndsOK, Ends, NotEnding, ChatInv, eraseVars, bufferVars, fateVars, chatVars, StoresTurn, ReadBy
<1>2. ASSUME NEW c \in Chats, Reply(c) PROVE Keeping'
  BY <1>2 DEF Reply, Keeping, CopyIsBuffer, KeptIsTold, CopyIsSafe, SaidIsKept, Safe, Tasks, Told, Buffered, Reading, At2, Known, ChatTypeOK, EndsOK, Ends, NotEnding, ChatInv, eraseVars, bufferVars, fateVars, chatVars, StoresTurn
<1>3. ASSUME NEW c \in Chats, ReplyDrops(c) PROVE Keeping'
  BY <1>3 DEF ReplyDrops, Keeping, CopyIsBuffer, KeptIsTold, CopyIsSafe, SaidIsKept, Safe, Tasks, Told, Buffered, Reading, At2, Known, ChatTypeOK, EndsOK, Ends, NotEnding, ChatInv, eraseVars, bufferVars, fateVars, chatVars
<1>4. ASSUME NEW c \in Chats, BufferExpires(c) PROVE Keeping'
  BY <1>4 DEF BufferExpires, Keeping, CopyIsBuffer, KeptIsTold, CopyIsSafe, SaidIsKept, Safe, Tasks, Told, Buffered, Reading, At2, Known, ChatTypeOK, EndsOK, Ends, NotEnding, ChatInv, eraseVars, bufferVars, fateVars, chatVars
<1>5. ASSUME NEW e \in Extractions, NEW c \in Chats, EndBegins(e, c) PROVE Keeping'
  BY <1>5 DEF EndBegins, Keeping, CopyIsBuffer, KeptIsTold, CopyIsSafe, SaidIsKept, Safe, Tasks, Told, Buffered, Reading, At2, Known, ChatTypeOK, EndsOK, Ends, NotEnding, ChatInv, eraseVars, bufferVars, fateVars, chatVars
<1>6. ASSUME NEW e \in Extractions, StoreSummary(e) PROVE Keeping'
  BY <1>6 DEF StoreSummary, Keeping, CopyIsBuffer, KeptIsTold, CopyIsSafe, SaidIsKept, Safe, Tasks, Told, Buffered, Reading, At2, Known, ChatTypeOK, EndsOK, Ends, NotEnding, ChatInv, eraseVars, bufferVars, fateVars, chatVars, Stores
<1>7. ASSUME NEW e \in Extractions, SummaryBlank(e) PROVE Keeping'
  BY <1>7 DEF SummaryBlank, Keeping, CopyIsBuffer, KeptIsTold, CopyIsSafe, SaidIsKept, Safe, Tasks, Told, Buffered, Reading, At2, Known, ChatTypeOK, EndsOK, Ends, NotEnding, ChatInv, eraseVars, bufferVars, fateVars, chatVars
<1>8. ASSUME NEW e \in Extractions, EndFails(e) PROVE Keeping'
  BY <1>8 DEF EndFails, Keeping, CopyIsBuffer, KeptIsTold, CopyIsSafe, SaidIsKept, Safe, Tasks, Told, Buffered, Reading, At2, Known, ChatTypeOK, EndsOK, Ends, NotEnding, ChatInv, eraseVars, bufferVars, fateVars, chatVars
<1>9. ASSUME NEW e \in Extractions, Invalidate(e) PROVE Keeping'
  BY <1>9 DEF Invalidate, Keeping, CopyIsBuffer, KeptIsTold, CopyIsSafe, SaidIsKept, Safe, Tasks, Told, Buffered, Reading, At2, Known, ChatTypeOK, EndsOK, Ends, NotEnding, ChatInv, eraseVars, bufferVars, fateVars, chatVars
<1>10. ASSUME NEW e \in Extractions, ExtractionOver(e) PROVE Keeping'
  BY <1>10 DEF ExtractionOver, Keeping, CopyIsBuffer, KeptIsTold, CopyIsSafe, SaidIsKept, Safe, Tasks, Told, Buffered, Reading, At2, Known, ChatTypeOK, EndsOK, Ends, NotEnding, ChatInv, eraseVars, bufferVars, fateVars, chatVars
<1>11. ASSUME Sweep PROVE Keeping'
  BY <1>11 DEF Sweep, Keeping, CopyIsBuffer, KeptIsTold, CopyIsSafe, SaidIsKept, Safe, Tasks, Told, Buffered, Reading, At2, Known, ChatTypeOK, EndsOK, Ends, NotEnding, ChatInv, eraseVars, bufferVars, fateVars, chatVars
<1>12. ASSUME SweepFails PROVE Keeping'
  BY <1>12 DEF SweepFails, Keeping, CopyIsBuffer, KeptIsTold, CopyIsSafe, SaidIsKept, Safe, Tasks, Told, Buffered, Reading, At2, Known, ChatTypeOK, EndsOK, Ends, NotEnding, ChatInv, eraseVars, bufferVars, fateVars, chatVars
<1>13. ASSUME EraseChats PROVE Keeping'
  BY <1>13 DEF EraseChats, Keeping, CopyIsBuffer, KeptIsTold, CopyIsSafe, SaidIsKept, Safe, Tasks, Told, Buffered, Reading, At2, Known, ChatTypeOK, EndsOK, Ends, NotEnding, ChatInv, eraseVars, bufferVars, fateVars, chatVars, BaseErased, ErasureTypeOK
<1>14. ASSUME EraseGraphOfChats PROVE Keeping'
  BY <1>14 DEF EraseGraphOfChats, Keeping, CopyIsBuffer, KeptIsTold, CopyIsSafe, SaidIsKept, Safe, Tasks, Told, Buffered, Reading, At2, Known, ChatTypeOK, EndsOK, Ends, NotEnding, ChatInv, eraseVars, bufferVars, fateVars, chatVars, GraphErased
<1>15. QED BY <1>1, <1>2, <1>3, <1>4, <1>5, <1>6, <1>7, <1>8, <1>9, <1>10, <1>11, <1>12, <1>13, <1>14 DEF ChatNext

LEMMA ChatSweeping == ASSUME ChatInv, ChatNext, ErasureTypeOK PROVE SweepFinds'
<1> USE ChatAssumption
<1>1. ASSUME NEW c \in Chats, NEW m \in Messages, Respond(c, m) PROVE SweepFinds'
  BY <1>1 DEF Respond, SweepFinds, Working, Known, ChatTypeOK, EndsOK, Reading, At2, Ends, NotEnding, NotSwept, ChatInv, ErasureTypeOK, eraseVars, bufferVars, fateVars, chatVars, StoresTurn
<1>2. ASSUME NEW c \in Chats, Reply(c) PROVE SweepFinds'
  BY <1>2 DEF Reply, SweepFinds, Working, Known, ChatTypeOK, EndsOK, Reading, At2, Ends, NotEnding, NotSwept, ChatInv, ErasureTypeOK, eraseVars, bufferVars, fateVars, chatVars, StoresTurn
<1>3. ASSUME NEW c \in Chats, ReplyDrops(c) PROVE SweepFinds'
  BY <1>3 DEF ReplyDrops, SweepFinds, Working, Known, ChatTypeOK, EndsOK, Reading, At2, Ends, NotEnding, NotSwept, ChatInv, ErasureTypeOK, eraseVars, bufferVars, fateVars, chatVars
<1>4. ASSUME NEW c \in Chats, BufferExpires(c) PROVE SweepFinds'
  BY <1>4 DEF BufferExpires, SweepFinds, Working, Known, ChatTypeOK, EndsOK, Reading, At2, Ends, NotEnding, NotSwept, ChatInv, ErasureTypeOK, eraseVars, bufferVars, fateVars, chatVars
<1>5. ASSUME NEW e \in Extractions, NEW c \in Chats, EndBegins(e, c) PROVE SweepFinds'
  BY <1>5 DEF EndBegins, SweepFinds, Working, Known, ChatTypeOK, EndsOK, Reading, At2, Ends, NotEnding, NotSwept, ChatInv, ErasureTypeOK, eraseVars, bufferVars, fateVars, chatVars
<1>6. ASSUME NEW e \in Extractions, StoreSummary(e) PROVE SweepFinds'
  BY <1>6 DEF StoreSummary, SweepFinds, Working, Known, ChatTypeOK, EndsOK, Reading, At2, Ends, NotEnding, NotSwept, ChatInv, ErasureTypeOK, eraseVars, bufferVars, fateVars, chatVars, Stores
<1>7. ASSUME NEW e \in Extractions, SummaryBlank(e) PROVE SweepFinds'
  BY <1>7 DEF SummaryBlank, SweepFinds, Working, Known, ChatTypeOK, EndsOK, Reading, At2, Ends, NotEnding, NotSwept, ChatInv, ErasureTypeOK, eraseVars, bufferVars, fateVars, chatVars
<1>8. ASSUME NEW e \in Extractions, EndFails(e) PROVE SweepFinds'
  BY <1>8 DEF EndFails, SweepFinds, Working, Known, ChatTypeOK, EndsOK, Reading, At2, Ends, NotEnding, NotSwept, ChatInv, ErasureTypeOK, eraseVars, bufferVars, fateVars, chatVars
<1>9. ASSUME NEW e \in Extractions, Invalidate(e) PROVE SweepFinds'
  BY <1>9 DEF Invalidate, SweepFinds, Working, Known, ChatTypeOK, EndsOK, Reading, At2, Ends, NotEnding, NotSwept, ChatInv, ErasureTypeOK, eraseVars, bufferVars, fateVars, chatVars
<1>10. ASSUME NEW e \in Extractions, ExtractionOver(e) PROVE SweepFinds'
  BY <1>10 DEF ExtractionOver, SweepFinds, Working, Known, ChatTypeOK, EndsOK, Reading, At2, Ends, NotEnding, NotSwept, ChatInv, ErasureTypeOK, eraseVars, bufferVars, fateVars, chatVars
<1>11. ASSUME Sweep PROVE SweepFinds'
  BY <1>11 DEF Sweep, SweepFinds, Working, Known, ChatTypeOK, EndsOK, Reading, At2, Ends, NotEnding, NotSwept, ChatInv, ErasureTypeOK, eraseVars, bufferVars, fateVars, chatVars
<1>12. ASSUME SweepFails PROVE SweepFinds'
  BY <1>12 DEF SweepFails, SweepFinds, Working, Known, ChatTypeOK, EndsOK, Reading, At2, Ends, NotEnding, NotSwept, ChatInv, ErasureTypeOK, eraseVars, bufferVars, fateVars, chatVars
<1>13. ASSUME EraseChats PROVE SweepFinds'
  BY <1>13 DEF EraseChats, SweepFinds, Working, Known, ChatTypeOK, EndsOK, Reading, At2, Ends, NotEnding, NotSwept, ChatInv, ErasureTypeOK, eraseVars, bufferVars, fateVars, chatVars, BaseErased
<1>14. ASSUME EraseGraphOfChats PROVE SweepFinds'
  BY <1>14 DEF EraseGraphOfChats, SweepFinds, Working, Known, ChatTypeOK, EndsOK, Reading, At2, Ends, NotEnding, NotSwept, ChatInv, ErasureTypeOK, eraseVars, bufferVars, fateVars, chatVars, GraphErased
<1>15. QED BY <1>1, <1>2, <1>3, <1>4, <1>5, <1>6, <1>7, <1>8, <1>9, <1>10, <1>11, <1>12, <1>13, <1>14 DEF ChatNext

LEMMA ChatStep == ASSUME ChatInv, ErasureTypeOK, ChatNext PROVE ChatInv'
BY ChatTypes, ChatKeeping, ChatSweeping DEF ChatInv

-------------------------------------------------------------------------------
(* Episodes.                                                                *)

\* What the pass has picked is there and has not decayed, or is erased.
PickedFresh == \A i \in picked : i \in Episodes => ~episode[i].decayed

EpisodesGone == ~straggler /\ ~Known => Episodes = {} /\ ~reflection

EpisodeInv == EpisodeTypeOK /\ PromotedStays /\ PickedFresh /\ EpisodesGone

LEMMA EpisodeInitially == EpisodeInit => EpisodeInv
BY EpisodeAssumption DEF EpisodeInit, EpisodeInv, EpisodeTypeOK, PromotedStays, PickedFresh, EpisodesGone, Episodes

LEMMA RowIsNotNone == \A r \in EpisodeRow : r # None
BY EpisodeAssumption DEF EpisodeRow

LEMMA EpisodeStep == ASSUME EpisodeInv, ErasureTypeOK, EpisodeNext PROVE EpisodeInv'
<1> USE EpisodeAssumption DEF EpisodeInv
<1>1. ASSUME NEW e \in Extractions, Summarise(e) PROVE EpisodeInv'
  BY <1>1 DEF Summarise, EpisodeTypeOK, EpisodeRow, PromotedStays, PickedFresh, EpisodesGone, Episodes, Known, ErasureTypeOK, eraseVars, episodeVars
<1>2. ASSUME NEW e \in Extractions, InsertEpisode(e) PROVE EpisodeInv'
  <2>1. PICK i \in EpisodeIds \ (Episodes \cup picked) : episode' = [episode EXCEPT ![i] = NewEpisode]
    BY <1>2 DEF InsertEpisode
  <2>2. NewEpisode \in EpisodeRow /\ NewEpisode # None /\ ~NewEpisode.promoted /\ ~NewEpisode.decayed
    BY RowIsNotNone DEF NewEpisode, EpisodeRow
  <2>3. EpisodeTypeOK'
    BY <1>2, <2>1, <2>2 DEF InsertEpisode, EpisodeTypeOK, EpisodeRow
  <2>4. \A j \in EpisodeIds : episode'[j] = IF j = i THEN NewEpisode ELSE episode[j]
    BY <2>1 DEF EpisodeTypeOK
  <2>5. PromotedStays' /\ PickedFresh'
    BY <1>2, <2>1, <2>2, <2>4 DEF InsertEpisode, PromotedStays, PickedFresh, Episodes
  <2>6. EpisodesGone'
    BY <1>2 DEF InsertEpisode, EpisodesGone, Stores, Known, ErasureTypeOK
  <2>7. QED BY <2>3, <2>5, <2>6
<1>3. ASSUME NEW e \in Extractions, NothingToInsert(e) PROVE EpisodeInv'
  BY <1>3 DEF NothingToInsert, EpisodeTypeOK, EpisodeRow, PromotedStays, PickedFresh, EpisodesGone, Episodes, Known, ErasureTypeOK, eraseVars, episodeVars
<1>4. ASSUME PickRecent PROVE EpisodeInv'
  BY <1>4 DEF PickRecent, EpisodeTypeOK, EpisodeRow, PromotedStays, PickedFresh, EpisodesGone, Episodes, Known, ErasureTypeOK, eraseVars, episodeVars, Fresh
<1>5. ASSUME NEW i \in EpisodeIds, Promote(i) PROVE EpisodeInv'
  <2>1. CASE episode' = episode
    BY <1>5, <2>1 DEF Promote, EpisodeTypeOK, PromotedStays, PickedFresh, EpisodesGone, Episodes, Known, eraseVars
  <2>2. CASE episode[i] # None /\ episode' = [episode EXCEPT ![i].promoted = TRUE]
    <3>1. i \in Episodes /\ episode[i] \in EpisodeRow /\ ~episode[i].decayed
      BY <1>5, <2>2 DEF Promote, EpisodeTypeOK, Episodes, PickedFresh, EpisodeRow
    <3>2. \A j \in EpisodeIds : episode'[j] = IF j = i THEN [episode[i] EXCEPT !.promoted = TRUE] ELSE episode[j]
      BY <2>2 DEF EpisodeTypeOK
    <3>3. episode'[i] \in EpisodeRow /\ ~episode'[i].decayed /\ episode'[i] # None
      BY <3>1, <3>2, RowIsNotNone DEF EpisodeRow
    <3>4. EpisodeTypeOK'
      BY <1>5, <2>2, <3>1, <3>3 DEF Promote, EpisodeTypeOK, EpisodeRow
    <3>5. Episodes' = Episodes
      BY <3>1, <3>2, <3>3 DEF Episodes
    <3>6. PromotedStays' /\ PickedFresh'
      BY <1>5, <3>2, <3>3, <3>5 DEF Promote, PromotedStays, PickedFresh, Episodes
    <3>7. EpisodesGone'
      BY <1>5, <3>5 DEF Promote, EpisodesGone, Known, eraseVars
    <3>8. QED BY <3>4, <3>6, <3>7
  <2>3. QED BY <1>5, <2>1, <2>2 DEF Promote
<1>6. ASSUME PromoteFails PROVE EpisodeInv'
  BY <1>6 DEF PromoteFails, EpisodeTypeOK, EpisodeRow, PromotedStays, PickedFresh, EpisodesGone, Episodes, Known, ErasureTypeOK, eraseVars, episodeVars
<1>7. ASSUME Decay PROVE EpisodeInv'
  <2>1. PICK old \in SUBSET Fading :
          episode' = [i \in EpisodeIds |->
            IF i \in old THEN [episode[i] EXCEPT !.decayed = TRUE] ELSE episode[i]]
    BY <1>7 DEF Decay
  <2>2. \A i \in old : i \in Episodes /\ i \notin picked /\ ~episode[i].promoted /\ episode[i] \in EpisodeRow
    BY <2>1 DEF Fading, Fresh, Episodes, EpisodeTypeOK, EpisodeRow
  <2>3. \A i \in old : episode'[i] \in EpisodeRow /\ ~episode'[i].promoted /\ episode'[i] # None
    BY <2>1, <2>2, RowIsNotNone DEF EpisodeRow, Episodes
  <2>4. \A i \in EpisodeIds \ old : episode'[i] = episode[i]
    BY <2>1
  <2>5. EpisodeTypeOK'
    BY <1>7, <2>1, <2>3, <2>4 DEF Decay, EpisodeTypeOK, EpisodeRow
  <2>6. Episodes' = Episodes
    BY <2>2, <2>3, <2>4 DEF Episodes
  <2>7. PromotedStays' /\ PickedFresh'
    BY <1>7, <2>2, <2>3, <2>4, <2>6 DEF Decay, PromotedStays, PickedFresh, Episodes
  <2>8. EpisodesGone'
    BY <1>7, <2>6 DEF Decay, EpisodesGone, Known, eraseVars
  <2>9. QED BY <2>5, <2>7, <2>8
<1>8. ASSUME BeginReflection PROVE EpisodeInv'
  BY <1>8 DEF BeginReflection, EpisodeTypeOK, EpisodeRow, PromotedStays, PickedFresh, EpisodesGone, Episodes, Known, ErasureTypeOK, eraseVars, episodeVars
<1>9. ASSUME SaveReflection PROVE EpisodeInv'
  BY <1>9 DEF SaveReflection, EpisodeTypeOK, EpisodeRow, PromotedStays, PickedFresh, EpisodesGone, Episodes, Known, ErasureTypeOK, eraseVars, episodeVars, Stores
<1>10. ASSUME DropReflection PROVE EpisodeInv'
  BY <1>10 DEF DropReflection, EpisodeTypeOK, EpisodeRow, PromotedStays, PickedFresh, EpisodesGone, Episodes, Known, ErasureTypeOK, eraseVars, episodeVars
<1>11. ASSUME EraseEpisodes PROVE EpisodeInv'
  BY <1>11 DEF EraseEpisodes, EpisodeTypeOK, EpisodeRow, PromotedStays, PickedFresh, EpisodesGone, Episodes, Known, ErasureTypeOK, eraseVars, episodeVars, BaseErased
<1>12. ASSUME EraseGraphOnly PROVE EpisodeInv'
  BY <1>12 DEF EraseGraphOnly, EpisodeTypeOK, EpisodeRow, PromotedStays, PickedFresh, EpisodesGone, Episodes, Known, ErasureTypeOK, eraseVars, episodeVars, GraphErased
<1>13. QED BY <1>1, <1>2, <1>3, <1>4, <1>5, <1>6, <1>7, <1>8, <1>9, <1>10, <1>11, <1>12 DEF EpisodeNext

-------------------------------------------------------------------------------
(* Facts, commitments, the profile.                                         *)

AtMostOne(S) == \A x, y \in S : x = y

LEMMA SmallSets ==
  ASSUME NEW S, IsFiniteSet(S)
  PROVE  Cardinality(S) <= 1 <=> AtMostOne(S)
<1>1. ASSUME Cardinality(S) <= 1, NEW x \in S, NEW y \in S, x # y PROVE FALSE
  <2>1. IsFiniteSet({x}) /\ Cardinality({x}) = 1
    BY FS_Singleton
  <2>2. Cardinality({x} \cup {y}) = 2
    BY <1>1, <2>1, FS_AddElement
  <2>3. Cardinality({x} \cup {y}) <= Cardinality(S)
    BY <1>1, FS_Subset
  <2>4. Cardinality(S) \in Nat
    BY FS_CardinalityType
  <2>5. QED BY <1>1, <2>2, <2>3, <2>4
<1>2. ASSUME AtMostOne(S) PROVE Cardinality(S) <= 1
  <2>1. CASE S = {}
    BY <2>1, FS_EmptySet
  <2>2. CASE \E x \in S : TRUE
    <3>1. PICK x \in S : S = {x}
      BY <1>2, <2>2 DEF AtMostOne
    <3>2. Cardinality({x}) = 1
      BY FS_Singleton
    <3>3. QED BY <3>1, <3>2
  <2>3. QED BY <2>1, <2>2
<1>3. QED BY <1>1, <1>2 DEF AtMostOne

-------------------------------------------------------------------------------
(* Facts.                                                                   *)

HandsOK ==
  \A e \in Extractions :
    /\ At(e) \in {"closing", "inserting"} => writer[e].says \in Contents
    /\ At(e) = "closing" => writer[e].id \in FactIds

\* The fact that stays known is one the clean-up does not mean to close.
KeptFact ==
  told /\ ~lost =>
    \/ \E f \in Current : f \notin losers
    \/ \E e \in Extractions : At(e) = "inserting" /\ writer[e].id # None

SerialWrites ==
  ~crossed =>
    /\ AtMostOne(Writing) /\ AtMostOne(Current)
    /\ \A e \in Extractions : At(e) = "inserting" => Current = {}
    /\ \A e \in Extractions : At(e) = "closing" => Current \subseteq {writer[e].id}

FactInv == FactTypeOK /\ HandsOK /\ KeptFact /\ SerialWrites /\ FactsErased

LEMMA CurrentFinite == IsFiniteSet(Current)
  BY FactAssumption, FS_Subset DEF Current

LEMMA FactInitially == FactInit => FactInv
<1> SUFFICES ASSUME FactInit PROVE FactInv
  OBVIOUS
<1>1. FactTypeOK /\ HandsOK /\ KeptFact
  BY DEF FactInit, FactTypeOK, HandsOK, KeptFact, FreeHand, Hands, At
<1>2. Current = {} /\ Writing = {}
  BY DEF FactInit, Current, Writing, At, FreeHand
<1>3. SerialWrites /\ FactsErased
  BY <1>2 DEF FactInit, SerialWrites, FactsErased, AtMostOne, At, FreeHand
<1>4. QED BY <1>1, <1>3 DEF FactInv

LEMMA FactInvImplies == FactInv => KnownStaysKnown /\ OneCurrentFact
<1> SUFFICES ASSUME FactInv PROVE KnownStaysKnown /\ OneCurrentFact
  OBVIOUS
<1>1. KnownStaysKnown
  BY DEF FactInv, KeptFact, KnownStaysKnown
<1>2. OneCurrentFact
  BY CurrentFinite, SmallSets DEF FactInv, SerialWrites, OneCurrentFact
<1>3. QED BY <1>1, <1>2

LEMMA FactStep ==
  ASSUME FactInv, ErasureTypeOK, FactNext
  PROVE  FactInv'
<1> USE DEF FactInv, FactTypeOK
<1>1. ASSUME NEW e \in Extractions, Extract(e) PROVE FactInv'
  <2> USE <1>1 DEF Extract, At
  <2>1. FactTypeOK' /\ HandsOK'
    BY DEF Hands, HandsOK
  <2>2. KeptFact'
    BY DEF KeptFact, Current, Hands
  <2>3. SerialWrites'
    BY DEF SerialWrites, Current, Writing, AtMostOne, Hands
  <2>4. FactsErased'
    BY DEF FactsErased, Current, eraseVars
  <2>5. QED BY <2>1, <2>2, <2>3, <2>4
<1>2. ASSUME NEW e \in Extractions, NEW c \in Contents, Find(e, c) PROVE FactInv'
  <2> USE DEF At
  <2>0. /\ writer[e].at = "ready" /\ Writing \subseteq Extractions
        /\ fact' = fact /\ losers' = losers /\ told' = told /\ lost' = lost
        /\ erasure' = erasure /\ straggler' = straggler
        /\ crossed' = (Writing # {} \/ (crossed /\ Cardinality(Current) > 1))
        /\ Current' = Current /\ Current \subseteq FactIds
    BY <1>2 DEF Find, eraseVars, Writing, Current
  <2>1. \/ writer' = writer
        \/ Current = {} /\ writer' = [writer EXCEPT ![e] = [at |-> "inserting", id |-> None, says |-> c]]
        \/ \E f \in Current : writer' = [writer EXCEPT ![e] = [at |-> "closing", id |-> f, says |-> c]]
    BY <1>2 DEF Find, FindCurrent
  <2>2. FactTypeOK' /\ HandsOK'
    BY <2>0, <2>1 DEF Hands, HandsOK
  <2>3. KeptFact'
    BY <2>0, <2>1 DEF KeptFact, Hands
  <2>4. ASSUME ~crossed' PROVE Writing = {} /\ AtMostOne(Current)
    <3>1. Cardinality(Current) \in Nat
      BY CurrentFinite, FS_CardinalityType
    <3>2. Cardinality(Current) <= 1 <=> AtMostOne(Current)
      BY CurrentFinite, SmallSets
    <3>3. ~(Cardinality(Current) > 1) => Cardinality(Current) <= 1
      BY <3>1
    <3>4. Writing = {} /\ (~crossed \/ ~(Cardinality(Current) > 1))
      BY <2>0, <2>4
    <3>5. QED BY <3>2, <3>3, <3>4 DEF SerialWrites
  <2>5. ASSUME ~crossed' PROVE Writing' \subseteq {e}
    BY <2>0, <2>1, <2>4, <2>5 DEF Writing, Hands
  <2>6. SerialWrites'
    <3> SUFFICES ASSUME ~crossed' PROVE SerialWrites'
      BY DEF SerialWrites
    <3>1. AtMostOne(Writing)' /\ AtMostOne(Current)'
      BY <2>0, <2>4, <2>5 DEF AtMostOne
    <3>2. \A x \in Extractions : writer'[x].at \in {"closing", "inserting"} => x = e
      BY <2>5 DEF Writing
    <3>3. writer'[e].at = "inserting" => Current = {}
      BY <2>0, <2>1
    <3>4. writer'[e].at = "closing" => Current \subseteq {writer'[e].id}
      BY <2>0, <2>1, <2>4 DEF AtMostOne
    <3>5. QED BY <2>0, <3>1, <3>2, <3>3, <3>4 DEF SerialWrites
  <2>7. FactsErased'
    BY <2>0 DEF FactsErased
  <2>8. QED BY <2>2, <2>3, <2>6, <2>7
<1>3. ASSUME NEW e \in Extractions, CloseOld(e) PROVE FactInv'
  <2> USE <1>3 DEF CloseOld, At
  <2>0. writer[e].id \in FactIds /\ writer[e].id # None /\ Current' = Current \ {writer[e].id}
    BY FactAssumption DEF HandsOK, Current
  <2>1. FactTypeOK' /\ HandsOK'
    BY <2>0 DEF Hands, HandsOK
  <2>2. KeptFact'
    BY <2>0 DEF KeptFact
  <2>3. Writing' = Writing
    BY DEF Writing, Hands
  <2>4. SerialWrites'
    BY <2>0, <2>3 DEF SerialWrites, AtMostOne, Writing, Hands
  <2>5. FactsErased'
    BY <2>0 DEF FactsErased, eraseVars
  <2>6. QED BY <2>1, <2>2, <2>4, <2>5
<1>4. ASSUME NEW e \in Extractions, InsertFact(e) PROVE FactInv'
  <2> USE DEF At
  <2>0. PICK f \in FreeIds : fact' = [fact EXCEPT ![f] = writer[e].says]
    BY <1>4 DEF InsertFact
  <2>1. /\ writer[e].at = "inserting"
        /\ writer' = [writer EXCEPT ![e] = [FreeHand EXCEPT !.at = "ready"]]
        /\ losers' = losers /\ crossed' = crossed /\ told' = TRUE /\ lost' = FALSE
        /\ erasure' = erasure /\ straggler' = (straggler \/ erasure # "none")
    BY <1>4 DEF InsertFact, Stores, Known
  <2>2. f \in FactIds /\ f \notin losers /\ fact[f] = None
    BY DEF FreeIds, HeldIds
  <2>3. writer[e].says \in Contents /\ writer[e].says # None
    BY <2>1, MemoryAssumption DEF HandsOK
  <2>4. Current' = Current \cup {f}
    BY <2>0, <2>2, <2>3 DEF Current
  <2>5. FactTypeOK' /\ HandsOK'
    BY <2>0, <2>1, <2>2, <2>3 DEF Hands, HandsOK, FreeHand
  <2>6. KeptFact'
    BY <2>1, <2>2, <2>4 DEF KeptFact
  <2>7. Writing' = Writing \ {e} /\ e \in Writing
    BY <2>1 DEF Writing, FreeHand, Hands
  <2>8. SerialWrites'
    <3> SUFFICES ASSUME ~crossed PROVE SerialWrites'
      BY <2>1 DEF SerialWrites
    <3>1. Current = {} /\ AtMostOne(Writing)
      BY <2>1 DEF SerialWrites
    <3>2. Writing' = {}
      BY <2>7, <3>1 DEF AtMostOne
    <3>3. \A x \in Extractions : writer'[x].at \notin {"closing", "inserting"}
      BY <3>2 DEF Writing
    <3>4. QED BY <2>4, <3>1, <3>2, <3>3 DEF SerialWrites, AtMostOne
  <2>9. FactsErased'
    BY <2>1 DEF FactsErased
  <2>10. QED BY <2>5, <2>6, <2>8, <2>9
<1>5. ASSUME NEW e \in Extractions, ExtractionEnds(e) PROVE FactInv'
  <2> USE <1>5 DEF ExtractionEnds, At
  <2>1. FactTypeOK' /\ HandsOK'
    BY DEF Hands, HandsOK, FreeHand
  <2>2. KeptFact'
    BY DEF KeptFact, Current, FreeHand, Hands
  <2>3. Current' = Current /\ Writing' \subseteq Writing
    BY DEF Current, Writing, FreeHand, Hands
  <2>4. SerialWrites'
    BY <2>3 DEF SerialWrites, AtMostOne, FreeHand, Hands
  <2>5. FactsErased'
    BY <2>3 DEF FactsErased, eraseVars
  <2>6. QED BY <2>1, <2>2, <2>4, <2>5
<1>6. CASE ReadDuplicates
  <2> USE <1>6 DEF ReadDuplicates
  <2>0. PICK seen \in SUBSET Current : \E kept \in seen : losers' = seen \ {kept}
    OBVIOUS
  <2>1. FactTypeOK' /\ HandsOK'
    BY <2>0 DEF HandsOK, Current, At
  <2>2. KeptFact'
    BY <2>0 DEF KeptFact, Current, At
  <2>3. SerialWrites' /\ FactsErased'
    BY DEF SerialWrites, FactsErased, eraseVars, AtMostOne, Writing, Current, At
  <2>4. QED BY <2>1, <2>2, <2>3
<1>7. ASSUME NEW f \in FactIds, CloseLoser(f) PROVE FactInv'
  <2> USE <1>7 DEF CloseLoser
  <2>0. fact' = fact \/ fact' = [fact EXCEPT ![f] = None]
    OBVIOUS
  <2>1. Current' \subseteq Current /\ \A g \in Current : g \notin losers => g \in Current'
    BY <2>0 DEF Current
  <2>2. FactTypeOK' /\ HandsOK'
    BY <2>0 DEF HandsOK, At
  <2>3. KeptFact'
    BY <2>1 DEF KeptFact, At
  <2>4. SerialWrites'
    BY <2>1 DEF SerialWrites, AtMostOne, Writing, At
  <2>5. FactsErased'
    BY <2>1 DEF FactsErased, eraseVars
  <2>6. QED BY <2>2, <2>3, <2>4, <2>5
<1>8. CASE EraseBaseOfFacts
  BY <1>8 DEF EraseBaseOfFacts, BaseErased, factVars, HandsOK, KeptFact, SerialWrites,
              FactsErased, AtMostOne, Writing, Current, At
<1>9. CASE EraseFacts
  <2> USE <1>9 DEF EraseFacts, GraphErased
  <2>1. Current' = {}
    BY DEF Current
  <2>2. FactTypeOK' /\ HandsOK' /\ KeptFact'
    BY DEF HandsOK, KeptFact, At
  <2>3. SerialWrites' /\ FactsErased'
    BY <2>1 DEF SerialWrites, FactsErased, AtMostOne, Writing, At
  <2>4. QED BY <2>2, <2>3
<1> HIDE DEF FactInv
<1>10. QED
  BY <1>1, <1>2, <1>3, <1>4, <1>5, <1>6, <1>7, <1>8, <1>9 DEF FactNext

-------------------------------------------------------------------------------
(* Commitments.                                                             *)

\* Who inserts has a key, and a session that is about something a node.
HeldOK ==
  /\ \A e \in Extractions : scribe[e].at = "inserting" => scribe[e].key \in Keys
  /\ \A s \in Clients : session[s].at # "closed" => session[s].on \in Nodes

SerialInserts ==
  \A k \in Keys : k \notin doubled =>
    /\ AtMostOne(OpenFor(k)) /\ AtMostOne(Inserting(k))
    /\ Inserting(k) # {} => OpenFor(k) = {}

\* Once the erasure has begun, only a straggler queues or stores.
QueueErased ==
  /\ erasure # "none" /\ ~straggler => queued = {}
  /\ erasure = "done" /\ ~straggler => Stored = {}

CommitmentInv == CommitmentTypeOK /\ HeldOK /\ SerialInserts /\ QueueErased

LEMMA CommitmentInitially == CommitmentInit => CommitmentInv
<1> SUFFICES ASSUME CommitmentInit PROVE CommitmentInv
  OBVIOUS
<1>1. CommitmentTypeOK /\ HeldOK
  BY DEF CommitmentInit, CommitmentTypeOK, HeldOK, Unwritten, NoQuestion
<1>2. Stored = {} /\ queued = {}
  BY DEF CommitmentInit, Stored
<1>3. \A k \in Keys : OpenFor(k) = {} /\ Inserting(k) = {}
  BY <1>2 DEF CommitmentInit, OpenFor, Open, Pending, Due, Inserting, Unwritten
<1>4. SerialInserts /\ QueueErased
  BY <1>2, <1>3 DEF SerialInserts, QueueErased, AtMostOne
<1>5. QED BY <1>1, <1>4 DEF CommitmentInv

LEMMA CommitmentInvImplies ==
  CommitmentInv /\ ErasureTypeOK => OneOpenCommitment /\ CommitmentsErased
<1> SUFFICES ASSUME CommitmentInv, ErasureTypeOK PROVE OneOpenCommitment /\ CommitmentsErased
  OBVIOUS
<1>1. ASSUME NEW k \in Keys, k \notin doubled PROVE Cardinality(OpenFor(k)) <= 1
  <2>1. IsFiniteSet(OpenFor(k))
    BY CommitmentAssumption, FS_Subset DEF OpenFor, Open, Pending, Due, Stored
  <2>2. AtMostOne(OpenFor(k))
    BY <1>1 DEF CommitmentInv, SerialInserts
  <2>3. QED BY <2>1, <2>2, SmallSets
<1>2. CommitmentsErased
  BY DEF CommitmentInv, QueueErased, CommitmentsErased
<1>3. QED BY <1>1, <1>2 DEF OneOpenCommitment

\* What the statements on one node do.
LEMMA StatusUpdate ==
  ASSUME CommitmentTypeOK, NEW n \in Nodes, NEW to \in {"due", "kept", "dropped"},
         commitment' = WithStatus(n, to)
  PROVE  /\ commitment' \in [Nodes -> CommitmentNodes \cup {None}]
         /\ \A m \in Nodes \ {n} : commitment'[m] = commitment[m]
         /\ commitment[n] = None => commitment'[n] = None
         /\ commitment[n] # None =>
              /\ commitment'[n].key = commitment[n].key
              /\ commitment'[n].current = commitment[n].current
              /\ commitment'[n].status = to
  BY DEF CommitmentTypeOK, CommitmentNodes, WithStatus

LEMMA Closure ==
  ASSUME CommitmentTypeOK, NEW n \in Nodes, commitment' = WithoutCurrent(n)
  PROVE  /\ commitment' \in [Nodes -> CommitmentNodes \cup {None}]
         /\ \A m \in Nodes \ {n} : commitment'[m] = commitment[m]
         /\ commitment[n] = None => commitment'[n] = None
         /\ commitment[n] # None =>
              /\ commitment'[n].key = commitment[n].key
              /\ commitment'[n].current = FALSE
              /\ commitment'[n].status = commitment[n].status
<1>1. CASE commitment[n] = None
  BY <1>1 DEF CommitmentTypeOK, WithoutCurrent
<1>2. CASE commitment[n] # None
  <2>1. commitment' = [commitment EXCEPT ![n].current = FALSE]
    BY <1>2 DEF WithoutCurrent
  <2>2. commitment[n] \in CommitmentNodes
    BY <1>2 DEF CommitmentTypeOK
  <2>3. [commitment[n] EXCEPT !.current = FALSE] \in CommitmentNodes
    BY <2>2 DEF CommitmentNodes
  <2>4. commitment'[n] = [commitment[n] EXCEPT !.current = FALSE]
    BY <2>1 DEF CommitmentTypeOK
  <2>5. QED BY <1>2, <2>1, <2>2, <2>3, <2>4 DEF CommitmentTypeOK, CommitmentNodes
<1>3. QED BY <1>1, <1>2

\* A step that opens no node and moves no extraction.
LEMMA NoneOpened ==
  ASSUME SerialInserts, scribe' = scribe, doubled \subseteq doubled',
         \A k \in Keys \ doubled' : OpenFor(k)' \subseteq OpenFor(k)
  PROVE  SerialInserts'
<1>1. \A k \in Keys : Inserting(k)' = Inserting(k)
  BY DEF Inserting
<1>2. QED BY <1>1 DEF SerialInserts, AtMostOne

LEMMA CommitmentStep ==
  ASSUME CommitmentInv, ErasureTypeOK, CommitmentNext
  PROVE  CommitmentInv'
<1> USE DEF CommitmentInv
<1> DEFINE Shape == CommitmentTypeOK /\ HeldOK
<1>0. ASSUME UNCHANGED <<commitment, scribe>>, doubled' = doubled PROVE SerialInserts'
  <2>1. \A k \in Keys : OpenFor(k)' = OpenFor(k)
    BY <1>0 DEF OpenFor, Open, Pending, Due, Stored
  <2>2. QED BY <1>0, <2>1, NoneOpened
<1>1. ASSUME NEW e \in Extractions, Hear(e) PROVE CommitmentInv'
  <2> USE <1>1 DEF Hear
  <2>1. Shape'
    BY DEF CommitmentTypeOK, HeldOK
  <2>2. \A k \in Keys : Inserting(k)' = Inserting(k) /\ OpenFor(k)' = OpenFor(k)
    BY DEF CommitmentTypeOK, Inserting, OpenFor, Open, Pending, Due, Stored
  <2>3. SerialInserts' /\ QueueErased'
    BY <2>2 DEF SerialInserts, QueueErased, AtMostOne, Stored, eraseVars
  <2>4. QED BY <2>1, <2>3
<1>2. ASSUME NEW e \in Extractions, NEW k \in Keys, FindOpen(e, k) PROVE CommitmentInv'
  <2>0. /\ commitment' = commitment /\ queued' = queued /\ scribe[e].at = "ready"
        /\ erasure' = erasure /\ straggler' = straggler
        /\ \A j \in Keys : OpenFor(j)' = OpenFor(j)
    BY <1>2 DEF FindOpen, eraseVars, OpenFor, Open, Pending, Due, Stored
  <2>1. CASE OpenFor(k) # {}
    <3>1. scribe' = scribe /\ doubled' = doubled
      BY <1>2, <2>1 DEF FindOpen
    <3>2. Shape' /\ QueueErased'
      BY <1>2, <3>1 DEF FindOpen, CommitmentTypeOK, HeldOK, QueueErased, Stored, eraseVars
    <3>3. QED BY <1>0, <2>0, <3>1, <3>2
  <2>2. CASE OpenFor(k) = {}
    <3>1. /\ scribe' = [scribe EXCEPT ![e] = [at |-> "inserting", key |-> k]]
          /\ doubled' = IF Inserting(k) # {} THEN doubled \cup {k} ELSE doubled \ {k}
      BY <1>2, <2>2 DEF FindOpen
    <3>2. Shape' /\ QueueErased'
      BY <1>2, <3>1 DEF FindOpen, CommitmentTypeOK, HeldOK, QueueErased, Stored, eraseVars
    <3>3. Inserting(k)' \subseteq Inserting(k) \cup {e}
      BY <3>1 DEF Inserting, CommitmentTypeOK
    <3>4. ASSUME NEW j \in Keys \ {k} PROVE Inserting(j)' = Inserting(j)
      BY <2>0, <3>1, <3>4 DEF Inserting, CommitmentTypeOK
    <3>5. ASSUME k \notin doubled' PROVE AtMostOne(Inserting(k))'
      BY <3>1, <3>3, <3>5 DEF AtMostOne
    <3>6. ASSUME NEW j \in Keys, j \notin doubled'
          PROVE  /\ AtMostOne(OpenFor(j))' /\ AtMostOne(Inserting(j))'
                 /\ Inserting(j)' # {} => OpenFor(j)' = {}
      <4>1. CASE j = k
        BY <2>0, <2>2, <3>5, <3>6, <4>1 DEF AtMostOne
      <4>2. CASE j # k
        BY <2>0, <3>1, <3>4, <3>6, <4>2 DEF SerialInserts, AtMostOne
      <4>3. QED BY <4>1, <4>2
    <3>7. SerialInserts'
      BY <3>6 DEF SerialInserts
    <3>8. QED BY <3>2, <3>7
  <2>3. QED BY <2>1, <2>2
<1>3. ASSUME NEW e \in Extractions, InsertCommitment(e) PROVE CommitmentInv'
  <2>k. PICK k \in Keys : k = scribe[e].key
    BY <1>3 DEF InsertCommitment, HeldOK
  <2>0. PICK n \in FreeNodes : commitment' =
          [commitment EXCEPT ![n] = [key |-> k, status |-> "pending", current |-> TRUE]]
    BY <1>3, <2>k DEF InsertCommitment
  <2>1. /\ scribe[e].at = "inserting" /\ scribe[e].key = k
        /\ scribe' = [scribe EXCEPT ![e] = [at |-> "ready", key |-> None]]
        /\ queued' = queued /\ doubled' = doubled
        /\ straggler' = (straggler \/ erasure # "none")
    BY <1>3, <2>k DEF InsertCommitment, Stores, Known
  <2>2. n \in Nodes /\ [key |-> k, status |-> "pending", current |-> TRUE] \in CommitmentNodes
    BY DEF FreeNodes, CommitmentNodes
  <2>3. Shape'
    <3>1. commitment' \in [Nodes -> CommitmentNodes \cup {None}]
      BY <2>0, <2>2 DEF CommitmentTypeOK
    <3>2. QED BY <1>3, <2>1, <3>1 DEF InsertCommitment, CommitmentTypeOK, HeldOK
  <2>4. QueueErased'
    BY <1>3, <2>1 DEF InsertCommitment, Stores, QueueErased
  <2>5. ASSUME NEW j \in Keys, j # k
        PROVE  OpenFor(j)' \subseteq OpenFor(j) /\ Inserting(j)' = Inserting(j)
    BY <2>0, <2>1, <2>2, <2>5
    DEF OpenFor, Open, Pending, Due, Stored, Inserting, CommitmentTypeOK
  <2>6. /\ OpenFor(k)' \subseteq OpenFor(k) \cup {n}
        /\ Inserting(k)' = Inserting(k) \ {e} /\ e \in Inserting(k)
    <3>1. OpenFor(k)' \subseteq OpenFor(k) \cup {n}
      BY <2>0, <2>2 DEF OpenFor, Open, Pending, Due, Stored, CommitmentTypeOK
    <3>2. scribe[e] = [at |-> "inserting", key |-> k]
      BY <2>1 DEF CommitmentTypeOK
    <3>3. QED BY <2>1, <3>1, <3>2 DEF Inserting, CommitmentTypeOK
  <2>7. ASSUME NEW j \in Keys, j \notin doubled
        PROVE  /\ AtMostOne(OpenFor(j))' /\ AtMostOne(Inserting(j))'
               /\ Inserting(j)' # {} => OpenFor(j)' = {}
    <3>0. /\ AtMostOne(OpenFor(j)) /\ AtMostOne(Inserting(j))
          /\ Inserting(j) # {} => OpenFor(j) = {}
      BY <2>7 DEF SerialInserts
    <3>1. CASE j = k
      <4>1. OpenFor(k) = {} /\ Inserting(k)' = {}
        BY <2>6, <3>0, <3>1 DEF AtMostOne
      <4>2. AtMostOne(OpenFor(k)')
        BY <2>6, <4>1 DEF AtMostOne
      <4>3. QED BY <3>1, <4>1, <4>2 DEF AtMostOne
    <3>2. CASE j # k
      BY <2>5, <3>0, <3>2 DEF AtMostOne
    <3>3. QED BY <3>1, <3>2
  <2>8. SerialInserts'
    BY <2>1, <2>7 DEF SerialInserts
  <2>9. QED BY <2>3, <2>4, <2>8
<1>4. ASSUME NEW e \in Extractions, HearingEnds(e) PROVE CommitmentInv'
  <2> USE <1>4 DEF HearingEnds
  <2>1. Shape' /\ QueueErased'
    BY DEF CommitmentTypeOK, HeldOK, Unwritten, QueueErased, Stored, eraseVars
  <2>2. \A k \in Keys : Inserting(k)' \subseteq Inserting(k) /\ OpenFor(k)' = OpenFor(k)
    BY DEF CommitmentTypeOK, Unwritten, Inserting, OpenFor, Open, Pending, Due, Stored
  <2>3. SerialInserts'
    BY <2>2 DEF SerialInserts, AtMostOne
  <2>4. QED BY <2>1, <2>3
<1>5. CASE MergeReads \/ TickReads \/ NightPassDrops
  <2>1. /\ UNCHANGED <<commitment, scribe, engine, queued, session, doubled, eraseVars>>
        /\ merging' \subseteq Nodes /\ ticking' \subseteq Nodes
    BY <1>5 DEF MergeReads, TickReads, NightPassDrops, Open, Pending, Due, Stored, CommitmentTypeOK
  <2>2. Shape' /\ QueueErased'
    BY <2>1 DEF CommitmentTypeOK, HeldOK, QueueErased, Stored, eraseVars
  <2>3. QED BY <1>0, <2>1, <2>2
<1>6. ASSUME NEW n \in Nodes, MergeCloses(n) PROVE CommitmentInv'
  <2> USE <1>6 DEF MergeCloses
  <2>1. commitment' \in [Nodes -> CommitmentNodes \cup {None}] /\ Stored' \subseteq Stored
    BY Closure DEF Stored, CommitmentTypeOK
  <2>2. \A k \in Keys : OpenFor(k)' \subseteq OpenFor(k)
    BY Closure DEF OpenFor, Open, Pending, Due, Stored, CommitmentTypeOK
  <2>3. SerialInserts'
    BY <2>2, NoneOpened
  <2>4. Shape' /\ QueueErased'
    BY <2>1 DEF CommitmentTypeOK, HeldOK, QueueErased, eraseVars
  <2>5. QED BY <2>3, <2>4
<1>7. ASSUME NEW n \in Nodes, TickMarks(n) PROVE CommitmentInv'
  <2> USE <1>7 DEF TickMarks
  <2>1. commitment' \in [Nodes -> CommitmentNodes \cup {None}] /\ Stored' \subseteq Stored
    BY StatusUpdate DEF Stored, CommitmentTypeOK
  <2>2. doubled' \in SUBSET Keys /\ doubled \subseteq doubled'
    BY DEF CommitmentTypeOK, CommitmentNodes, Resolved, Stored
  <2>3. ASSUME NEW k \in Keys \ doubled' PROVE OpenFor(k)' \subseteq OpenFor(k)
    <3>1. n \notin Resolved \/ commitment[n].key # k
      BY <2>3
    <3>2. commitment[n] # None => commitment[n] \in CommitmentNodes
      BY DEF CommitmentTypeOK
    <3>3. \A m \in Nodes \ {n} : m \in OpenFor(k)' => m \in OpenFor(k)
      BY StatusUpdate DEF OpenFor, Open, Pending, Due, Stored
    <3>4. n \in OpenFor(k)' => n \in OpenFor(k)
      BY StatusUpdate, <3>1, <3>2
      DEF OpenFor, Open, Pending, Due, Stored, Resolved, CommitmentNodes
    <3>5. QED BY <3>3, <3>4 DEF OpenFor, Open, Pending, Due, Stored
  <2>4. SerialInserts'
    BY <2>2, <2>3, NoneOpened
  <2>5. Shape' /\ QueueErased'
    BY <2>1, <2>2 DEF CommitmentTypeOK, HeldOK, QueueErased, eraseVars
  <2>6. QED BY <2>4, <2>5
<1>8. CASE EngineReads \/ EngineGivesUp
  <2>1. /\ UNCHANGED <<commitment, scribe, merging, ticking, queued, session, doubled, eraseVars>>
        /\ engine' \in Nodes \cup {None}
    BY <1>8 DEF EngineReads, EngineGivesUp, Open, Pending, Due, Stored
  <2>2. Shape' /\ QueueErased'
    BY <2>1 DEF CommitmentTypeOK, HeldOK, QueueErased, Stored, eraseVars
  <2>3. QED BY <1>0, <2>1, <2>2
<1>9. CASE EngineQueues
  <2>1. Shape' /\ QueueErased'
    BY <1>9 DEF EngineQueues, Stores, Known, CommitmentTypeOK, HeldOK, QueueErased, Stored
  <2>2. QED BY <1>0, <1>9, <2>1 DEF EngineQueues
<1>10. ASSUME NEW s \in Clients, ReadCheckin(s) \/ OpenWith(s) \/ Leave(s) PROVE CommitmentInv'
  <2>1. /\ UNCHANGED <<commitment, scribe, merging, ticking, engine, doubled, eraseVars>>
        /\ queued' \subseteq queued
    BY <1>10 DEF ReadCheckin, OpenWith, Leave
  <2>2. session' \in [Clients -> [at : {"closed", "read", "armed"}, on : Nodes \cup {None}]]
    BY <1>10 DEF ReadCheckin, OpenWith, Leave, CommitmentTypeOK, NoQuestion
  <2>3. HeldOK'
    BY <1>10, <2>1 DEF ReadCheckin, OpenWith, Leave, CommitmentTypeOK, HeldOK, NoQuestion
  <2>4. CommitmentTypeOK' /\ QueueErased'
    BY <2>1, <2>2 DEF CommitmentTypeOK, QueueErased, Stored, eraseVars
  <2>5. QED BY <1>0, <2>1, <2>3, <2>4
<1>11. ASSUME NEW s \in Clients, NEW how \in {"kept", "dropped"}, Answer(s, how)
       PROVE  CommitmentInv'
  <2> USE <1>11 DEF Answer
  <2>0. session[s].on \in Nodes
    BY DEF HeldOK
  <2>1. commitment' \in [Nodes -> CommitmentNodes \cup {None}] /\ Stored' \subseteq Stored
    BY <2>0, StatusUpdate DEF Stored, CommitmentTypeOK
  <2>2. ASSUME NEW k \in Keys PROVE OpenFor(k)' \subseteq OpenFor(k)
    BY <2>0, StatusUpdate DEF OpenFor, Open, Pending, Due, Stored
  <2>3. SerialInserts'
    BY <2>2, NoneOpened
  <2>4. Shape' /\ QueueErased'
    BY <2>1 DEF CommitmentTypeOK, HeldOK, QueueErased, NoQuestion, eraseVars
  <2>5. QED BY <2>3, <2>4
<1>12. CASE EraseCheckins
  <2>1. Shape' /\ QueueErased'
    BY <1>12 DEF EraseCheckins, BaseErased, CommitmentTypeOK, HeldOK, QueueErased, Stored
  <2>2. QED BY <1>0, <1>12, <2>1 DEF EraseCheckins
<1>13. CASE EraseCommitments
  <2> USE <1>13 DEF EraseCommitments, GraphErased
  <2>1. Shape' /\ Stored' = {}
    BY DEF CommitmentTypeOK, HeldOK, Stored
  <2>2. \A k \in Keys : OpenFor(k)' = {}
    BY <2>1 DEF OpenFor, Open, Pending, Due
  <2>3. SerialInserts'
    BY <2>2, NoneOpened
  <2>4. QueueErased'
    BY <2>1 DEF QueueErased
  <2>5. QED BY <2>1, <2>3, <2>4
<1> HIDE DEF CommitmentInv
<1>14. QED
  BY <1>1, <1>2, <1>3, <1>4, <1>5, <1>6, <1>7, <1>8, <1>9, <1>10, <1>11, <1>12, <1>13
  DEF CommitmentNext

LEMMA ResolutionStep ==
  ASSUME CommitmentInv, CommitmentNext, NEW n \in Resolved \ ticking, commitment'[n] # None
  PROVE  n \in Resolved' \ ticking'
<1> USE DEF CommitmentInv
<1>0. /\ n \in Nodes /\ commitment[n] # None /\ n \notin Pending /\ n \in Stored
      /\ commitment[n].status \in {"kept", "dropped"} /\ n \notin ticking
  BY DEF Resolved, Stored, Pending
<1>1. ASSUME commitment'[n] = commitment[n], ticking' \subseteq ticking \cup Pending
      PROVE  n \in Resolved' \ ticking'
  BY <1>0, <1>1 DEF Resolved, Stored
<1>2. CASE TickReads
  BY <1>1, <1>2 DEF TickReads
<1>3. CASE NightPassDrops
  BY <1>1, <1>3 DEF NightPassDrops
<1>4. ASSUME NEW m \in Nodes, TickMarks(m) PROVE n \in Resolved' \ ticking'
  <2>1. n # m /\ ticking' = ticking \ {m} /\ commitment' = WithStatus(m, "due")
    BY <1>0, <1>4 DEF TickMarks
  <2>2. QED BY <1>0, <1>1, <2>1, StatusUpdate
<1>5. ASSUME NEW m \in Nodes, MergeCloses(m) PROVE n \in Resolved' \ ticking'
  <2>1. commitment' = WithoutCurrent(m) /\ ticking' = ticking
    BY <1>5 DEF MergeCloses
  <2>2. commitment'[n].status = commitment[n].status
    BY <1>0, <2>1, Closure
  <2>3. QED BY <1>0, <2>1, <2>2 DEF Resolved, Stored
<1>6. ASSUME NEW s \in Clients, NEW how \in {"kept", "dropped"}, Answer(s, how)
      PROVE  n \in Resolved' \ ticking'
  <2>1. /\ commitment' = WithStatus(session[s].on, how) /\ ticking' = ticking
        /\ session[s].on \in Nodes
    BY <1>6 DEF Answer, HeldOK
  <2>2. commitment'[n].status \in {"kept", "dropped"}
    BY <1>0, <2>1, StatusUpdate
  <2>3. QED BY <1>0, <2>1, <2>2 DEF Resolved, Stored
<1>7. ASSUME NEW e \in Extractions, InsertCommitment(e) PROVE n \in Resolved' \ ticking'
  <2>1. PICK m \in FreeNodes : commitment' =
          [commitment EXCEPT ![m] = [key |-> scribe[e].key, status |-> "pending", current |-> TRUE]]
    BY <1>7 DEF InsertCommitment
  <2>2. m # n
    BY <1>0 DEF FreeNodes
  <2>3. QED BY <1>0, <1>1, <1>7, <2>1, <2>2 DEF InsertCommitment, CommitmentTypeOK
<1>8. CASE EraseCommitments
  BY <1>0, <1>8 DEF EraseCommitments
<1>9. CASE UNCHANGED <<commitment, ticking>>
  BY <1>1, <1>9
<1>10. QED
  BY <1>2, <1>3, <1>4, <1>5, <1>6, <1>7, <1>8, <1>9
  DEF CommitmentNext, Hear, FindOpen, HearingEnds, MergeReads, EngineReads, EngineQueues,
      EngineGivesUp, ReadCheckin, OpenWith, Leave, EraseCheckins

-------------------------------------------------------------------------------
(* Profile.                                                                 *)

\* The sessions that did not ask make up for the cooldown that is left; who is
\* asking saw it over, or was overtaken.
Spacing ==
  /\ remaining + since >= Cooldown
  /\ \A s \in Sessions : question[s].at = "asking" => since = Cooldown \/ s \in overtaken

RowErased ==
  /\ erasure # "none" /\ ~straggler => dimension = None /\ remaining = 0
  /\ erasure = "done" /\ ~straggler => CurrentTraits = {}

ProfileInv == ProfileTypeOK /\ Spacing /\ RowErased

LEMMA ProfileInitially == ProfileInit => ProfileInv
<1> SUFFICES ASSUME ProfileInit PROVE ProfileInv
  OBVIOUS
<1>1. ProfileTypeOK
  BY ProfileAssumption DEF ProfileInit, ProfileTypeOK, PenDown, NotAsking
<1>2. Spacing
  BY ProfileAssumption DEF ProfileInit, Spacing, NotAsking
<1>3. RowErased
  BY DEF ProfileInit, RowErased, CurrentTraits
<1>4. QED BY <1>1, <1>2, <1>3 DEF ProfileInv

\* A step that neither asks, ends a session nor erases the base.
LEMMA NothingAsked ==
  ASSUME Spacing, UNCHANGED <<remaining, since>>, overtaken' = overtaken,
         \A s \in Sessions : question'[s].at = "asking" => question[s].at = "asking"
  PROVE  Spacing'
  BY DEF Spacing

LEMMA ProfileStep ==
  ASSUME ProfileInv, ErasureTypeOK, ProfileNext
  PROVE  ProfileInv'
<1> USE DEF ProfileInv
<1> DEFINE Pens == [Writers -> [at : {"idle", "find", "closing", "merging", "inserting"},
                                id : TraitIds \cup {None}, new : Trait \cup {None}]]
<1>1. ASSUME NEW c \in Contents, Detect(c) PROVE ProfileInv'
  <2> USE <1>1 DEF Detect, questionVars, eraseVars
  <2>1. ProfileTypeOK'
    BY DEF ProfileTypeOK, Trait, Writers
  <2>2. Spacing' /\ RowErased'
    BY NothingAsked DEF RowErased, CurrentTraits
  <2>3. QED BY <2>1, <2>2
<1>2. ASSUME NEW c \in Contents, PutDimension(c) PROVE ProfileInv'
  <2>1. /\ snapshot.status \notin {"not_read", "corrected"}
        /\ dimension' \in Merged(snapshot, c) /\ snapshot' = NotRead
        /\ UNCHANGED <<trait, pen, question, fired, remaining, since, overtaken>>
        /\ straggler' = (straggler \/ erasure # "none") /\ erasure' = erasure
    BY <1>2 DEF PutDimension, Stores, Known, questionVars
  <2>2. snapshot.status # "absent" => snapshot \in DimensionRows
    BY <2>1 DEF ProfileTypeOK, NotRead
  <2>3. dimension' \in DimensionRows
    <3>1. CASE snapshot.status = "absent"
      BY <2>1, <3>1 DEF Merged, DimensionRows
    <3>2. CASE snapshot.status = "unconfirmed"
      <4>1. [snapshot EXCEPT !.value = c] \in DimensionRows /\ snapshot \in DimensionRows
        BY <2>2, <3>2 DEF DimensionRows
      <4>2. QED BY <2>1, <3>2, <4>1 DEF Merged
    <3>3. CASE snapshot.status \notin {"absent", "unconfirmed"}
      BY <2>1, <2>2, <3>3 DEF Merged
    <3>4. QED BY <3>1, <3>2, <3>3
  <2>4. ProfileTypeOK'
    BY <2>1, <2>3 DEF ProfileTypeOK
  <2>5. Spacing' /\ RowErased'
    BY <2>1, NothingAsked DEF RowErased
  <2>6. QED BY <2>4, <2>5
<1>3. ASSUME NEW w \in Writers, FindTrait(w) PROVE ProfileInv'
  <2>1. /\ UNCHANGED <<trait, dimension, snapshot, questionVars, eraseVars>>
        /\ \/ pen' = [pen EXCEPT ![w].at = "inserting"]
           \/ pen' = [pen EXCEPT ![w] = PenDown]
           \/ \E t \in TraitIds : pen' = [pen EXCEPT ![w] = [@ EXCEPT !.at = "closing", !.id = t]]
    BY <1>3 DEF FindTrait, CurrentTraits
  <2>2. pen' \in Pens
    <3>0. pen \in Pens
      BY DEF ProfileTypeOK
    <3>1. CASE pen' = [pen EXCEPT ![w].at = "inserting"]
      BY <3>0, <3>1
    <3>2. CASE pen' = [pen EXCEPT ![w] = PenDown]
      BY <3>0, <3>2 DEF PenDown
    <3>3. ASSUME NEW t \in TraitIds, pen' = [pen EXCEPT ![w] = [@ EXCEPT !.at = "closing", !.id = t]]
          PROVE  pen' \in Pens
      BY <3>0, <3>3
    <3>4. QED BY <2>1, <3>1, <3>2, <3>3
  <2>3. ProfileTypeOK'
    BY <2>1, <2>2 DEF ProfileTypeOK, questionVars
  <2>4. Spacing' /\ RowErased'
    BY <2>1, NothingAsked DEF RowErased, CurrentTraits, questionVars, eraseVars
  <2>5. QED BY <2>3, <2>4
<1>4. ASSUME NEW w \in Writers, CloseTrait(w) PROVE ProfileInv'
  <2> USE <1>4 DEF CloseTrait, questionVars, eraseVars
  <2>1. ProfileTypeOK'
    <3>0. pen \in Pens /\ trait \in [TraitIds -> Trait \cup {None}]
      BY DEF ProfileTypeOK
    <3>1. trait' \in [TraitIds -> Trait \cup {None}]
      BY <3>0
    <3>2. pen' \in Pens
      <4>1. CASE pen[w].at = "closing"
        <5>1. pen' = [pen EXCEPT ![w] = [pen[w] EXCEPT !.at = "inserting", !.id = None]]
          BY <3>0, <4>1
        <5>2. QED BY <3>0, <5>1
      <4>2. CASE pen[w].at # "closing"
        <5>1. pen' = [pen EXCEPT ![w] = PenDown]
          BY <3>0, <4>2
        <5>2. QED BY <3>0, <5>1 DEF PenDown
      <4>3. QED BY <4>1, <4>2
    <3>3. QED BY <3>1, <3>2 DEF ProfileTypeOK
  <2>2. CurrentTraits' \subseteq CurrentTraits
    BY DEF CurrentTraits, ProfileTypeOK
  <2>3. Spacing' /\ RowErased'
    BY <2>2, NothingAsked DEF RowErased
  <2>4. QED BY <2>1, <2>3
<1>5. ASSUME NEW w \in Writers, InsertTrait(w) PROVE ProfileInv'
  <2> USE <1>5 DEF InsertTrait, Stores, Known, questionVars
  <2>1. ProfileTypeOK'
    BY DEF ProfileTypeOK, PenDown, FreeTraits
  <2>2. Spacing' /\ RowErased'
    BY NothingAsked DEF RowErased
  <2>3. QED BY <2>1, <2>2
<1>6. ASSUME NEW w \in Writers, PenDrops(w) PROVE ProfileInv'
  <2> USE <1>6 DEF PenDrops, questionVars, eraseVars
  <2>1. ProfileTypeOK'
    BY DEF ProfileTypeOK, PenDown
  <2>2. Spacing' /\ RowErased'
    BY NothingAsked DEF RowErased, CurrentTraits
  <2>3. QED BY <2>1, <2>2
<1>7. CASE Consolidate
  <2> USE <1>7 DEF Consolidate, questionVars, eraseVars
  <2>1. PICK t \in TraitIds : pen' = [pen EXCEPT ![Pass] = [at |-> "merging", id |-> t, new |-> None]]
    BY DEF Inferred, CurrentTraits
  <2>2. pen' \in Pens
    BY <2>1 DEF ProfileTypeOK
  <2>3. ProfileTypeOK'
    BY <2>2 DEF ProfileTypeOK
  <2>4. Spacing' /\ RowErased'
    BY NothingAsked DEF RowErased, CurrentTraits
  <2>5. QED BY <2>3, <2>4
<1>8. CASE Prune
  <2> USE <1>8 DEF Prune, questionVars, eraseVars
  <2>1. ProfileTypeOK'
    BY DEF ProfileTypeOK
  <2>2. CurrentTraits' \subseteq CurrentTraits
    BY DEF CurrentTraits
  <2>3. Spacing' /\ RowErased'
    BY <2>2, NothingAsked DEF RowErased
  <2>4. QED BY <2>1, <2>3
<1>9. CASE ReadDimensions \/ LeaveDimension
  <2>1. /\ UNCHANGED <<trait, dimension, pen, questionVars, eraseVars>>
        /\ snapshot' \in DimensionRows \cup {NotRead, [value |-> None, status |-> "absent"]}
    BY <1>9 DEF ReadDimensions, LeaveDimension, ProfileTypeOK
  <2>2. ProfileTypeOK'
    BY <2>1 DEF ProfileTypeOK, questionVars
  <2>3. Spacing' /\ RowErased'
    BY <2>1, NothingAsked DEF RowErased, CurrentTraits, questionVars, eraseVars
  <2>4. QED BY <2>2, <2>3
<1>10. ASSUME NEW s \in Sessions, PrepareQuestion(s) PROVE ProfileInv'
  <2>1. /\ UNCHANGED <<trait, dimension, pen, snapshot, fired, remaining, since, overtaken, eraseVars>>
        /\ \E about \in TraitIds \cup {TheDimension} :
              question' = [question EXCEPT ![s] = [at |-> "asking", about |-> about]]
        /\ remaining = 0
    BY <1>10 DEF PrepareQuestion, Inferred, CurrentTraits
  <2>2. ProfileTypeOK'
    BY <2>1 DEF ProfileTypeOK
  <2>3. since = Cooldown
    <3>1. remaining + since >= Cooldown /\ since \in 0..Cooldown /\ Cooldown \in Nat
      BY ProfileAssumption DEF Spacing, ProfileTypeOK
    <3>2. QED BY <2>1, <3>1
  <2>4. Spacing'
    BY <2>1, <2>3 DEF Spacing
  <2>5. RowErased'
    BY <2>1 DEF RowErased, CurrentTraits, eraseVars
  <2>6. QED BY <2>2, <2>4, <2>5
<1>11. ASSUME NEW s \in Sessions, DropQuestion(s) PROVE ProfileInv'
  <2> USE <1>11 DEF DropQuestion, eraseVars
  <2>1. ProfileTypeOK'
    BY DEF ProfileTypeOK, NotAsking
  <2>2. Spacing'
    BY DEF Spacing, ProfileTypeOK, NotAsking
  <2>3. RowErased'
    BY DEF RowErased, CurrentTraits
  <2>4. QED BY <2>1, <2>2, <2>3
<1>12. ASSUME NEW s \in Sessions, AskQuestion(s) PROVE ProfileInv'
  <2> USE <1>12 DEF AskQuestion, Stores, Known
  <2>1. ProfileTypeOK'
    BY ProfileAssumption DEF ProfileTypeOK
  <2>2. remaining' + since' >= Cooldown
    BY ProfileAssumption
  <2>3. \A o \in Sessions : question'[o].at = "asking" => o \in overtaken'
    BY DEF ProfileTypeOK
  <2>4. RowErased'
    BY DEF RowErased
  <2>5. QED BY <2>1, <2>2, <2>3, <2>4 DEF Spacing
<1>12b. ASSUME NEW s \in Sessions, AskInterrupted(s) PROVE ProfileInv'
  <2> USE <1>12b DEF AskInterrupted, eraseVars
  <2>1. ProfileTypeOK'
    BY DEF ProfileTypeOK
  <2>2. Spacing'
    BY DEF Spacing, ProfileTypeOK
  <2>3. RowErased'
    BY DEF RowErased, CurrentTraits
  <2>4. QED BY <2>1, <2>2, <2>3
<1>13. ASSUME NEW s \in Sessions,
              \/ Confirm(s) \/ CorrectDimension(s) \/ Deflect(s)
              \/ \E words \in Contents \cup {None} : CorrectTrait(s, words)
       PROVE  ProfileInv'
  <2>1. /\ UNCHANGED <<snapshot, fired, remaining, since, overtaken, eraseVars>>
        /\ question' = [question EXCEPT ![s] = NotAsking]
    BY <1>13 DEF Confirm, CorrectDimension, CorrectTrait, Deflect, QuestionOver
  <2>2. dimension' \in DimensionRows \cup {None} /\ (dimension = None => dimension' = None)
    BY <1>13 DEF Confirm, CorrectDimension, CorrectTrait, Deflect, ProfileTypeOK, DimensionRows
  <2>3. /\ trait' \in [TraitIds -> Trait \cup {None}]
        /\ \A t \in TraitIds : trait[t] = None => trait'[t] = None
    <3>1. CASE Confirm(s)
      <4>1. CASE trait' = trait
        BY <4>1 DEF ProfileTypeOK
      <4>2. CASE trait' # trait
        <5>1. trait' = [trait EXCEPT ![question[s].about] = [@ EXCEPT !.status = "confirmed"]]
          BY <3>1, <4>2 DEF Confirm
        <5>2. trait[question[s].about] # None
          BY <3>1, <4>2 DEF Confirm
        <5>3. ASSUME NEW t \in TraitIds, trait[t] # None
              PROVE  [trait[t] EXCEPT !.status = "confirmed"] \in Trait
          BY <5>3 DEF ProfileTypeOK, Trait
        <5>4. QED BY <5>1, <5>2, <5>3 DEF ProfileTypeOK
      <4>3. QED BY <4>1, <4>2
    <3>2. CASE CorrectDimension(s) \/ Deflect(s)
      BY <3>2 DEF CorrectDimension, Deflect, ProfileTypeOK
    <3>3. ASSUME NEW words \in Contents \cup {None}, CorrectTrait(s, words)
          PROVE  /\ trait' \in [TraitIds -> Trait \cup {None}]
                 /\ \A t \in TraitIds : trait[t] = None => trait'[t] = None
      BY <3>3 DEF CorrectTrait, ProfileTypeOK
    <3>4. QED BY <1>13, <3>1, <3>2, <3>3
  <2>4. pen' \in Pens
    <3>1. ASSUME NEW words \in Contents \cup {None}, CorrectTrait(s, words), pen' # pen
          PROVE  /\ pen' = [pen EXCEPT ![s] =
                      [at |-> "find", id |-> None, new |-> [says |-> words, status |-> "confirmed"]]]
                 /\ words \in Contents
      <4>1. ~(words = None \/ erasure = "done")
        BY <3>1 DEF CorrectTrait
      <4>2. QED BY <3>1, <4>1 DEF CorrectTrait
    <3>2. CASE pen' = pen
      BY <3>2 DEF ProfileTypeOK
    <3>3. CASE pen' # pen
      <4>1. PICK words \in Contents : pen' = [pen EXCEPT ![s] =
              [at |-> "find", id |-> None, new |-> [says |-> words, status |-> "confirmed"]]]
        BY <1>13, <3>1, <3>3 DEF Confirm, CorrectDimension, Deflect
      <4>2. [says |-> words, status |-> "confirmed"] \in Trait
        BY DEF Trait
      <4>3. QED BY <4>1, <4>2 DEF ProfileTypeOK
    <3>4. QED BY <3>2, <3>3
  <2>5. ProfileTypeOK'
    BY <2>1, <2>2, <2>3, <2>4 DEF ProfileTypeOK, NotAsking
  <2>6. Spacing'
    <3>1. \A o \in Sessions : question'[o].at = "asking" => question[o].at = "asking"
      BY <2>1 DEF ProfileTypeOK, NotAsking
    <3>2. QED BY <2>1, <3>1, NothingAsked
  <2>7. RowErased'
    BY <2>1, <2>2, <2>3 DEF RowErased, CurrentTraits, eraseVars
  <2>8. QED BY <2>5, <2>6, <2>7
<1>14. ASSUME NEW s \in Sessions, EndSession(s) PROVE ProfileInv'
  <2>1. /\ UNCHANGED <<trait, dimension, pen, snapshot, overtaken, eraseVars>>
        /\ question[s].at # "asking" /\ question' = [question EXCEPT ![s] = NotAsking]
        /\ fired' = fired \ {s}
        /\ remaining' = IF s \notin fired /\ remaining > 0 THEN remaining - 1 ELSE remaining
        /\ since' = IF s \in fired \/ since = Cooldown THEN since ELSE since + 1
    BY <1>14 DEF EndSession, QuestionOver
  <2>2. /\ remaining \in Nat /\ since \in Nat /\ Cooldown \in Nat
        /\ remaining <= Cooldown /\ since <= Cooldown /\ remaining + since >= Cooldown
    BY ProfileAssumption DEF ProfileTypeOK, Spacing
  <2>3. /\ remaining' \in 0..Cooldown /\ since' \in 0..Cooldown
        /\ remaining' + since' >= Cooldown
        /\ remaining = 0 => remaining' = 0
        /\ since = Cooldown => since' = Cooldown
    BY <2>1, <2>2
  <2>4. ProfileTypeOK'
    BY <2>1, <2>3 DEF ProfileTypeOK, NotAsking
  <2>5. Spacing'
    <3>1. \A o \in Sessions : question'[o].at = "asking" => question[o].at = "asking"
      BY <2>1 DEF ProfileTypeOK, NotAsking
    <3>2. QED BY <2>1, <2>3, <3>1 DEF Spacing
  <2>6. RowErased'
    BY <2>1, <2>3 DEF RowErased, CurrentTraits, eraseVars
  <2>7. QED BY <2>4, <2>5, <2>6
<1>15. CASE EraseDimension
  <2> USE <1>15 DEF EraseDimension, BaseErased
  <2>1. ProfileTypeOK'
    BY ProfileAssumption DEF ProfileTypeOK
  <2>2. Spacing'
    BY ProfileAssumption DEF Spacing
  <2>3. RowErased'
    BY DEF RowErased, CurrentTraits
  <2>4. QED BY <2>1, <2>2, <2>3
<1>16. CASE EraseTraits
  <2> USE <1>16 DEF EraseTraits, GraphErased, questionVars
  <2>1. ProfileTypeOK'
    BY DEF ProfileTypeOK
  <2>2. Spacing' /\ RowErased'
    BY NothingAsked DEF RowErased, CurrentTraits
  <2>3. QED BY <2>1, <2>2
<1> HIDE DEF ProfileInv
<1>17. QED
  BY <1>1, <1>2, <1>3, <1>4, <1>5, <1>6, <1>7, <1>8, <1>9, <1>10, <1>11, <1>12, <1>12b, <1>13,
     <1>14, <1>15, <1>16 DEF ProfileNext

LEMMA DimensionStep == ASSUME ProfileInv, ProfileNext PROVE DimensionStands
<1> SUFFICES ASSUME Settled, snapshot \in {NotRead, dimension}, dimension' # dimension
    PROVE  \/ Answered(TheDimension) /\ dimension'.value = dimension.value
           \/ dimension' = None /\ erasure' # "none"
  BY DEF DimensionStands
<1>0. /\ ProfileTypeOK /\ dimension # None /\ dimension \in DimensionRows
      /\ dimension.status \in {"confirmed", "corrected"}
  BY DEF ProfileInv, ProfileTypeOK, Settled
<1>1. ASSUME NEW c \in Contents, PutDimension(c) PROVE FALSE
  <2>1. snapshot = dimension /\ dimension.status = "confirmed"
    BY <1>0, <1>1 DEF PutDimension, NotRead
  <2>2. Merged(snapshot, c) = {dimension}
    BY <2>1 DEF Merged
  <2>3. QED BY <1>1, <2>2 DEF PutDimension
<1>2. ASSUME NEW s \in Sessions, Confirm(s) PROVE Answered(TheDimension) /\ dimension'.value = dimension.value
  <2>1. /\ question[s] = [at |-> "asked", about |-> TheDimension]
        /\ question' = [question EXCEPT ![s] = NotAsking]
        /\ dimension' = [dimension EXCEPT !.status = "confirmed"]
    BY <1>0, <1>2 DEF Confirm, QuestionOver, ProfileTypeOK
  <2>2. Answered(TheDimension)
    BY <1>0, <2>1 DEF Answered, ProfileTypeOK
  <2>3. QED BY <1>0, <2>1, <2>2 DEF DimensionRows
<1>3. ASSUME NEW s \in Sessions, CorrectDimension(s)
      PROVE  Answered(TheDimension) /\ dimension'.value = dimension.value
  <2>1. /\ question[s] = [at |-> "asked", about |-> TheDimension]
        /\ question' = [question EXCEPT ![s] = NotAsking]
        /\ dimension' = [dimension EXCEPT !.status = "corrected"]
    BY <1>0, <1>3 DEF CorrectDimension, QuestionOver
  <2>2. Answered(TheDimension)
    BY <1>0, <2>1 DEF Answered, ProfileTypeOK
  <2>3. QED BY <1>0, <2>1, <2>2 DEF DimensionRows
<1>4. CASE EraseDimension
  BY <1>4 DEF EraseDimension, BaseErased
<1>5. QED
  BY <1>1, <1>2, <1>3, <1>4
  DEF ProfileNext, Detect, FindTrait, CloseTrait, InsertTrait, PenDrops, Consolidate, Prune,
      ReadDimensions, LeaveDimension, PrepareQuestion, DropQuestion, AskQuestion, AskInterrupted,
      CorrectTrait, Deflect, EndSession, EraseTraits

LEMMA TraitStep == ASSUME ProfileInv, ProfileNext PROVE TraitStands
<1> SUFFICES ASSUME NEW t \in CurrentTraits \ {pen[w].id : w \in Writers},
                    trait[t].status = "confirmed"
             PROVE  /\ trait'[t] = trait[t] \/ Answered(t) \/ erasure' = "done"
                    /\ \A w \in Writers : pen'[w].id # t
  BY DEF TraitStands
<1> DEFINE Stands == trait'[t] = trait[t] \/ Answered(t) \/ erasure' = "done"
           Spared == \A w \in Writers : pen'[w].id # t
<1>0. /\ ProfileTypeOK /\ t \in TraitIds /\ trait[t] # None /\ t # None /\ t \notin Inferred
      /\ \A w \in Writers : pen[w].id # t
  BY ProfileAssumption DEF ProfileInv, CurrentTraits, Inferred
<1>1. ASSUME trait' = trait, pen' = pen PROVE Stands /\ Spared
  BY <1>0, <1>1
<1>2. ASSUME NEW c \in Contents, Detect(c) PROVE Stands /\ Spared
  BY <1>0, <1>2 DEF Detect, ProfileTypeOK
<1>3. ASSUME NEW w \in Writers, FindTrait(w) PROVE Stands /\ Spared
  <2>1. trait' = trait
    BY <1>3 DEF FindTrait
  <2>2. \A x \in Writers \ {w} : pen'[x] = pen[x]
    BY <1>0, <1>3 DEF FindTrait, ProfileTypeOK
  <2>3. CASE CurrentTraits = {}
    BY <1>0, <2>3 DEF CurrentTraits
  <2>4. ASSUME NEW u \in CurrentTraits,
               pen' = [pen EXCEPT ![w] =
                 IF Replaces(w, u) THEN [@ EXCEPT !.at = "closing", !.id = u] ELSE PenDown]
        PROVE  pen'[w].id # t
    <3>1. CASE Replaces(w, u)
      <4>1. u # t
        BY <3>1 DEF Replaces
      <4>2. pen'[w].id = u
        BY <1>0, <2>4, <3>1 DEF ProfileTypeOK
      <4>3. QED BY <4>1, <4>2
    <3>2. CASE ~Replaces(w, u)
      BY <1>0, <2>4, <3>2 DEF ProfileTypeOK, PenDown
    <3>3. QED BY <3>1, <3>2
  <2>5. pen'[w].id # t
    BY <1>3, <2>3, <2>4, <1>0 DEF FindTrait, CurrentTraits
  <2>6. QED BY <1>0, <2>1, <2>2, <2>5
<1>4. ASSUME NEW w \in Writers, CloseTrait(w) PROVE Stands /\ Spared
  BY <1>0, <1>4 DEF CloseTrait, ProfileTypeOK, PenDown
<1>5. ASSUME NEW w \in Writers, InsertTrait(w) PROVE Stands /\ Spared
  <2>1. PICK u \in FreeTraits : trait' = [trait EXCEPT ![u] = pen[w].new]
    BY <1>5 DEF InsertTrait
  <2>2. u # t
    BY DEF FreeTraits
  <2>3. Spared
    BY <1>0, <1>5 DEF InsertTrait, ProfileTypeOK, PenDown
  <2>4. QED BY <1>0, <2>1, <2>2, <2>3 DEF ProfileTypeOK
<1>6. ASSUME NEW w \in Writers, PenDrops(w) PROVE Stands /\ Spared
  BY <1>0, <1>6 DEF PenDrops, ProfileTypeOK, PenDown
<1>7. ASSUME Consolidate PROVE Stands /\ Spared
  BY <1>0, <1>7 DEF Consolidate, ProfileTypeOK
<1>8. ASSUME Prune PROVE Stands /\ Spared
  BY <1>0, <1>8 DEF Prune
<1>9. ASSUME NEW s \in Sessions, Confirm(s) PROVE Stands /\ Spared
  <2>1. /\ pen' = pen /\ question' = [question EXCEPT ![s] = NotAsking]
        /\ question[s].at = "asked"
    BY <1>9 DEF Confirm, QuestionOver
  <2>2. CASE question[s].about = t
    <3>1. question[s] = [at |-> "asked", about |-> t] /\ question'[s] = NotAsking
      BY <1>0, <2>1, <2>2 DEF ProfileTypeOK
    <3>2. Answered(t)
      BY <3>1 DEF Answered
    <3>3. QED BY <1>0, <2>1, <3>2
  <2>3. CASE question[s].about # t
    <3>1. trait'[t] = trait[t]
      BY <1>0, <1>9, <2>3 DEF Confirm, ProfileTypeOK
    <3>2. QED BY <1>0, <2>1, <3>1
  <2>4. QED BY <2>2, <2>3
<1>10. ASSUME NEW s \in Sessions, NEW words \in Contents \cup {None}, CorrectTrait(s, words)
       PROVE  Stands /\ Spared
  <2>1. /\ question' = [question EXCEPT ![s] = NotAsking] /\ question[s].at = "asked"
        /\ trait' = trait \/ trait' = [trait EXCEPT ![question[s].about] = None]
    BY <1>10 DEF CorrectTrait, QuestionOver
  <2>2. Spared
    BY <1>0, <1>10 DEF CorrectTrait, ProfileTypeOK
  <2>3. CASE question[s].about = t
    <3>1. question[s] = [at |-> "asked", about |-> t] /\ question'[s] = NotAsking
      BY <1>0, <2>1, <2>3 DEF ProfileTypeOK
    <3>2. QED BY <2>2, <3>1 DEF Answered
  <2>4. CASE question[s].about # t
    BY <1>0, <2>1, <2>2, <2>4 DEF ProfileTypeOK
  <2>5. QED BY <2>3, <2>4
<1>11. ASSUME EraseTraits PROVE Stands /\ Spared
  BY <1>0, <1>11 DEF EraseTraits, GraphErased
<1>12. ASSUME \/ \E c \in Contents : PutDimension(c)
              \/ ReadDimensions \/ LeaveDimension \/ EraseDimension
              \/ \E s \in Sessions :
                   \/ PrepareQuestion(s) \/ DropQuestion(s) \/ AskQuestion(s) \/ AskInterrupted(s)
                   \/ CorrectDimension(s) \/ Deflect(s) \/ EndSession(s)
       PROVE  Stands /\ Spared
  <2>1. trait' = trait /\ pen' = pen
    BY <1>12 DEF PutDimension, ReadDimensions, LeaveDimension, PrepareQuestion, DropQuestion,
                 AskQuestion, AskInterrupted, CorrectDimension, Deflect, EndSession, EraseDimension
  <2>2. QED BY <1>1, <2>1
<1> HIDE DEF Stands, Spared
<1>13. Stands /\ Spared
  BY <1>2, <1>3, <1>4, <1>5, <1>6, <1>7, <1>8, <1>9, <1>10, <1>11, <1>12 DEF ProfileNext
<1>14. QED BY <1>13 DEF Stands, Spared

LEMMA SpacingStep ==
  ASSUME ProfileInv, NEW s \in Sessions, question[s].at = "asking"
  PROVE  since = Cooldown \/ s \in overtaken
  BY DEF ProfileInv, Spacing

-------------------------------------------------------------------------------
(* The memory.                                                              *)

MemoryInv ==
  /\ ErasureTypeOK
  /\ FactInv /\ (focus # "facts" => FactInit)
  /\ CommitmentInv /\ (focus # "commitments" => CommitmentInit)
  /\ ProfileInv /\ (focus # "profile" => ProfileInit)
  /\ EpisodeInv /\ (focus # "episodes" => EpisodeInit)
  /\ ChatInv /\ (focus # "chats" => ChatInit)

LEMMA ErasureStep ==
  ASSUME ErasureTypeOK, FactNext \/ CommitmentNext \/ ProfileNext
  PROVE  ErasureTypeOK'
<1>1. ASSUME UNCHANGED eraseVars \/ Stores \/ BaseErased \/ GraphErased PROVE ErasureTypeOK'
  BY <1>1 DEF ErasureTypeOK, eraseVars, Stores, BaseErased, GraphErased
<1>2. CASE FactNext
  BY <1>1, <1>2
  DEF FactNext, Extract, Find, CloseOld, InsertFact, ExtractionEnds, ReadDuplicates, CloseLoser,
      EraseBaseOfFacts, EraseFacts
<1>3. CASE CommitmentNext
  BY <1>1, <1>3
  DEF CommitmentNext, Hear, FindOpen, InsertCommitment, HearingEnds, MergeReads, MergeCloses,
      TickReads, TickMarks, NightPassDrops, EngineReads, EngineQueues, EngineGivesUp, ReadCheckin,
      OpenWith, Answer, Leave, EraseCheckins, EraseCommitments
<1>4. CASE ProfileNext
  BY <1>1, <1>4
  DEF ProfileNext, Detect, PutDimension, FindTrait, CloseTrait, InsertTrait, PenDrops, Consolidate,
      Prune, ReadDimensions, LeaveDimension, PrepareQuestion, DropQuestion, AskQuestion, AskInterrupted, Confirm,
      CorrectDimension, CorrectTrait, Deflect, EndSession, EraseDimension, EraseTraits
<1>5. QED BY <1>2, <1>3, <1>4

THEOREM MemoryInvariance == MemorySpec => []MemoryInv
<1>1. MemoryInit => MemoryInv
  BY FactInitially, CommitmentInitially, ProfileInitially, EpisodeInitially, ChatInitially
  DEF MemoryInit, MemoryInv, ErasureInit, ErasureTypeOK
<1>2. MemoryInv /\ [MemoryNext]_memoryVars => MemoryInv'
  <2> SUFFICES ASSUME MemoryInv, [MemoryNext]_memoryVars PROVE MemoryInv'
    OBVIOUS
  <2>1. UNCHANGED factVars => (FactInit => FactInit')
    BY DEF factVars, FactInit
  <2>2. UNCHANGED commitmentVars => (CommitmentInit => CommitmentInit')
    BY DEF commitmentVars, CommitmentInit
  <2>3. UNCHANGED profileVars => (ProfileInit => ProfileInit')
    BY DEF profileVars, ProfileInit
  <2>4. UNCHANGED episodeVars => (EpisodeInit => EpisodeInit')
    BY DEF episodeVars, EpisodeInit
  <2>5. UNCHANGED chatVars => (ChatInit => ChatInit')
    BY DEF chatVars, ChatInit, bufferVars, fateVars
  <2>6. /\ FactInit' => FactInv'
        /\ CommitmentInit' => CommitmentInv'
        /\ ProfileInit' => ProfileInv'
        /\ EpisodeInit' => EpisodeInv'
        /\ ChatInit' => ChatInv'
    BY FactInitially, CommitmentInitially, ProfileInitially, EpisodeInitially, ChatInitially, PTL
  <2>7. CASE /\ focus = "facts" /\ FactNext /\ UNCHANGED focus
            /\ UNCHANGED <<commitmentVars, profileVars, episodeVars, chatVars>>
    <3>1. FactInv' /\ ErasureTypeOK'
      BY <2>7, FactStep, ErasureStep DEF MemoryInv
    <3>2. QED BY <2>2, <2>3, <2>4, <2>5, <2>6, <2>7, <3>1 DEF MemoryInv
  <2>8. CASE /\ focus = "commitments" /\ CommitmentNext /\ UNCHANGED focus
            /\ UNCHANGED <<factVars, profileVars, episodeVars, chatVars>>
    <3>1. CommitmentInv' /\ ErasureTypeOK'
      BY <2>8, CommitmentStep, ErasureStep DEF MemoryInv
    <3>2. QED BY <2>1, <2>3, <2>4, <2>5, <2>6, <2>8, <3>1 DEF MemoryInv
  <2>9. CASE /\ focus = "profile" /\ ProfileNext /\ UNCHANGED focus
            /\ UNCHANGED <<factVars, commitmentVars, episodeVars, chatVars>>
    <3>1. ProfileInv' /\ ErasureTypeOK'
      BY <2>9, ProfileStep, ErasureStep DEF MemoryInv
    <3>2. QED BY <2>1, <2>2, <2>4, <2>5, <2>6, <2>9, <3>1 DEF MemoryInv
  <2>10. CASE /\ focus = "episodes" /\ EpisodeNext /\ UNCHANGED focus
            /\ UNCHANGED <<factVars, commitmentVars, profileVars, chatVars>>
    <3>1. EpisodeInv' /\ ErasureTypeOK'
      BY <2>10, EpisodeStep, ErasureOfChats DEF MemoryInv
    <3>2. QED BY <2>1, <2>2, <2>3, <2>5, <2>6, <2>10, <3>1 DEF MemoryInv
  <2>11. CASE /\ focus = "chats" /\ ChatNext /\ UNCHANGED focus
            /\ UNCHANGED <<factVars, commitmentVars, profileVars, episodeVars>>
    <3>1. ChatInv' /\ ErasureTypeOK'
      BY <2>11, ChatStep, ErasureOfChats DEF MemoryInv
    <3>2. QED BY <2>1, <2>2, <2>3, <2>4, <2>6, <2>11, <3>1 DEF MemoryInv
  <2>12. CASE UNCHANGED memoryVars
    <3>1. FactInv' = FactInv /\ CommitmentInv' = CommitmentInv
      BY <2>12 DEF memoryVars, factVars, commitmentVars, eraseVars, FactInv, FactTypeOK, HandsOK,
                  KeptFact, SerialWrites, FactsErased, Writing, Current, At, CommitmentInv,
                  CommitmentTypeOK, HeldOK, SerialInserts, QueueErased, OpenFor, Open, Pending,
                  Due, Stored, Inserting
    <3>2. ProfileInv' = ProfileInv /\ ErasureTypeOK' = ErasureTypeOK
      BY <2>12 DEF memoryVars, profileVars, eraseVars, ProfileInv, ProfileTypeOK, Spacing,
                  RowErased, CurrentTraits, ErasureTypeOK
    <3>3. EpisodeInv' = EpisodeInv
      BY <2>12 DEF memoryVars, episodeVars, eraseVars, EpisodeInv, EpisodeTypeOK, PromotedStays,
                  PickedFresh, EpisodesGone, Episodes, Known
    <3>4. UNCHANGED <<said, buffer, replies, answering, index, ending, summaries, swept, tasked,
                      missed, erasure, straggler>>
      BY <2>12 DEF memoryVars, chatVars, bufferVars, fateVars, eraseVars
    <3>5. ChatInv' = ChatInv
      BY <3>4 DEF ChatInv, ChatTypeOK, EndsOK, Keeping, SweepFinds, CopyIsBuffer, KeptIsTold,
                  CopyIsSafe, SaidIsKept, Safe, Tasks, Told, Buffered, Working, Reading, At2, Known
    <3>6. QED BY <2>1, <2>2, <2>3, <2>4, <2>5, <2>12, <3>1, <3>2, <3>3, <3>5
          DEF MemoryInv, memoryVars
  <2>13. QED BY <2>7, <2>8, <2>9, <2>10, <2>11, <2>12 DEF MemoryNext
<1>3. QED BY <1>1, <1>2, PTL DEF MemorySpec

\* Every variable keeps its type; the cooldown in particular stays within
\* 0..Cooldown whatever sessions end.
THEOREM MemoryTypeCorrect == MemorySpec => []MemoryTypeOK
<1>1. MemoryInv => MemoryTypeOK
  BY DEF MemoryInv, MemoryTypeOK, FactInv, CommitmentInv, ProfileInv, EpisodeInv, ChatInv
<1>2. QED BY <1>1, MemoryInvariance, PTL

\* However extractions and the nightly clean-up interleave, what was known
\* under a key is not forgotten: KnownStaysKnown follows from KeptFact, which
\* adds that the node that stays is none the clean-up still means to close.
THEOREM KnownFactsStay == MemorySpec => []KnownStaysKnown
<1>1. MemoryInv => KnownStaysKnown
  BY FactInvImplies DEF MemoryInv
<1>2. QED BY <1>1, MemoryInvariance, PTL

\* A key keeps what is known and has one current fact and one open commitment,
\* unless writes failed or overlapped:
\* SerialWrites and SerialInserts say what a writer that has found nothing, or
\* has found a node, still knows when it writes.
THEOREM OneEntryPerKey == MemorySpec => []KnownOncePerKey
<1>1. MemoryInv => KnownOncePerKey
  BY FactInvImplies, CommitmentInvImplies DEF MemoryInv, KnownOncePerKey
<1>2. QED BY <1>1, MemoryInvariance, PTL

\* After Memory.delete nothing of the user is left unless a straggler stored it:
\* the part that is erased first must stay empty until the second is.
THEOREM ErasureLeavesNothing == MemorySpec => []ErasureIsComplete
<1>1. MemoryInv => ErasureIsComplete
  BY CommitmentInvImplies, ChatInvImplies
  DEF MemoryInv, ErasureIsComplete, FactInv, ProfileInv, RowErased, ProfileErased, ErasureTypeOK,
      EpisodeInv, EpisodesGone, EpisodesErased, Known
<1>2. QED BY <1>1, MemoryInvariance, PTL

\* Whatever ends of chats overlap, fail or come too late, what the user said is
\* in a buffer or a summary: the buffer of a chat that is being ended is the copy
\* its end took but for late messages (CopyIsBuffer), and a transcript is safe
\* from loss before its extraction (CopyIsSafe).
THEOREM WhatIsSaidStays == MemorySpec => []RememberedStays
<1>1. MemoryInv => RememberedStays
  BY ChatInvImplies DEF MemoryInv, RememberedStays, EpisodeInv
<1>2. QED BY <1>1, MemoryInvariance, PTL

\* What the user resolved stays resolved, unless a tick had read it before.
THEOREM ResolutionsStand == MemorySpec => ResolutionStands
<1> DEFINE Stays == \A n \in Resolved \ ticking :
                      \/ commitment'[n] = None
                      \/ n \in Resolved' \ ticking'
<1>1. MemoryInv /\ [MemoryNext]_memoryVars => [Stays]_<<commitmentVars, eraseVars>>
  <2> SUFFICES ASSUME MemoryInv, [MemoryNext]_memoryVars PROVE Stays \/ UNCHANGED <<commitmentVars, eraseVars>>
    OBVIOUS
  <2>1. CASE CommitmentNext
    BY <2>1, ResolutionStep DEF MemoryInv
  <2>2. CASE UNCHANGED commitmentVars
    BY <2>2 DEF commitmentVars, Resolved, Stored
  <2>3. QED BY <2>1, <2>2 DEF MemoryNext, memoryVars
<1>2. QED BY <1>1, MemoryInvariance, PTL DEF MemorySpec, ResolutionStands

\* What the user confirmed or corrected changes by the user only, unless a
\* writer had read or chosen it before they spoke.
THEOREM UserIsBelieved == MemorySpec => UserHasLastWord
<1>1. MemoryInv /\ [MemoryNext]_memoryVars => [DimensionStands /\ TraitStands]_<<profileVars, eraseVars>>
  <2> SUFFICES ASSUME MemoryInv, [MemoryNext]_memoryVars
               PROVE  (DimensionStands /\ TraitStands) \/ UNCHANGED <<profileVars, eraseVars>>
    OBVIOUS
  <2>1. CASE ProfileNext
    BY <2>1, DimensionStep, TraitStep DEF MemoryInv
  <2>2. CASE UNCHANGED profileVars
    BY <2>2 DEF profileVars, DimensionStands, TraitStands
  <2>3. QED BY <2>1, <2>2 DEF MemoryNext, memoryVars
<1>2. QED BY <1>1, MemoryInvariance, PTL DEF MemorySpec, UserHasLastWord

\* Whoever puts a gentle question sees the cooldown over, or was overtaken by
\* another session while wording it: the sessions that ended since the last
\* question make up for what is left of the cooldown (Spacing).
THEOREM QuestionsAreSpaced == MemorySpec => QuestionsSpaced
<1> DEFINE Spaced == \A s \in Sessions :
       question[s].at = "asking" /\ question'[s].at = "asked" => since = Cooldown \/ s \in overtaken
<1>1. MemoryInv => Spaced
  BY SpacingStep DEF MemoryInv
<1>2. QED BY <1>1, MemoryInvariance, PTL DEF QuestionsSpaced

-------------------------------------------------------------------------------
(* Members in order.                                                         *)

\* The members of a set of numbers up to n, each once.
LEMMA InOrderFacts ==
  ASSUME NEW n \in Nat, NEW S \in SUBSET (1 .. n)
  PROVE  /\ Cardinality(S) \in 0 .. n
         /\ InOrder(S) \in [1 .. Cardinality(S) -> S]
         /\ \A k, l \in 1 .. Cardinality(S) : InOrder(S)[k] = InOrder(S)[l] => k = l
         /\ \A i \in S : \E k \in 1 .. Cardinality(S) : InOrder(S)[k] = i
<1>. DEFINE c       == Cardinality(S)
            Upto(i) == {j \in S : j <= i}
            rank    == [i \in S |-> Cardinality(Upto(i))]
<1>1. IsFiniteSet(1 .. n) /\ Cardinality(1 .. n) = n
  BY FS_Interval
<1>2. IsFiniteSet(S) /\ c \in Nat /\ c <= n
  BY <1>1, FS_Subset, FS_CardinalityType
<1>3. ASSUME NEW i \in S PROVE Cardinality(Upto(i)) \in 1 .. c
  <2>1. IsFiniteSet(Upto(i)) /\ Cardinality(Upto(i)) <= c /\ Cardinality(Upto(i)) \in Nat
    <3>1. Upto(i) \in SUBSET S
      OBVIOUS
    <3>. HIDE DEF Upto
    <3>. QED  BY <1>2, <3>1, FS_Subset, FS_CardinalityType
  <2>2. Upto(i) # {}
    OBVIOUS
  <2>3. Cardinality(Upto(i)) # 0
    <3>. HIDE DEF Upto
    <3>. QED  BY <2>1, <2>2, FS_EmptySet
  <2>. HIDE DEF Upto, c
  <2>. QED  BY <1>2, <2>1, <2>3
<1>4. ASSUME NEW i \in S, NEW j \in S, i < j
      PROVE  Cardinality(Upto(i)) # Cardinality(Upto(j))
  <2>1. Upto(i) \in SUBSET Upto(j) /\ Upto(i) # Upto(j)
    <3>1. j \in Upto(j) /\ j \notin Upto(i)
      BY <1>4
    <3>2. \A k \in Upto(i) : k \in Upto(j)
      BY <1>4
    <3>. QED  BY <3>1, <3>2
  <2>2. IsFiniteSet(Upto(j))
    <3>1. Upto(j) \in SUBSET S
      OBVIOUS
    <3>. HIDE DEF Upto
    <3>. QED  BY <1>2, <3>1, FS_Subset
  <2>. HIDE DEF Upto
  <2>. QED  BY <2>1, <2>2, FS_Subset
<1>5. IsFiniteSet(1 .. c) /\ Cardinality(1 .. c) = c
  <2>. HIDE DEF c
  <2>. QED  BY <1>2, FS_Interval
<1>6. ASSUME NEW i \in S, NEW j \in S, Cardinality(Upto(i)) = Cardinality(Upto(j)) PROVE i = j
  <2>1. ~(i < j) /\ ~(j < i)
    BY <1>4, <1>6
  <2>. QED  BY <2>1
<1>7. rank \in Injection(S, 1 .. c)
  <2>. HIDE DEF Upto, c
  <2>1. rank \in [S -> 1 .. c]
    BY <1>3
  <2>2. \A i, j \in S : rank[i] = rank[j] => i = j
    BY <1>6
  <2>. HIDE DEF rank
  <2>. QED  BY <2>1, <2>2 DEF Injection, IsInjective
<1>8. rank \in Surjection(S, 1 .. c)
  <2>. HIDE DEF rank
  <2>. QED  BY <1>5, <1>7, FS_Injection DEF c
<1>9. \A k \in 1 .. c : \E i \in S : Cardinality(Upto(i)) = k
  <2>. HIDE DEF Upto, c
  <2>1. \A k \in 1 .. c : \E i \in S : rank[i] = k
    <3>. HIDE DEF rank
    <3>. QED  BY <1>8 DEF Surjection
  <2>. QED  BY <2>1
<1>10. InOrder(S) = [k \in 1 .. c |-> CHOOSE i \in S : Cardinality(Upto(i)) = k]
  BY DEF InOrder
<1>. HIDE DEF c, rank
<1>11. ASSUME NEW k \in 1 .. c
       PROVE  InOrder(S)[k] \in S /\ Cardinality(Upto(InOrder(S)[k])) = k
  <2>. HIDE DEF Upto
  <2>. QED  BY <1>9, <1>10
<1>12. InOrder(S) \in [1 .. c -> S]
  <2>. HIDE DEF Upto
  <2>. QED  BY <1>10, <1>11
<1>13. ASSUME NEW k \in 1 .. c, NEW l \in 1 .. c, InOrder(S)[k] = InOrder(S)[l] PROVE k = l
  BY <1>11, <1>13
<1>14. ASSUME NEW i \in S PROVE \E k \in 1 .. c : InOrder(S)[k] = i
  <2>. DEFINE k == Cardinality(Upto(i))
  <2>1. k \in 1 .. c
    BY <1>3
  <2>2. InOrder(S)[k] \in S /\ Cardinality(Upto(InOrder(S)[k])) = k
    BY <1>11, <2>1
  <2>3. InOrder(S)[k] = i
    BY <1>6, <2>2
  <2>. QED  BY <2>1, <2>3
<1>. QED  BY <1>2, <1>12, <1>13, <1>14 DEF c

\* What is picked of a sequence: some of its members, each place once.
PickedAt(seq, S, r, at) ==
  /\ Len(r) \in 0 .. Len(seq) /\ DOMAIN r = 1 .. Len(r)
  /\ at \in [DOMAIN r -> S]
  /\ \A k \in DOMAIN r : r[k] = seq[at[k]]
  /\ \A k, l \in DOMAIN r : at[k] = at[l] => k = l
  /\ \A i \in S : \E k \in DOMAIN r : at[k] = i

LEMMA PickedFacts ==
  ASSUME NEW V, NEW seq \in Seq(V), NEW S \in SUBSET (DOMAIN seq)
  PROVE  /\ Picked(seq, S) \in Seq(V)
         /\ \E at : PickedAt(seq, S, Picked(seq, S), at)
<1>. DEFINE at == InOrder(S)
            c  == Cardinality(S)
<1>1. Len(seq) \in Nat /\ DOMAIN seq = 1 .. Len(seq) /\ \A i \in DOMAIN seq : seq[i] \in V
  OBVIOUS
<1>2. /\ c \in 0 .. Len(seq) /\ at \in [1 .. c -> S]
      /\ \A k, l \in 1 .. c : at[k] = at[l] => k = l
      /\ \A i \in S : \E k \in 1 .. c : at[k] = i
  BY <1>1, InOrderFacts
<1>3. Picked(seq, S) = [k \in DOMAIN at |-> seq[at[k]]]
  BY DEF Picked
<1>. HIDE DEF at, c
<1>4. Picked(seq, S) = [k \in 1 .. c |-> seq[at[k]]]
  BY <1>2, <1>3
<1>5. \A k \in 1 .. c : seq[at[k]] \in V
  BY <1>1, <1>2
<1>6. Picked(seq, S) \in [1 .. c -> V]
  BY <1>4, <1>5
<1>7. c \in Nat
  BY <1>1, <1>2
<1>8. Picked(seq, S) \in Seq(V)
  BY <1>6, <1>7
<1>9. DOMAIN Picked(seq, S) = 1 .. c /\ Len(Picked(seq, S)) = c
  BY <1>6, <1>7
<1>10. PickedAt(seq, S, Picked(seq, S), at)
  BY <1>2, <1>4, <1>9 DEF PickedAt
<1>. QED  BY <1>8, <1>10


LEMMA RowsAreSeq ==
  ASSUME NEW W, NEW n \in Nat, NEW f \in [1 .. n -> W]
  PROVE  f \in Seq(W) /\ Len(f) = n
OBVIOUS

\* No member twice.
Once(seq) == \A k, l \in DOMAIN seq : seq[k] = seq[l] => k = l

LEMMA OnlyFacts ==
  ASSUME NEW V, NEW seq \in Seq(V), NEW S
  PROVE  /\ Only(seq, S) \in Seq(V)
         /\ ToSet(Only(seq, S)) \subseteq ToSet(seq) \cap S
         /\ Once(seq) => Once(Only(seq, S))
<1>. DEFINE P == {k \in DOMAIN seq : seq[k] \in S}
            r == Picked(seq, P)
<1>1. Only(seq, S) = r
  BY DEF Only
<1>. HIDE DEF r
<1>2. P \in SUBSET (DOMAIN seq)
  OBVIOUS
<1>3. r \in Seq(V) /\ \E at : PickedAt(seq, P, r, at)
  <2>. HIDE DEF P
  <2>. QED  BY <1>2, PickedFacts DEF r
<1>4. PICK at : PickedAt(seq, P, r, at)
  BY <1>3
<1>5. \A k \in DOMAIN r : at[k] \in DOMAIN seq /\ r[k] = seq[at[k]] /\ r[k] \in S
  BY <1>4 DEF PickedAt
<1>6. ToSet(r) \subseteq ToSet(seq) \cap S
  BY <1>5 DEF ToSet
<1>7. Once(seq) => Once(r)
  BY <1>4, <1>5 DEF Once, PickedAt
<1>. QED  BY <1>1, <1>3, <1>6, <1>7

LEMMA DistinctFacts ==
  ASSUME NEW V, NEW seq \in Seq(V)
  PROVE  /\ Distinct(seq) \in Seq(V)
         /\ ToSet(Distinct(seq)) \subseteq ToSet(seq)
         /\ Once(Distinct(seq))
<1>. DEFINE P == {k \in DOMAIN seq : \A l \in 1..(k - 1) : seq[l] # seq[k]}
            r == Picked(seq, P)
<1>1. Distinct(seq) = r
  BY DEF Distinct
<1>. HIDE DEF r
<1>2. P \in SUBSET (DOMAIN seq) /\ DOMAIN seq = 1 .. Len(seq) /\ Len(seq) \in Nat
  OBVIOUS
<1>3. r \in Seq(V) /\ \E at : PickedAt(seq, P, r, at)
  <2>. HIDE DEF P
  <2>. QED  BY <1>2, PickedFacts DEF r
<1>4. PICK at : PickedAt(seq, P, r, at)
  BY <1>3
<1>5. \A k \in DOMAIN r : at[k] \in P /\ r[k] = seq[at[k]]
  <2>. HIDE DEF P
  <2>. QED  BY <1>4 DEF PickedAt
<1>6. ToSet(r) \subseteq ToSet(seq)
  BY <1>5 DEF ToSet
<1>7. ASSUME NEW a \in P, NEW b \in P, seq[a] = seq[b] PROVE a = b
  <2>1. a \in 1 .. Len(seq) /\ b \in 1 .. Len(seq)
    BY <1>2
  <2>2. ~(a < b)
    <3>1. a < b => a \in 1 .. (b - 1)
      BY <2>1
    <3>. QED  BY <1>7, <3>1
  <2>3. ~(b < a)
    <3>1. b < a => b \in 1 .. (a - 1)
      BY <2>1
    <3>. QED  BY <1>7, <3>1
  <2>. QED  BY <2>1, <2>2, <2>3
<1>8. Once(r)
  <2>. SUFFICES ASSUME NEW k \in DOMAIN r, NEW l \in DOMAIN r, r[k] = r[l] PROVE k = l
    BY DEF Once
  <2>1. at[k] = at[l]
    <3>. HIDE DEF P
    <3>. QED  BY <1>5, <1>7
  <2>. HIDE DEF P
  <2>. QED  BY <1>4, <2>1 DEF PickedAt
<1>. QED  BY <1>1, <1>3, <1>6, <1>8

\* The groups of an answer as they are used: each has its members once, from one
\* group of the answer, and of what was shown.
Grouped(groups, V, text, known) ==
  /\ groups \in Seq(Seq(V))
  /\ \A g \in DOMAIN groups :
       /\ Once(groups[g])
       /\ \E h \in DOMAIN text.items : ToSet(groups[g]) \subseteq ToSet(text.items[h]) \cap known

LEMMA GroupsFacts ==
  ASSUME NEW V, NEW text, text.whole \in BOOLEAN, text.items \in Seq(Seq(V)), NEW known
  PROVE  Grouped(GroupsOf(text, known), V, text, known)
<1>. DEFINE items  == Strict(text)
            usable == [g \in DOMAIN items |-> Distinct(Only(items[g], known))]
            P      == {g \in DOMAIN usable : Len(usable[g]) > 1}
            r      == Picked(usable, P)
<1>1. items \in Seq(Seq(V)) /\ DOMAIN items = 1 .. Len(items) /\ Len(items) \in Nat
  BY DEF Strict
<1>2. \A g \in DOMAIN items : g \in DOMAIN text.items /\ items[g] = text.items[g]
  BY DEF Strict
<1>. HIDE DEF items
<1>3. ASSUME NEW g \in DOMAIN items
      PROVE  /\ usable[g] \in Seq(V)
             /\ ToSet(usable[g]) \subseteq ToSet(items[g]) \cap known
             /\ Once(usable[g])
  <2>1. items[g] \in Seq(V)
    BY <1>1
  <2>2. Only(items[g], known) \in Seq(V) /\ ToSet(Only(items[g], known)) \subseteq ToSet(items[g]) \cap known
    BY <2>1, OnlyFacts
  <2>3. usable[g] = Distinct(Only(items[g], known))
    OBVIOUS
  <2>. HIDE DEF usable
  <2>. QED  BY <2>2, <2>3, DistinctFacts
<1>4. DOMAIN usable = DOMAIN items
  OBVIOUS
<1>5. usable \in Seq(Seq(V))
  <2>1. usable \in [1 .. Len(items) -> Seq(V)]
    BY <1>1, <1>3
  <2>2. Len(items) \in Nat
    BY <1>1
  <2>. HIDE DEF usable
  <2>. QED  BY <2>1, <2>2, RowsAreSeq
<1>6. GroupsOf(text, known) = r
  BY DEF GroupsOf, items
<1>. HIDE DEF usable, r
<1>7. P \in SUBSET (DOMAIN usable)
  OBVIOUS
<1>8. r \in Seq(Seq(V)) /\ \E at : PickedAt(usable, P, r, at)
  <2>. HIDE DEF P
  <2>. QED  BY <1>5, <1>7, PickedFacts DEF r
<1>9. PICK at : PickedAt(usable, P, r, at)
  BY <1>8
<1>10. \A g \in DOMAIN r : at[g] \in DOMAIN items /\ r[g] = usable[at[g]]
  BY <1>4, <1>9 DEF PickedAt
<1>. HIDE DEF P
<1>11. ASSUME NEW g \in DOMAIN r
       PROVE  /\ Once(r[g])
              /\ \E h \in DOMAIN text.items : ToSet(r[g]) \subseteq ToSet(text.items[h]) \cap known
  <2>1. at[g] \in DOMAIN items /\ r[g] = usable[at[g]]
    BY <1>10
  <2>2. ToSet(r[g]) \subseteq ToSet(items[at[g]]) \cap known /\ Once(r[g])
    BY <1>3, <2>1
  <2>. QED  BY <1>2, <2>1, <2>2
<1>. QED  BY <1>6, <1>8, <1>11 DEF Grouped

-------------------------------------------------------------------------------
(* Merges.                                                                   *)

NoteRow == [key : Words \cup {Blank}, state : {"open", "settled", "gone"},
            weight : {0, 1}, cites : SUBSET (Evidence \cup {Other})]

LEMMA GoneIsNote == Gone \in NoteRow
BY DEF Gone, NoteRow

LEMMA ReadFacts == Read \subseteq OpenNotes /\ OpenNotes \subseteq DOMAIN notes
BY DEF Read, OpenNotes

\* Of some notes there is one as good as any, and a merge keeps it.
LEMMA SurvivorFacts ==
  ASSUME notes \in Seq(NoteRow), NEW members \in Seq(DOMAIN notes), members # <<>>
  PROVE  /\ Survivor(members) \in DOMAIN members
         /\ \A j \in ToSet(members) : Better(notes, members[Survivor(members)], j)
<1>. DEFINE n    == Len(notes)
            M    == ToSet(members)
            H    == {i \in M : notes[i].weight = 1}
            Best == {k \in DOMAIN members : \A j \in M : Better(notes, members[k], j)}
<1>1. n \in Nat /\ DOMAIN notes = 1 .. n /\ \A i \in DOMAIN notes : notes[i] \in NoteRow
  OBVIOUS
<1>2. /\ \A k \in DOMAIN members : members[k] \in DOMAIN notes
      /\ DOMAIN members \subseteq Nat /\ 1 \in DOMAIN members
  OBVIOUS
<1>3. M \in SUBSET (1 .. n) /\ M # {} /\ H \in SUBSET M
  BY <1>1, <1>2 DEF ToSet
<1>. HIDE DEF n, M, H
<1>4. \A i \in M : i \in 1 .. n /\ notes[i].weight \in {0, 1}
  BY <1>1, <1>3 DEF NoteRow
<1>5. \E i \in M : \A j \in M : Better(notes, i, j)
  <2>1. CASE H # {}
    <3>1. PICK i \in H : \A j \in H : j <= i
      <4>1. H \in SUBSET (1 .. n)
        BY <1>3
      <4>. QED  BY <1>1, <2>1, <4>1, MaxFacts
    <3>2. i \in M /\ i \in 1 .. n /\ notes[i].weight = 1
      BY <1>3, <1>4 DEF H
    <3>3. ASSUME NEW j \in M PROVE Better(notes, i, j)
      <4>1. j \in 1 .. n /\ notes[j].weight \in {0, 1} /\ (notes[j].weight = 1 => j <= i)
        BY <1>4, <3>1 DEF H
      <4>. QED  BY <1>1, <3>2, <4>1 DEF Better
    <3>. QED  BY <3>2, <3>3
  <2>2. CASE H = {}
    <3>1. PICK i \in M : \A j \in M : j <= i
      BY <1>1, <1>3, MaxFacts
    <3>2. \A j \in M : j \in 1 .. n /\ notes[j].weight = 0
      BY <1>4, <2>2 DEF H
    <3>3. ASSUME NEW j \in M PROVE Better(notes, i, j)
      BY <1>1, <3>1, <3>2 DEF Better
    <3>. QED  BY <3>3
  <2>. QED  BY <2>1, <2>2
<1>6. Best # {} /\ Best \subseteq Nat /\ Best \subseteq DOMAIN members
  <2>1. PICK i \in M : \A j \in M : Better(notes, i, j)
    BY <1>5
  <2>2. PICK k \in DOMAIN members : members[k] = i
    BY DEF M, ToSet
  <2>. QED  BY <1>2, <2>1, <2>2
<1>7. Survivor(members) = Min(Best)
  BY DEF Survivor, M
<1>8. Survivor(members) \in Best
  <2>. HIDE DEF Best
  <2>. QED  BY <1>6, <1>7, MinFacts
<1>. QED  BY <1>8 DEF M

\* A merged note was one of a group with a better one, which stays.
Spared(acc, groups, i) ==
  \E j \in acc.used \ {i} :
    /\ acc.left[j] = notes[j] /\ notes[j].state = "open" /\ Better(notes, j, i)
    /\ \E g \in DOMAIN groups : i \in ToSet(groups[g]) /\ j \in ToSet(groups[g])

Merge == [left : [DOMAIN notes -> NoteRow], used : SUBSET (DOMAIN notes)]

MergeInv(acc, groups) ==
  /\ acc \in Merge
  /\ \A i \in DOMAIN notes : acc.left[i] # notes[i] =>
       i \in acc.used /\ acc.left[i] = Gone /\ Spared(acc, groups, i)

LEMMA MergeStep ==
  ASSUME notes \in Seq(NoteRow), NEW groups \in Seq(Seq(Nat)), NEW g \in DOMAIN groups,
         topic = "traits" => Once(groups[g]), NEW acc, MergeInv(acc, groups)
  PROVE  MergeInv(MergeRead(acc, groups[g]), groups)
<1>. DEFINE open    == Only(groups[g], Read)
            members == Only(open, DOMAIN notes \ acc.used)
            next    == [left |-> Closing(acc.left, members), used |-> acc.used \cup ToSet(members)]
<1>1. groups[g] \in Seq(Nat)
  OBVIOUS
<1>2. /\ open \in Seq(Nat) /\ ToSet(open) \subseteq ToSet(groups[g]) \cap Read
      /\ topic = "traits" => Once(open)
  BY <1>1, OnlyFacts
<1>3. MergeRead(acc, groups[g]) = IF Len(members) < 2 THEN acc ELSE next
  BY DEF MergeRead, MergeGroup
<1>. HIDE DEF open
<1>4. /\ members \in Seq(Nat) /\ ToSet(members) \subseteq ToSet(open) \cap (DOMAIN notes \ acc.used)
      /\ topic = "traits" => Once(members)
  BY <1>2, OnlyFacts
<1>. HIDE DEF members
<1>5. CASE Len(members) < 2
  BY <1>3, <1>5
<1>6. CASE ~(Len(members) < 2)
  <2>. DEFINE kept   == Survivor(members)
              others == {members[k] : k \in DOMAIN members \ {kept}}
              closed == IF topic = "traits" THEN others ELSE others \ {members[kept]}
              j      == members[kept]
  <2>1. acc \in Merge /\ acc.left \in [DOMAIN notes -> NoteRow] /\ acc.used \in SUBSET (DOMAIN notes)
    BY DEF MergeInv, Merge
  <2>2. \A k \in DOMAIN members : members[k] \in DOMAIN notes /\ members[k] \in ToSet(members)
    BY <1>4 DEF ToSet
  <2>3. members \in Seq(DOMAIN notes)
    <3>1. DOMAIN members = 1 .. Len(members) /\ Len(members) \in Nat
      BY <1>4
    <3>2. members \in [1 .. Len(members) -> DOMAIN notes]
      BY <1>4, <2>2, <3>1
    <3>. QED  BY <3>1, <3>2, RowsAreSeq
  <2>4. members # <<>>
    BY <1>6
  <2>5. kept \in DOMAIN members /\ \A i \in ToSet(members) : Better(notes, members[kept], i)
    BY <2>3, <2>4, SurvivorFacts
  <2>6. Closing(acc.left, members) = [i \in DOMAIN acc.left |-> IF i \in closed THEN Gone ELSE acc.left[i]]
    BY DEF Closing
  <2>. HIDE DEF kept
  <2>7. j \in ToSet(members) /\ j \in DOMAIN notes /\ j \notin acc.used /\ j \in ToSet(groups[g])
        /\ notes[j].state = "open"
    BY <1>2, <1>4, <2>2, <2>5, ReadFacts DEF OpenNotes
  <2>8. closed \subseteq ToSet(members) \ {j}
    <3>1. \A k \in DOMAIN members \ {kept} : members[k] \in ToSet(members)
      BY <2>2
    <3>2. topic = "traits" => \A k \in DOMAIN members \ {kept} : members[k] # members[kept]
      BY <1>4, <2>5 DEF Once
    <3>. QED  BY <3>1, <3>2
  <2>. HIDE DEF closed, j
  <2>9. next \in Merge /\ next.left = [i \in DOMAIN notes |-> IF i \in closed THEN Gone ELSE acc.left[i]]
        /\ next.used = acc.used \cup ToSet(members)
    BY <1>4, <2>1, <2>6, GoneIsNote DEF Merge
  <2>. HIDE DEF next
  <2>10. acc.left[j] = notes[j] /\ next.left[j] = notes[j] /\ j \in next.used
    BY <2>7, <2>8, <2>9 DEF MergeInv
  <2>11. ASSUME NEW i \in DOMAIN notes, next.left[i] # notes[i]
         PROVE  i \in next.used /\ next.left[i] = Gone /\ Spared(next, groups, i)
    <3>1. CASE i \in closed
      <4>1. i \in ToSet(members) /\ i # j /\ i \in ToSet(groups[g])
        BY <1>2, <1>4, <2>8, <3>1
      <4>2. Better(notes, j, i)
        BY <2>5, <4>1 DEF j
      <4>3. Spared(next, groups, i)
        BY <2>7, <2>10, <4>1, <4>2 DEF Spared
      <4>. QED  BY <2>9, <3>1, <4>1, <4>3
    <3>2. CASE i \notin closed
      <4>1. next.left[i] = acc.left[i]
        BY <2>9, <3>2
      <4>2. i \in acc.used /\ acc.left[i] = Gone /\ Spared(acc, groups, i)
        BY <2>11, <4>1 DEF MergeInv
      <4>3. PICK k \in acc.used \ {i} :
              /\ acc.left[k] = notes[k] /\ notes[k].state = "open" /\ Better(notes, k, i)
              /\ \E h \in DOMAIN groups : i \in ToSet(groups[h]) /\ k \in ToSet(groups[h])
        BY <4>2 DEF Spared
      <4>4. k \in DOMAIN notes /\ k \notin closed /\ k \in next.used
        BY <1>4, <2>1, <2>8, <2>9
      <4>5. next.left[k] = notes[k]
        BY <2>9, <4>3, <4>4
      <4>6. Spared(next, groups, i)
        BY <4>3, <4>4, <4>5 DEF Spared
      <4>. QED  BY <2>9, <4>1, <4>2, <4>6
    <3>. QED  BY <3>1, <3>2
  <2>12. MergeInv(next, groups)
    BY <2>9, <2>11 DEF MergeInv
  <2>. QED  BY <1>3, <1>6, <2>12
<1>. QED  BY <1>5, <1>6

LEMMA AfterMergesFacts ==
  ASSUME notes \in Seq(NoteRow), NEW groups \in Seq(Seq(Nat)),
         topic = "traits" => \A g \in DOMAIN groups : Once(groups[g])
  PROVE  \E acc : MergeInv(acc, groups) /\ acc.left = AfterMerges(groups)
<1>. DEFINE n == Len(groups)
            S == 1 .. n
            V == {acc \in Merge : MergeInv(acc, groups)}
            base == [left |-> notes, used |-> {}]
            P == [s \in SUBSET S |-> Max(s)]
            G == [z \in S \X V |-> MergeRead(z[2], groups[z[1]])]
            Body(jt) == jt = [s \in SUBSET S |-> IF s = {} THEN base
                                                ELSE MergeRead(jt[s \ {Max(s)}], groups[Max(s)])]
<1>1. n \in Nat /\ DOMAIN groups = S
  OBVIOUS
<1>2. IsFiniteSet(S) /\ Picks(P, S)
  <2>. HIDE DEF n
  <2>. QED  BY <1>1, LastPicks
<1>3. base \in V
  <2>1. notes \in [DOMAIN notes -> NoteRow]
    OBVIOUS
  <2>2. base \in Merge
    BY <2>1 DEF Merge
  <2>. QED  BY <2>2 DEF MergeInv
<1>4. ASSUME NEW acc \in V, NEW i \in S PROVE MergeRead(acc, groups[i]) \in V
  <2>1. MergeInv(MergeRead(acc, groups[i]), groups)
    BY <1>1, <1>4, MergeStep
  <2>. QED  BY <2>1 DEF MergeInv
<1>. HIDE DEF n, S, V, base
<1>5. G \in [S \X V -> V]
  BY <1>4
<1>6. PICK it : FoldTable(it, S, V, base, G, P)
  <2>. HIDE DEF G, P
  <2>. QED  BY <1>2, <1>3, <1>5, FoldExists
<1>7. ASSUME NEW s \in SUBSET S, s # {} PROVE Max(s) \in S /\ s \ {Max(s)} \in SUBSET S
  BY <1>2, <1>7 DEF Picks
<1>8. Body(it)
  <2>1. ASSUME NEW s \in SUBSET S, s # {} PROVE it[s] = MergeRead(it[s \ {Max(s)}], groups[Max(s)])
    <3>1. it[s] = G[<<Max(s), it[s \ {Max(s)}]>>]
      <4>1. it[s] = G[<<P[s], it[s \ {P[s]}]>>] /\ P[s] = Max(s)
        <5>. HIDE DEF G
        <5>. QED  BY <1>6, <2>1 DEF FoldTable
      <4>. QED  BY <4>1, Zenon
    <3>2. <<Max(s), it[s \ {Max(s)}]>> \in S \X V
      BY <1>6, <1>7, <2>1 DEF FoldTable
    <3>. QED  BY <3>1, <3>2
  <2>. HIDE DEF G, P
  <2>2. it[{}] = base /\ it \in [SUBSET S -> V]
    BY <1>6 DEF FoldTable
  <2>. QED  BY <2>1, <2>2
<1>. DEFINE ft == CHOOSE jt : Body(jt)
<1>9. Body(ft)
  <2>. HIDE DEF Body
  <2>. QED  BY <1>8
<1>10. AfterMerges(groups) = ft[S].left
  BY <1>1, Zenon DEF AfterMerges, FoldLeft, MapThenFoldSet, base
<1>11. ft[{}] \in V
  <2>. HIDE DEF ft
  <2>. QED  BY <1>9, <1>3
<1>12. \A s \in SUBSET S : s # {} /\ ft[s \ {P[s]}] \in V => ft[s] \in V
  <2>. SUFFICES ASSUME NEW s \in SUBSET S, s # {}, ft[s \ {P[s]}] \in V PROVE ft[s] \in V
    BY Zenon
  <2>1. P[s] = Max(s)
    OBVIOUS
  <2>. HIDE DEF ft, P
  <2>2. ft[s] = MergeRead(ft[s \ {Max(s)}], groups[Max(s)])
    BY <1>9
  <2>. HIDE DEF Body
  <2>. QED  BY <1>4, <1>7, <2>1, <2>2
<1>. HIDE DEF ft, P
<1>13. FoldStays(ft, V, P, S)
  BY <1>11, <1>12, Zenon DEF FoldStays
<1>14. ft[S] \in V
  BY <1>2, <1>13, FoldWithin
<1>. QED  BY <1>10, <1>14 DEF V

-------------------------------------------------------------------------------
(* Answers.                                                                  *)

LEMMA TextFacts ==
  ASSUME NEW S, NEW most \in Nat, NEW text \in Texts(S, most)
  PROVE  text.whole \in BOOLEAN /\ text.items \in Seq(S) /\ Len(text.items) <= most
<1>1. PICK n \in 0 .. most : text.items \in [1 .. n -> S]
  BY DEF Texts
<1>2. n \in Nat /\ n <= most
  OBVIOUS
<1>3. text.items \in Seq(S) /\ Len(text.items) = n
  BY <1>1, <1>2, RowsAreSeq
<1>. QED  BY <1>2, <1>3 DEF Texts

LEMMA GroupingFacts ==
  ASSUME NEW S, NEW text \in Groupings(S)
  PROVE  text.whole \in BOOLEAN /\ text.items \in Seq(Seq(S))
<1>. DEFINE W == Seq(S)
<1>1. ASSUME NEW n \in Nat, NEW m \in Nat, text.items \in [1 .. n -> [1 .. m -> S]]
      PROVE  text.items \in Seq(W)
  <2>1. \A g \in 1 .. n : text.items[g] \in W
    <3>. SUFFICES ASSUME NEW g \in 1 .. n PROVE text.items[g] \in W
      OBVIOUS
    <3>1. text.items[g] \in [1 .. m -> S]
      BY <1>1
    <3>. QED  BY <3>1, RowsAreSeq
  <2>. HIDE DEF W
  <2>2. text.items \in [1 .. n -> W]
    BY <1>1, <2>1
  <2>. QED  BY <2>2, RowsAreSeq
<1>2. CASE text \in [whole : {TRUE}, items : UNION {[1..s[1] -> [1..s[2] -> S]] : s \in Sizes}]
  <2>1. PICK s \in Sizes : text.items \in [1..s[1] -> [1..s[2] -> S]]
    BY <1>2
  <2>2. s[1] \in Nat /\ s[2] \in Nat
    BY ReplyAssumption DEF Sizes
  <2>. QED  BY <1>1, <1>2, <2>1, <2>2
<1>3. CASE text \in [whole : {FALSE}, items : [1..1 -> [1..2 -> S]]]
  BY <1>1, <1>3
<1>. QED  BY <1>2, <1>3 DEF Groupings

\* What the model was asked about the notes, and what it was shown.
Abouts == {"nothing", "patterns", "duplicates", "salience"}

AskedOK ==
  /\ asked \in [about : Abouts, shown : Seq(Nat), known : SUBSET Evidence]
  /\ ToSet(asked.shown) \subseteq DOMAIN notes /\ Once(asked.shown)
  /\ asked.known \subseteq evidence
  /\ asked.about = "patterns" => topic = "traits"
  /\ asked.about = "duplicates" => topic \in {"commitments", "traits"}
  /\ asked.about = "salience" => topic = "episodes"

\* The groups of an answer by number are among what its numbers were shown as.
Numbered(text, h) == {asked.shown[k + 1] : k \in ToSet(text.items[h]) \cap 0..(Len(asked.shown) - 1)}

LEMMA IdsFacts ==
  ASSUME AskedOK, NEW V, NEW text, text.whole \in BOOLEAN, text.items \in Seq(Seq(V))
  PROVE  /\ Ids(text) \in Seq(Seq(Nat))
         /\ \A g \in DOMAIN Ids(text) : \E h \in DOMAIN text.items :
              ToSet(Ids(text)[g]) \subseteq Numbered(text, h)
<1>. DEFINE known  == 0 .. (Len(asked.shown) - 1)
            groups == GroupsOf(text, known)
            id(g)  == [k \in DOMAIN groups[g] |-> asked.shown[groups[g][k] + 1]]
            W      == Seq(Nat)
<1>1. /\ groups \in Seq(Seq(V))
      /\ \A g \in DOMAIN groups : \E h \in DOMAIN text.items :
           ToSet(groups[g]) \subseteq ToSet(text.items[h]) \cap known
  <2>. HIDE DEF known
  <2>1. Grouped(groups, V, text, known)
    BY GroupsFacts
  <2>. HIDE DEF groups
  <2>. QED  BY <2>1 DEF Grouped
<1>2. asked.shown \in Seq(Nat) /\ Len(asked.shown) \in Nat
  BY DEF AskedOK
<1>3. Ids(text) = [g \in DOMAIN groups |-> id(g)]
  BY DEF Ids
<1>. HIDE DEF groups
<1>4. ASSUME NEW g \in DOMAIN groups
      PROVE  /\ id(g) \in W
             /\ \E h \in DOMAIN text.items : ToSet(id(g)) \subseteq Numbered(text, h)
  <2>1. PICK h \in DOMAIN text.items : ToSet(groups[g]) \subseteq ToSet(text.items[h]) \cap known
    BY <1>1
  <2>2. groups[g] \in Seq(V)
    BY <1>1
  <2>. DEFINE m == Len(groups[g])
  <2>3. m \in Nat /\ DOMAIN groups[g] = 1 .. m
    BY <2>2
  <2>. HIDE DEF m
  <2>4. \A k \in DOMAIN groups[g] : groups[g][k] \in ToSet(text.items[h]) \cap known
    BY <2>1 DEF ToSet
  <2>5. \A k \in DOMAIN groups[g] : groups[g][k] + 1 \in 1 .. Len(asked.shown)
    BY <1>2, <2>4
  <2>6. \A k \in DOMAIN groups[g] : asked.shown[groups[g][k] + 1] \in Nat
    BY <1>2, <2>5
  <2>7. id(g) \in [1 .. m -> Nat]
    BY <2>3, <2>6
  <2>8. id(g) \in W
    <3>. HIDE DEF id
    <3>. QED  BY <2>3, <2>7, RowsAreSeq
  <2>9. ToSet(id(g)) \subseteq Numbered(text, h)
    BY <2>4 DEF ToSet, Numbered
  <2>. QED  BY <2>8, <2>9
<1>. HIDE DEF id, W
<1>5. Ids(text) \in Seq(W)
  <2>1. DOMAIN groups = 1 .. Len(groups) /\ Len(groups) \in Nat
    BY <1>1
  <2>2. Ids(text) \in [1 .. Len(groups) -> W]
    BY <1>3, <1>4, <2>1
  <2>. QED  BY <2>1, <2>2, RowsAreSeq
<1>6. \A g \in DOMAIN Ids(text) : g \in DOMAIN groups /\ Ids(text)[g] = id(g)
  BY <1>3
<1>. QED  BY <1>4, <1>5, <1>6 DEF W

\* Those of an answer by key have the keys now.
Keyed(text, h) == {i \in OpenNotes : notes[i].key \in ToSet(text.items[h])}

LEMMA HoldersFacts ==
  ASSUME notes \in Seq(NoteRow), NEW text, text.whole \in BOOLEAN, text.items \in Seq(Seq(Words))
  PROVE  /\ Holders(text) \in Seq(Seq(Nat))
         /\ \A g \in DOMAIN Holders(text) :
              /\ Once(Holders(text)[g])
              /\ \E h \in DOMAIN text.items : ToSet(Holders(text)[g]) \subseteq Keyed(text, h)
<1>. DEFINE known  == {notes[i].key : i \in ToSet(asked.shown)}
            keys   == {notes[i].key : i \in Read}
            Of(k)  == {i \in Read : notes[i].key = k}
            groups == GroupsOf(text, known)
            found  == [g \in DOMAIN groups |-> Only(groups[g], keys)]
            held(g) == [k \in DOMAIN found[g] |-> Min(Of(found[g][k]))]
            W      == Seq(Nat)
<1>1. /\ groups \in Seq(Seq(Words))
      /\ \A g \in DOMAIN groups :
           /\ Once(groups[g])
           /\ \E h \in DOMAIN text.items : ToSet(groups[g]) \subseteq ToSet(text.items[h])
  <2>. HIDE DEF known
  <2>1. Grouped(groups, Words, text, known)
    BY GroupsFacts
  <2>. HIDE DEF groups
  <2>. QED  BY <2>1 DEF Grouped
<1>2. Holders(text) = [g \in DOMAIN found |-> held(g)] /\ DOMAIN found = DOMAIN groups
  BY DEF Holders
<1>. HIDE DEF groups
<1>3. Read \subseteq Nat
  BY ReadFacts
<1>4. ASSUME NEW k \in keys PROVE Min(Of(k)) \in Read /\ notes[Min(Of(k))].key = k
  <2>1. Of(k) # {} /\ Of(k) \subseteq Nat
    BY <1>3
  <2>2. Min(Of(k)) \in Of(k)
    <3>. HIDE DEF Of
    <3>. QED  BY <2>1, MinFacts
  <2>. QED  BY <2>2
<1>5. ASSUME NEW g \in DOMAIN groups
      PROVE  /\ held(g) \in W /\ Once(held(g))
             /\ \E h \in DOMAIN text.items : ToSet(held(g)) \subseteq Keyed(text, h)
  <2>. DEFINE q == Only(groups[g], keys)
              m == Len(q)
  <2>1. found[g] = q
    OBVIOUS
  <2>2. groups[g] \in Seq(Words) /\ Once(groups[g])
    BY <1>1
  <2>3. q \in Seq(Words) /\ ToSet(q) \subseteq ToSet(groups[g]) \cap keys /\ Once(q)
    <3>. HIDE DEF keys
    <3>. QED  BY <2>2, OnlyFacts
  <2>4. held(g) = [k \in DOMAIN q |-> Min(Of(q[k]))]
    BY <2>1
  <2>. HIDE DEF q, found, held
  <2>5. m \in Nat /\ DOMAIN q = 1 .. m
    BY <2>3
  <2>. HIDE DEF m
  <2>6. \A k \in DOMAIN q : q[k] \in keys /\ q[k] \in ToSet(groups[g])
    BY <2>3 DEF ToSet
  <2>7. \A k \in DOMAIN q : held(g)[k] \in Read /\ notes[held(g)[k]].key = q[k]
    <3>. HIDE DEF keys, Of
    <3>. QED  BY <1>4, <2>4, <2>6
  <2>8. held(g) \in W
    <3>1. DOMAIN held(g) = 1 .. m
      BY <2>4, <2>5
    <3>2. \A k \in 1 .. m : held(g)[k] \in Nat
      BY <1>3, <2>5, <2>7
    <3>3. held(g) \in [1 .. m -> Nat]
      <4>. HIDE DEF Of
      <4>. QED  BY <2>4, <2>5, <3>2
    <3>. QED  BY <2>5, <3>3, RowsAreSeq
  <2>9. Once(held(g))
    <3>1. DOMAIN held(g) = DOMAIN q
      BY <2>4
    <3>. QED  BY <2>3, <2>7, <3>1 DEF Once
  <2>10. PICK h \in DOMAIN text.items : ToSet(groups[g]) \subseteq ToSet(text.items[h])
    BY <1>1
  <2>11. ToSet(held(g)) \subseteq Keyed(text, h)
    <3>1. DOMAIN held(g) = DOMAIN q
      BY <2>4
    <3>2. \A k \in DOMAIN q : held(g)[k] \in OpenNotes /\ notes[held(g)[k]].key \in ToSet(text.items[h])
      BY <2>6, <2>7, <2>10, ReadFacts
    <3>. QED  BY <3>1, <3>2 DEF ToSet, Keyed
  <2>. QED  BY <2>8, <2>9, <2>11
<1>. HIDE DEF held, W, found
<1>6. Holders(text) \in Seq(W)
  <2>1. DOMAIN groups = 1 .. Len(groups) /\ Len(groups) \in Nat
    BY <1>1
  <2>2. Holders(text) \in [1 .. Len(groups) -> W]
    BY <1>2, <1>5, <2>1
  <2>. QED  BY <2>1, <2>2, RowsAreSeq
<1>7. \A g \in DOMAIN Holders(text) : g \in DOMAIN groups /\ Holders(text)[g] = held(g)
  BY <1>2
<1>. QED  BY <1>5, <1>6, <1>7 DEF W

-------------------------------------------------------------------------------
(* Notes written one by one.                                                 *)

\* A fold over rows that adds one at most with each step.
Grows(it, R, P, S) ==
  /\ it[{}] \in Seq(R)
  /\ \A s \in SUBSET S : s # {} /\ it[s \ {P[s]}] \in Seq(R) =>
       it[s] \in Seq(R) /\ Len(it[s]) \in Len(it[s \ {P[s]}]) .. Len(it[s \ {P[s]}]) + 1

LEMMA FoldGrows ==
  ASSUME NEW S, IsFiniteSet(S), NEW R, NEW P, Picks(P, S), NEW it, Grows(it, R, P, S)
  PROVE  it[S] \in Seq(R) /\ Len(it[S]) \in Len(it[{}]) .. Len(it[{}]) + Cardinality(S)
<1>. DEFINE Short(s) == it[s] \in Seq(R) /\ Len(it[s]) \in Len(it[{}]) .. Len(it[{}]) + Cardinality(s)
            T == {s \in SUBSET S : Short(s)}
<1>1. {} \in T
  BY FS_EmptySet DEF Grows
<1>2. ASSUME NEW s \in SUBSET S, s # {} PROVE \E x \in s : s \ {x} \in T => s \in T
  <2>. DEFINE r == s \ {P[s]}
  <2>1. P[s] \in s
    BY <1>2 DEF Picks
  <2>2. IsFiniteSet(s) /\ Cardinality(s) \in Nat /\ IsFiniteSet(r) /\ Cardinality(r) = Cardinality(s) - 1
    <3>1. IsFiniteSet(s) /\ Cardinality(s) \in Nat
      BY FS_Subset, FS_CardinalityType
    <3>. QED  BY <2>1, <3>1, FS_RemoveElement
  <2>3. r \in T => s \in T
    <3>. SUFFICES ASSUME r \in T PROVE s \in T
      OBVIOUS
    <3>1. it[r] \in Seq(R) /\ Len(it[r]) \in Len(it[{}]) .. Len(it[{}]) + Cardinality(r)
      BY DEF T
    <3>2. it[s] \in Seq(R) /\ Len(it[s]) \in Len(it[r]) .. Len(it[r]) + 1
      BY <1>2, <3>1 DEF Grows
    <3>3. it[{}] \in Seq(R)
      BY DEF Grows
    <3>4. Len(it[s]) \in Nat /\ Len(it[r]) \in Nat /\ Len(it[{}]) \in Nat
      BY <3>1, <3>2, <3>3
    <3>. HIDE DEF r
    <3>5. Short(s)
      BY <2>2, <3>1, <3>2, <3>4
    <3>. QED  BY <3>5
  <2>. HIDE DEF T
  <2>. QED  BY <2>1, <2>3
<1>. HIDE DEF T
<1>3. S \in T
  BY <1>1, <1>2, SubsetInduction
<1>. QED  BY <1>3 DEF T

LEMMA AppendFacts ==
  ASSUME NEW R, NEW rows \in Seq(R), NEW x \in R
  PROVE  Append(rows, x) \in Seq(R) /\ Len(Append(rows, x)) = Len(rows) + 1
OBVIOUS

\* The last of some places of a sequence.
LEMMA LastPlace ==
  ASSUME NEW R, NEW rows \in Seq(R), NEW same \in SUBSET (DOMAIN rows), same # {}
  PROVE  Max(same) \in DOMAIN rows /\ Max(same) \in same
<1>1. DOMAIN rows = 1 .. Len(rows) /\ Len(rows) \in Nat
  OBVIOUS
<1>2. Max(same) \in same
  BY <1>1, MaxFacts
<1>. QED  BY <1>2

LEMMA ExceptFacts ==
  ASSUME NEW R, NEW rows \in Seq(R), NEW i \in DOMAIN rows, NEW x \in R
  PROVE  LET next == [rows EXCEPT ![i] = x]
         IN  next \in Seq(R) /\ Len(next) = Len(rows)
OBVIOUS

LEMMA WithCommitmentFacts ==
  ASSUME NEW rows \in Seq(NoteRow), NEW x \in NoteRow
  PROVE  /\ WithCommitment(rows, x) \in Seq(NoteRow)
         /\ Len(WithCommitment(rows, x)) \in Len(rows) .. Len(rows) + 1
<1>. DEFINE same == {i \in DOMAIN rows : rows[i].state = "open" /\ rows[i].key = x.key}
            m    == Max(same)
            next == [rows EXCEPT ![m].weight = IF x.weight = 0 THEN @ ELSE x.weight]
<1>0. Len(rows) \in Nat
  OBVIOUS
<1>1. CASE same = {}
  <2>1. WithCommitment(rows, x) = Append(rows, x)
    BY <1>1 DEF WithCommitment
  <2>. QED  BY <1>0, <2>1, AppendFacts
<1>2. CASE same # {}
  <2>1. m \in DOMAIN rows
    <3>. HIDE DEF same
    <3>1. same \in SUBSET (DOMAIN rows)
      BY DEF same
    <3>. QED  BY <1>2, <3>1, LastPlace
  <2>2. WithCommitment(rows, x) = next
    BY <1>2 DEF WithCommitment
  <2>. HIDE DEF m
  <2>3. rows[m] \in NoteRow
    BY <2>1
  <2>. DEFINE z == [rows[m] EXCEPT !.weight = IF x.weight = 0 THEN rows[m].weight ELSE x.weight]
  <2>4. z \in NoteRow
    BY <2>3 DEF NoteRow
  <2>5. next = [rows EXCEPT ![m] = z]
    OBVIOUS
  <2>. HIDE DEF z, next
  <2>6. next \in Seq(NoteRow) /\ Len(next) = Len(rows)
    BY <2>1, <2>4, <2>5, ExceptFacts
  <2>. QED  BY <1>0, <2>2, <2>6
<1>. QED  BY <1>1, <1>2

\* A trait is appended, once what it replaces is gone.
LEMMA WithTraitFacts ==
  ASSUME NEW R, Gone \in R, NEW rows \in Seq(R), NEW x \in R, NEW reworded
  PROVE  /\ WithTrait(rows, x, reworded) \in Seq(R)
         /\ Len(WithTrait(rows, x, reworded)) \in Len(rows) .. Len(rows) + 1
<1>. DEFINE same == {i \in DOMAIN rows : rows[i].state # "gone" /\ rows[i].key = x.key}
            m    == Max(same)
            next == [rows EXCEPT ![m] = Gone]
<1>0. Len(rows) \in Nat
  OBVIOUS
<1>1. CASE same = {}
  <2>1. WithTrait(rows, x, reworded) = Append(rows, x)
    BY <1>1 DEF WithTrait
  <2>. QED  BY <1>0, <2>1, AppendFacts
<1>2. CASE same # {}
  <2>1. m \in DOMAIN rows
    <3>. HIDE DEF same
    <3>1. same \in SUBSET (DOMAIN rows)
      BY DEF same
    <3>. QED  BY <1>2, <3>1, LastPlace
  <2>2. WithTrait(rows, x, reworded) \in {Append(next, x), rows}
    BY <1>2 DEF WithTrait
  <2>. HIDE DEF m
  <2>3. next \in Seq(R) /\ Len(next) = Len(rows)
    BY <2>1, ExceptFacts
  <2>. HIDE DEF next
  <2>4. Append(next, x) \in Seq(R) /\ Len(Append(next, x)) = Len(next) + 1
    BY <2>3, AppendFacts
  <2>. QED  BY <1>0, <2>2, <2>3, <2>4
<1>. QED  BY <1>1, <1>2

\* A conversation's commitments, one after the other.
LEMMA FoldCommitments ==
  ASSUME NEW ns \in Seq(NoteRow), NEW xs \in Seq(NoteRow)
  PROVE  LET after == FoldLeft(WithCommitment, ns, xs)
         IN  after \in Seq(NoteRow) /\ Len(after) \in Len(ns) .. Len(ns) + Len(xs)
<1>. DEFINE n == Len(xs)
            S == 1 .. n
            V == Seq(NoteRow)
            P == [s \in SUBSET S |-> Max(s)]
            G == [z \in S \X V |-> WithCommitment(z[2], xs[z[1]])]
            Body(jt) == jt = [s \in SUBSET S |-> IF s = {} THEN ns ELSE WithCommitment(jt[s \ {Max(s)}], xs[Max(s)])]
<1>1. n \in Nat /\ DOMAIN xs = S /\ \A i \in S : xs[i] \in NoteRow
  OBVIOUS
<1>2. IsFiniteSet(S) /\ Picks(P, S) /\ Cardinality(S) = n
  <2>1. IsFiniteSet(S) /\ Picks(P, S)
    <3>. HIDE DEF n
    <3>. QED  BY <1>1, LastPicks
  <2>2. Cardinality(S) = n
    <3>. HIDE DEF n
    <3>. QED  BY <1>1, FS_Interval
  <2>. QED  BY <2>1, <2>2
<1>3. ASSUME NEW rows \in V, NEW i \in S
      PROVE  WithCommitment(rows, xs[i]) \in V /\ Len(WithCommitment(rows, xs[i])) \in Len(rows) .. Len(rows) + 1
  BY <1>1, WithCommitmentFacts
<1>. HIDE DEF n, S, V
<1>4. G \in [S \X V -> V]
  BY <1>3
<1>0. ns \in V
  BY DEF V
<1>5. PICK it : FoldTable(it, S, V, ns, G, P)
  <2>. HIDE DEF G, P
  <2>. QED  BY <1>2, <1>4, <1>0, FoldExists
<1>6. ASSUME NEW s \in SUBSET S, s # {} PROVE Max(s) \in S /\ s \ {Max(s)} \in SUBSET S
  BY <1>2, <1>6 DEF Picks
<1>7. Body(it)
  <2>1. ASSUME NEW s \in SUBSET S, s # {} PROVE it[s] = WithCommitment(it[s \ {Max(s)}], xs[Max(s)])
    <3>1. it[s] = G[<<Max(s), it[s \ {Max(s)}]>>]
      <4>1. it[s] = G[<<P[s], it[s \ {P[s]}]>>] /\ P[s] = Max(s)
        <5>. HIDE DEF G
        <5>. QED  BY <1>5, <2>1 DEF FoldTable
      <4>. QED  BY <4>1, Zenon
    <3>2. <<Max(s), it[s \ {Max(s)}]>> \in S \X V
      BY <1>5, <1>6, <2>1 DEF FoldTable
    <3>. QED  BY <3>1, <3>2
  <2>. HIDE DEF G, P
  <2>2. it[{}] = ns /\ it \in [SUBSET S -> V]
    BY <1>5 DEF FoldTable
  <2>. QED  BY <2>1, <2>2
<1>. DEFINE ft == CHOOSE jt : Body(jt)
<1>8. Body(ft)
  <2>. HIDE DEF Body
  <2>. QED  BY <1>7
<1>9. FoldLeft(WithCommitment, ns, xs) = ft[S]
  BY <1>1, Zenon DEF FoldLeft, MapThenFoldSet
<1>10. ft[{}] = ns
  <2>. HIDE DEF ft
  <2>. QED  BY <1>8
<1>11. ASSUME NEW s \in SUBSET S, s # {}, ft[s \ {P[s]}] \in V
       PROVE  ft[s] \in V /\ Len(ft[s]) \in Len(ft[s \ {P[s]}]) .. Len(ft[s \ {P[s]}]) + 1
  <2>1. P[s] = Max(s)
    OBVIOUS
  <2>. HIDE DEF ft, P
  <2>2. ft[s] = WithCommitment(ft[s \ {Max(s)}], xs[Max(s)])
    BY <1>8, <1>11
  <2>. HIDE DEF Body
  <2>. QED  BY <1>3, <1>6, <1>11, <2>1, <2>2
<1>. HIDE DEF ft, P
<1>12. Grows(ft, NoteRow, P, S)
  BY <1>10, <1>11, <1>0 DEF Grows, V
<1>13. ft[S] \in Seq(NoteRow) /\ Len(ft[S]) \in Len(ft[{}]) .. Len(ft[{}]) + Cardinality(S)
  BY <1>2, <1>12, FoldGrows
<1>. QED  BY <1>2, <1>9, <1>10, <1>13 DEF n


\* An answer's traits, one after the other.
LEMMA FoldTraits ==
  ASSUME NEW R, Gone \in R, NEW ns \in Seq(R), NEW xs \in Seq(R), NEW reworded
  PROVE  LET after == WithTraits(ns, xs, reworded)
         IN  after \in Seq(R) /\ Len(after) \in Len(ns) .. Len(ns) + Len(xs)
<1>. DEFINE n == Len(xs)
            S == 1 .. n
            V == Seq(R)
            P == [s \in SUBSET S |-> Max(s)]
            G == [z \in S \X V |-> WithTrait(z[2], xs[z[1]], reworded)]
            Body(jt) == jt = [s \in SUBSET S |-> IF s = {} THEN ns ELSE WithTrait(jt[s \ {Max(s)}], xs[Max(s)], reworded)]
<1>1. n \in Nat /\ DOMAIN xs = S /\ \A i \in S : xs[i] \in R
  OBVIOUS
<1>2. IsFiniteSet(S) /\ Picks(P, S) /\ Cardinality(S) = n
  <2>1. IsFiniteSet(S) /\ Picks(P, S)
    <3>. HIDE DEF n
    <3>. QED  BY <1>1, LastPicks
  <2>2. Cardinality(S) = n
    <3>. HIDE DEF n
    <3>. QED  BY <1>1, FS_Interval
  <2>. QED  BY <2>1, <2>2
<1>3. ASSUME NEW rows \in V, NEW i \in S
      PROVE  WithTrait(rows, xs[i], reworded) \in V /\ Len(WithTrait(rows, xs[i], reworded)) \in Len(rows) .. Len(rows) + 1
  BY <1>1, WithTraitFacts
<1>. HIDE DEF n, S, V
<1>4. G \in [S \X V -> V]
  BY <1>3
<1>0. ns \in V
  BY DEF V
<1>5. PICK it : FoldTable(it, S, V, ns, G, P)
  <2>. HIDE DEF G, P
  <2>. QED  BY <1>2, <1>4, <1>0, FoldExists
<1>6. ASSUME NEW s \in SUBSET S, s # {} PROVE Max(s) \in S /\ s \ {Max(s)} \in SUBSET S
  BY <1>2, <1>6 DEF Picks
<1>7. Body(it)
  <2>1. ASSUME NEW s \in SUBSET S, s # {} PROVE it[s] = WithTrait(it[s \ {Max(s)}], xs[Max(s)], reworded)
    <3>1. it[s] = G[<<Max(s), it[s \ {Max(s)}]>>]
      <4>1. it[s] = G[<<P[s], it[s \ {P[s]}]>>] /\ P[s] = Max(s)
        <5>. HIDE DEF G
        <5>. QED  BY <1>5, <2>1 DEF FoldTable
      <4>. QED  BY <4>1, Zenon
    <3>2. <<Max(s), it[s \ {Max(s)}]>> \in S \X V
      BY <1>5, <1>6, <2>1 DEF FoldTable
    <3>. QED  BY <3>1, <3>2
  <2>. HIDE DEF G, P
  <2>2. it[{}] = ns /\ it \in [SUBSET S -> V]
    BY <1>5 DEF FoldTable
  <2>. QED  BY <2>1, <2>2
<1>. DEFINE ft == CHOOSE jt : Body(jt)
<1>8. Body(ft)
  <2>. HIDE DEF Body
  <2>. QED  BY <1>7
<1>9. WithTraits(ns, xs, reworded) = ft[S]
  BY <1>1, Zenon DEF WithTraits, FoldLeft, MapThenFoldSet
<1>10. ft[{}] = ns
  <2>. HIDE DEF ft
  <2>. QED  BY <1>8
<1>11. ASSUME NEW s \in SUBSET S, s # {}, ft[s \ {P[s]}] \in V
       PROVE  ft[s] \in V /\ Len(ft[s]) \in Len(ft[s \ {P[s]}]) .. Len(ft[s \ {P[s]}]) + 1
  <2>1. P[s] = Max(s)
    OBVIOUS
  <2>. HIDE DEF ft, P
  <2>2. ft[s] = WithTrait(ft[s \ {Max(s)}], xs[Max(s)], reworded)
    BY <1>8, <1>11
  <2>. HIDE DEF Body
  <2>. QED  BY <1>3, <1>6, <1>11, <2>1, <2>2
<1>. HIDE DEF ft, P
<1>12. Grows(ft, R, P, S)
  BY <1>10, <1>11, <1>0 DEF Grows, V
<1>13. ft[S] \in Seq(R) /\ Len(ft[S]) \in Len(ft[{}]) .. Len(ft[{}]) + Cardinality(S)
  BY <1>2, <1>12, FoldGrows
<1>. QED  BY <1>2, <1>9, <1>10, <1>13 DEF n

-------------------------------------------------------------------------------
(* What the parsers keep.                                                    *)

LEMMA CoercedFacts ==
  ASSUME NEW most \in Nat,
         NEW text \in Texts([says : Words \cup {Blank}, key : Words \cup {Blank}, weight : {0, 1}], most)
  PROVE  Coerced(text) \in Seq(NoteRow) /\ Len(Coerced(text)) <= most
<1>. DEFINE V     == [says : Words \cup {Blank}, key : Words \cup {Blank}, weight : {0, 1}]
            items == Strict(text)
            P     == {k \in DOMAIN items : items[k].says # Blank}
            named  == Picked(items, P)
            c     == Len(named)
<1>1. text.items \in Seq(V) /\ Len(text.items) <= most
  BY TextFacts
<1>2. items \in Seq(V) /\ Len(items) <= most /\ Len(items) \in Nat
  BY <1>1 DEF Strict
<1>3. named \in Seq(V) /\ Len(named) <= Len(items)
  <2>. HIDE DEF V, items
  <2>1. P \in SUBSET (DOMAIN items)
    OBVIOUS
  <2>. HIDE DEF P
  <2>2. named \in Seq(V) /\ \E at : PickedAt(items, P, named, at)
    BY <1>2, <2>1, PickedFacts
  <2>. HIDE DEF named
  <2>. QED  BY <1>2, <2>2 DEF PickedAt
<1>4. Named(text) = [i \in DOMAIN named |-> [named[i] EXCEPT !.key = IF @ = Blank THEN named[i].says ELSE @]]
  BY DEF Named
<1>. HIDE DEF items, named
<1>5. c \in Nat /\ DOMAIN named = 1 .. c /\ \A i \in 1 .. c : named[i] \in V
  <2>. HIDE DEF V
  <2>. QED  BY <1>3
<1>. HIDE DEF c
<1>6. \A i \in 1 .. c : Named(text)[i].key \in Words \cup {Blank} /\ Named(text)[i].weight \in {0, 1}
  BY <1>4, <1>5
<1>7. DOMAIN Named(text) = 1 .. c
  BY <1>4, <1>5
<1>8. Coerced(text) \in [1 .. c -> NoteRow]
  BY <1>6, <1>7 DEF Coerced, NoteRow
<1>9. Coerced(text) \in Seq(NoteRow) /\ Len(Coerced(text)) = c
  BY <1>5, <1>8, RowsAreSeq
<1>. QED  BY <1>2, <1>3, <1>5, <1>9 DEF c

\* Whatever was detected rests on something that was shown.
Finding(K, known) ==
  [key : K, state : {"open"}, weight : {0, 1}, cites : (SUBSET known) \ {{}}]

LEMMA DetectedFacts ==
  ASSUME NEW K, NEW known, NEW most \in Nat,
         NEW text \in Texts([key : K \cup {Blank}, cites : Cites, weight : {0, 1}], most)
  PROVE  /\ Detected(text, known) \in Seq(Finding(K, known))
         /\ Len(Detected(text, known)) <= most
<1>. DEFINE V     == [key : K \cup {Blank}, cites : Cites, weight : {0, 1}]
            items == text.items
            P     == {k \in DOMAIN items : items[k].key # Blank /\ Cited(items[k].cites, known) # {}}
            r     == Picked(items, P)
            c     == Len(r)
<1>1. items \in Seq(V) /\ Len(items) <= most
  <2>1. text \in Texts(V, most)
    OBVIOUS
  <2>. HIDE DEF V
  <2>. QED  BY <2>1, TextFacts
<1>2. Detected(text, known) =
        [i \in DOMAIN r |-> [key |-> r[i].key, state |-> "open", weight |-> r[i].weight,
                             cites |-> Cited(r[i].cites, known)]]
  BY DEF Detected
<1>. HIDE DEF items
<1>3. P \in SUBSET (DOMAIN items)
  OBVIOUS
<1>4. r \in Seq(V) /\ \E at : PickedAt(items, P, r, at)
  <2>. HIDE DEF V, P
  <2>. QED  BY <1>1, <1>3, PickedFacts
<1>. HIDE DEF r
<1>5. PICK at : PickedAt(items, P, r, at)
  BY <1>4
<1>6. c \in Nat /\ c <= most /\ DOMAIN r = 1 .. c /\ \A i \in 1 .. c : at[i] \in P /\ r[i] = items[at[i]]
  <2>1. Len(items) \in Nat
    BY <1>1
  <2>. HIDE DEF P
  <2>. QED  BY <1>1, <1>5, <2>1 DEF PickedAt
<1>7. ASSUME NEW i \in 1 .. c
      PROVE  r[i].key \in K /\ r[i].weight \in {0, 1} /\ Cited(r[i].cites, known) \in (SUBSET known) \ {{}}
  <2>1. r[i] \in V
    <3>. HIDE DEF V, P
    <3>. QED  BY <1>4, <1>6
  <2>2. r[i].key # Blank /\ Cited(r[i].cites, known) # {}
    BY <1>6
  <2>. QED  BY <2>1, <2>2 DEF Cited
<1>. HIDE DEF c, V
<1>8. Detected(text, known) \in [1 .. c -> Finding(K, known)]
  BY <1>2, <1>6, <1>7 DEF Finding
<1>9. Detected(text, known) \in Seq(Finding(K, known)) /\ Len(Detected(text, known)) = c
  BY <1>6, <1>8, RowsAreSeq
<1>. QED  BY <1>6, <1>9

\* An answer places the person on each axis once, on what was shown.
LEMMA DimensionsFacts ==
  ASSUME NEW known, NEW text \in Placings
  PROVE  LET dims == Dimensions(text, known)
         IN  \A i \in DOMAIN dims :
               /\ dims[i].key \in Axes /\ dims[i].cites # {} /\ dims[i].cites \subseteq known
               /\ \A j \in DOMAIN dims \ {i} : dims[j].key # dims[i].key
<1>. DEFINE V     == Finding(Axes \cup {Other}, known)
            found == Detected(text, known)
            P     == {k \in Placed(found) : \A l \in Placed(found) : l < k => found[l].key # found[k].key}
            dims  == Picked(found, P)
<1>1. found \in Seq(V)
  <2>. DEFINE K == Axes \cup {Other}
  <2>1. Axes \cup {Blank, Other} = K \cup {Blank}
    OBVIOUS
  <2>. HIDE DEF K
  <2>2. text \in Texts([key : K \cup {Blank}, cites : Cites, weight : {0}], MaxItems)
    BY <2>1 DEF Placings
  <2>3. text \in Texts([key : K \cup {Blank}, cites : Cites, weight : {0, 1}], MaxItems)
    <3>1. PICK n \in 0 .. MaxItems : text.items \in [1 .. n -> [key : K \cup {Blank}, cites : Cites, weight : {0}]]
      BY <2>2 DEF Texts
    <3>2. text.items \in [1 .. n -> [key : K \cup {Blank}, cites : Cites, weight : {0, 1}]]
      BY <3>1
    <3>. QED  BY <2>2, <3>2 DEF Texts
  <2>4. MaxItems \in Nat
    BY ReplyAssumption
  <2>. QED  BY <2>3, <2>4, DetectedFacts DEF K
<1>2. Dimensions(text, known) = dims
  BY DEF Dimensions
<1>. HIDE DEF found
<1>3. DOMAIN found \subseteq Nat /\ \A k \in DOMAIN found : found[k] \in V
  BY <1>1
<1>4. P \in SUBSET (DOMAIN found)
  BY DEF Placed
<1>5. ASSUME NEW k \in P
      PROVE  k \in Nat /\ found[k].key \in Axes /\ found[k].cites # {} /\ found[k].cites \subseteq known
  <2>1. k \in DOMAIN found /\ found[k].key \in Axes
    BY DEF Placed
  <2>2. found[k] \in V
    BY <1>3, <2>1
  <2>. QED  BY <1>3, <2>1, <2>2 DEF Finding
<1>6. ASSUME NEW k \in P, NEW l \in P, found[k].key = found[l].key PROVE k = l
  <2>1. ~(k < l) /\ ~(l < k)
    BY <1>6
  <2>. QED  BY <1>5, <2>1
<1>. HIDE DEF P, V
<1>7. PICK at : PickedAt(found, P, dims, at)
  BY <1>1, <1>4, PickedFacts
<1>. HIDE DEF dims
<1>8. \A i \in DOMAIN dims : at[i] \in P /\ dims[i] = found[at[i]]
  BY <1>7 DEF PickedAt
<1>9. \A i, j \in DOMAIN dims : dims[i].key = dims[j].key => i = j
  BY <1>6, <1>7, <1>8 DEF PickedAt
<1>. QED  BY <1>2, <1>5, <1>8, <1>9

\* A score is one that the answer gave, by its number.
LEMMA ScoresFacts ==
  ASSUME NEW text \in Scorings, NEW count \in Nat, NEW k \in 1 .. count, Scores(text, count)[k] = 1
  PROVE  text.whole /\ [index |-> k - 1, score |-> 1] \in ToSet(text.items)
<1>. DEFINE V     == [index : (-1)..MaxNotes, score : {0, 1}]
            items == Strict(text)
            given == {n \in DOMAIN items : items[n].index = k - 1}
<1>1. text.items \in Seq(V)
  BY ReplyAssumption, TextFacts DEF Scorings
<1>2. items \in Seq(V)
  BY <1>1 DEF Strict
<1>3. LastScore(items, given) = 1
  BY DEF Scores
<1>. HIDE DEF items, V
<1>4. given # {} /\ items[Max(given)].score = 1
  BY <1>3 DEF LastScore
<1>5. given \in SUBSET (DOMAIN items)
  OBVIOUS
<1>6. Max(given) \in DOMAIN items /\ Max(given) \in given
  <2>. HIDE DEF given
  <2>. QED  BY <1>2, <1>4, <1>5, LastPlace
<1>. DEFINE m == Max(given)
<1>7. m \in DOMAIN items /\ items[m].index = k - 1 /\ items[m].score = 1
  BY <1>4, <1>6
<1>. HIDE DEF m
<1>8. text.whole /\ items = text.items
  <2>1. text.whole \in BOOLEAN
    BY ReplyAssumption, TextFacts DEF Scorings
  <2>2. ~text.whole => items = <<>>
    BY DEF items, Strict
  <2>3. text.whole => items = text.items
    BY DEF items, Strict
  <2>4. DOMAIN <<>> = {}
    OBVIOUS
  <2>. QED  BY <1>7, <2>1, <2>2, <2>3, <2>4
<1>9. items[m] \in V
  BY <1>2, <1>7
<1>10. items[m] = [index |-> k - 1, score |-> 1]
  BY <1>7, <1>9 DEF V
<1>. QED  BY <1>7, <1>8, <1>10 DEF ToSet

-------------------------------------------------------------------------------
(* The invariant.                                                            *)

\* A note of a trait rests on evidence that there is.
Resting == {r \in NoteRow : r # Gone => r.cites # {} /\ r.cites \subseteq evidence}

ReplyInv ==
  /\ topic \in {"commitments", "traits", "episodes"}
  /\ notes \in Seq(NoteRow) /\ Len(notes) <= MaxNotes
  /\ evidence \subseteq Evidence
  /\ AskedOK
  /\ InferencesAreGrounded

LEMMA NotAskedOK ==
  asked' = NotAsked => AskedOK'
<1>. SUFFICES ASSUME asked' = NotAsked PROVE AskedOK'
  OBVIOUS
<1>1. asked'.about = "nothing" /\ asked'.shown = <<>> /\ asked'.known = {}
  BY DEF NotAsked
<1>2. asked' \in [about : Abouts, shown : Seq(Nat), known : SUBSET Evidence]
  BY DEF NotAsked, Abouts
<1>3. ToSet(asked'.shown) = {} /\ Once(asked'.shown)
  BY <1>1 DEF ToSet, Once
<1>. QED  BY <1>1, <1>2, <1>3 DEF AskedOK

LEMMA AskedStays ==
  ASSUME ReplyInv, asked' = asked, topic' = topic, evidence \subseteq evidence',
         notes' \in Seq(NoteRow), Len(notes) <= Len(notes')
  PROVE  AskedOK'
<1>1. DOMAIN notes \subseteq DOMAIN notes'
  BY DEF ReplyInv
<1>. QED  BY <1>1 DEF ReplyInv, AskedOK

\* What grounds the notes of traits.
LEMMA RestingNotes ==
  ASSUME ReplyInv, topic = "traits"
  PROVE  notes \in Seq(Resting) /\ Gone \in Resting
<1>1. DOMAIN notes = 1 .. Len(notes) /\ Len(notes) \in Nat /\ \A i \in DOMAIN notes : notes[i] \in NoteRow
  BY DEF ReplyInv
<1>2. \A i \in DOMAIN notes : notes[i] \in Resting
  BY <1>1 DEF ReplyInv, InferencesAreGrounded, Resting
<1>3. notes \in [1 .. Len(notes) -> Resting]
  <2>1. notes = [i \in DOMAIN notes |-> notes[i]]
    BY DEF ReplyInv
  <2>. QED  BY <1>1, <1>2, <2>1
<1>. QED  BY <1>1, <1>3, RowsAreSeq, GoneIsNote DEF Resting

LEMMA GroundedNotes ==
  ASSUME NEW rows \in Seq(Resting)
  PROVE  /\ rows \in Seq(NoteRow)
         /\ \A i \in DOMAIN rows : rows[i] # Gone => rows[i].cites # {} /\ rows[i].cites \subseteq evidence
<1>1. DOMAIN rows = 1 .. Len(rows) /\ Len(rows) \in Nat /\ \A i \in DOMAIN rows : rows[i] \in Resting
  OBVIOUS
<1>2. rows \in [1 .. Len(rows) -> NoteRow]
  <2>1. \A i \in DOMAIN rows : rows[i] \in NoteRow
    BY <1>1 DEF Resting
  <2>2. rows = [i \in DOMAIN rows |-> rows[i]]
    OBVIOUS
  <2>. QED  BY <1>1, <2>1, <2>2
<1>. QED  BY <1>1, <1>2, RowsAreSeq DEF Resting

\* An action that parses nothing anew leaves no dimension unfounded.
LEMMA PastIsGrounded ==
  AnswerIsPast => \A i \in DOMAIN observed' : FALSE
BY DEF AnswerIsPast

\* The notes after a merge: as before, but for those closed for a better one.
MergedFor(groups) ==
  /\ notes' \in Seq(NoteRow) /\ Len(notes') = Len(notes)
  /\ \A i \in DOMAIN notes : notes'[i] # notes[i] =>
       /\ notes'[i] = Gone
       /\ \E j \in DOMAIN notes \ {i} :
            /\ notes'[j].state = "open" /\ Better(notes, j, i)
            /\ \E g \in DOMAIN groups : i \in ToSet(groups[g]) /\ j \in ToSet(groups[g])

LEMMA MergedNotes ==
  ASSUME notes \in Seq(NoteRow), NEW groups \in Seq(Seq(Nat)),
         topic = "traits" => \A g \in DOMAIN groups : Once(groups[g]),
         notes' = AfterMerges(groups)
  PROVE  MergedFor(groups)
<1>1. PICK acc : MergeInv(acc, groups) /\ acc.left = notes'
  BY AfterMergesFacts
<1>2. acc \in Merge
  BY <1>1 DEF MergeInv
<1>3. notes' \in [DOMAIN notes -> NoteRow] /\ acc.used \subseteq DOMAIN notes
  BY <1>1, <1>2 DEF Merge
<1>4. notes' \in Seq(NoteRow) /\ Len(notes') = Len(notes)
  <2>1. DOMAIN notes = 1 .. Len(notes) /\ Len(notes) \in Nat
    OBVIOUS
  <2>. QED  BY <1>3, <2>1, RowsAreSeq
<1>5. ASSUME NEW i \in DOMAIN notes, notes'[i] # notes[i]
      PROVE  /\ notes'[i] = Gone
             /\ \E j \in DOMAIN notes \ {i} :
                  /\ notes'[j].state = "open" /\ Better(notes, j, i)
                  /\ \E g \in DOMAIN groups : i \in ToSet(groups[g]) /\ j \in ToSet(groups[g])
  <2>1. notes'[i] = Gone /\ Spared(acc, groups, i)
    BY <1>1, <1>5 DEF MergeInv
  <2>2. PICK j \in acc.used \ {i} :
          /\ acc.left[j] = notes[j] /\ notes[j].state = "open" /\ Better(notes, j, i)
          /\ \E g \in DOMAIN groups : i \in ToSet(groups[g]) /\ j \in ToSet(groups[g])
    BY <2>1 DEF Spared
  <2>. QED  BY <1>1, <1>3, <2>1, <2>2
<1>. QED  BY <1>4, <1>5 DEF MergedFor

LEMMA ReplyInitially == ReplyInit => ReplyInv
<1>. SUFFICES ASSUME ReplyInit PROVE ReplyInv
  OBVIOUS
<1>1. notes \in Seq(NoteRow) /\ Len(notes) = 0 /\ DOMAIN notes = {} /\ DOMAIN observed = {}
  BY DEF ReplyInit
<1>2. AskedOK
  <2>1. asked.about = "nothing" /\ asked.shown = <<>> /\ asked.known = {}
    BY DEF ReplyInit, NotAsked
  <2>2. asked \in [about : Abouts, shown : Seq(Nat), known : SUBSET Evidence]
    BY DEF ReplyInit, NotAsked, Abouts
  <2>. QED  BY <2>1, <2>2 DEF AskedOK, ToSet, Once
<1>. QED  BY <1>1, <1>2, ReplyAssumption DEF ReplyInit, ReplyInv, InferencesAreGrounded

\* Notes and questions that stay keep the invariant.
LEMMA NotesStay ==
  ASSUME ReplyInv, UNCHANGED <<topic, notes>>, evidence \subseteq evidence', evidence' \subseteq Evidence,
         AnswerIsPast, AskedOK'
  PROVE  ReplyInv'
<1>. QED  BY PastIsGrounded DEF ReplyInv, InferencesAreGrounded

LEMMA RoomFacts ==
  ASSUME ReplyInv
  PROVE  Room \in Nat /\ Len(notes) + Room <= MaxNotes /\ Len(notes) \in Nat
BY ReplyAssumption DEF ReplyInv, Room

LEMMA ListenKeeps ==
  ASSUME ReplyInv, NEW text \in Commits, Listen(text)
  PROVE  ReplyInv'
<1>1. Room \in Nat /\ Len(notes) + Room <= MaxNotes /\ Len(notes) \in Nat
  BY RoomFacts
<1>2. Coerced(text) \in Seq(NoteRow) /\ Len(Coerced(text)) <= Room
  BY <1>1, CoercedFacts DEF Commits
<1>3. notes \in Seq(NoteRow) /\ UNCHANGED <<topic, evidence, asked>> /\ AnswerIsPast
      /\ topic = "commitments" /\ notes' = FoldLeft(WithCommitment, notes, Coerced(text))
  BY DEF ReplyInv, Listen
<1>4. notes' \in Seq(NoteRow) /\ Len(notes') \in Len(notes) .. Len(notes) + Len(Coerced(text))
  BY <1>2, <1>3, FoldCommitments
<1>5. Len(Coerced(text)) \in Nat /\ MaxNotes \in Nat
  BY <1>2, ReplyAssumption
<1>6. Len(notes') <= MaxNotes /\ Len(notes) <= Len(notes')
  BY <1>1, <1>2, <1>4, <1>5
<1>7. AskedOK'
  BY <1>3, <1>4, <1>6, AskedStays
<1>. QED  BY <1>3, <1>4, <1>6, <1>7, PastIsGrounded DEF ReplyInv, InferencesAreGrounded

LEMMA EvidenceKeeps ==
  ASSUME ReplyInv, NEW e \in Evidence, EvidenceAppears(e)
  PROVE  ReplyInv'
<1>1. AskedOK'
  <2>1. notes' \in Seq(NoteRow) /\ Len(notes) <= Len(notes') /\ asked' = asked /\ topic' = topic
        /\ evidence \subseteq evidence'
    BY DEF EvidenceAppears, ReplyInv
  <2>. QED  BY <2>1, AskedStays
<1>2. evidence' \subseteq Evidence
  BY DEF EvidenceAppears, ReplyInv
<1>. QED  BY <1>1, <1>2, NotesStay DEF EvidenceAppears

LEMMA AskPatternsKeeps ==
  ASSUME ReplyInv, AskForPatterns
  PROVE  ReplyInv'
<1>1. asked'.about = "patterns" /\ asked'.shown = <<>> /\ asked'.known = evidence
  BY DEF AskForPatterns
<1>2. asked' \in [about : Abouts, shown : Seq(Nat), known : SUBSET Evidence]
  BY DEF AskForPatterns, Abouts, ReplyInv
<1>3. ToSet(asked'.shown) = {} /\ Once(asked'.shown)
  BY <1>1 DEF ToSet, Once
<1>4. AskedOK'
  BY <1>1, <1>2, <1>3 DEF AskedOK, AskForPatterns
<1>. QED  BY <1>4, NotesStay DEF AskForPatterns, ReplyInv

LEMMA PatternsKeep ==
  ASSUME ReplyInv, NEW text \in Patterns, AnswerPatterns(text)
  PROVE  ReplyInv'
<1>. DEFINE traits == Detected(text, asked.known)
<1>1. Room \in Nat /\ Len(notes) + Room <= MaxNotes /\ Len(notes) \in Nat
  BY RoomFacts
<1>2. traits \in Seq(Finding(Words, asked.known)) /\ Len(traits) <= Room
  BY <1>1, DetectedFacts DEF Patterns
<1>3. topic = "traits" /\ asked.known \subseteq evidence /\ asked.known \subseteq Evidence
  BY DEF AnswerPatterns, ReplyInv, AskedOK
<1>4. PICK reworded : notes' = WithTraits(notes, traits, reworded)
  BY DEF AnswerPatterns
<1>. HIDE DEF traits
<1>5. traits \in Seq(Resting)
  <2>1. \A r \in Finding(Words, asked.known) : r \in Resting
    BY <1>3 DEF Finding, Resting, NoteRow
  <2>2. DOMAIN traits = 1 .. Len(traits) /\ Len(traits) \in Nat
        /\ \A i \in DOMAIN traits : traits[i] \in Finding(Words, asked.known)
    BY <1>2
  <2>3. traits \in [1 .. Len(traits) -> Resting]
    <3>1. traits = [i \in DOMAIN traits |-> traits[i]]
      BY <1>2
    <3>. QED  BY <2>1, <2>2, <3>1
  <2>. QED  BY <2>2, <2>3, RowsAreSeq
<1>6. notes' \in Seq(Resting) /\ Len(notes') \in Len(notes) .. Len(notes) + Len(traits)
  BY <1>3, <1>4, <1>5, RestingNotes, FoldTraits
<1>7. Len(notes') <= MaxNotes
  <2>1. Len(traits) \in Nat /\ MaxNotes \in Nat
    BY <1>5, ReplyAssumption
  <2>. QED  BY <1>1, <1>2, <1>6, <2>1
<1>8. UNCHANGED <<topic, evidence>> /\ AnswerIsPast /\ asked' = NotAsked
  BY DEF AnswerPatterns
<1>9. notes' \in Seq(NoteRow)
      /\ \A i \in DOMAIN notes' : notes'[i] # Gone => notes'[i].cites # {} /\ notes'[i].cites \subseteq evidence
  BY <1>6, GroundedNotes
<1>10. AskedOK'
  BY <1>8, NotAskedOK
<1>. QED  BY <1>7, <1>8, <1>9, <1>10, PastIsGrounded DEF ReplyInv, InferencesAreGrounded

LEMMA ProfileKeeps ==
  ASSUME ReplyInv, NEW text \in Placings, AnswerProfile(text)
  PROVE  ReplyInv'
<1>1. /\ UNCHANGED <<topic, notes, evidence>> /\ asked' = NotAsked
      /\ observed' = Dimensions(text, asked.known)
  BY DEF AnswerProfile
<1>2. AskedOK'
  BY <1>1, NotAskedOK
<1>3. \A i \in DOMAIN observed' :
        /\ observed'[i].key \in Axes /\ observed'[i].cites # {} /\ observed'[i].cites \subseteq asked.known
        /\ \A j \in DOMAIN observed' \ {i} : observed'[j].key # observed'[i].key
  BY <1>1, DimensionsFacts
<1>4. asked.known \subseteq evidence
  BY DEF ReplyInv, AskedOK
<1>. QED  BY <1>1, <1>2, <1>3, <1>4 DEF ReplyInv, InferencesAreGrounded

\* What is shown are notes, each once.
Showable(seq) == seq \in Seq(Nat) /\ ToSet(seq) \subseteq DOMAIN notes /\ Once(seq)

LEMMA ShownFacts ==
  ASSUME ReplyInv
  PROVE  Showable(InOrder(Read)) /\ Showable(Latest)
<1>. DEFINE seq == InOrder(Read)
            c   == Cardinality(Read)
            n   == Len(notes)
<1>1. n \in Nat /\ DOMAIN notes = 1 .. n
  BY DEF ReplyInv
<1>2. Read \in SUBSET (1 .. n)
  BY <1>1, ReadFacts
<1>. HIDE DEF n
<1>3. /\ c \in 0 .. n /\ seq \in [1 .. c -> Read]
      /\ \A k, l \in 1 .. c : seq[k] = seq[l] => k = l
  BY <1>1, <1>2, InOrderFacts
<1>. HIDE DEF seq, c
<1>4. c \in Nat /\ \A k \in 1 .. c : seq[k] \in Nat /\ seq[k] \in DOMAIN notes
  <2>1. c \in Nat
    BY <1>1, <1>3
  <2>2. \A k \in 1 .. c : seq[k] \in Read
    BY <1>3
  <2>3. \A i \in Read : i \in Nat /\ i \in DOMAIN notes
    BY <1>1, <1>2
  <2>. QED  BY <2>1, <2>2, <2>3
<1>5. seq \in [1 .. c -> Nat]
  BY <1>3, <1>4
<1>6. seq \in Seq(Nat) /\ Len(seq) = c /\ DOMAIN seq = 1 .. c
  BY <1>4, <1>5, RowsAreSeq
<1>7. Showable(seq)
  BY <1>3, <1>4, <1>6 DEF Showable, ToSet, Once
<1>. DEFINE rev == Reverse(seq)
<1>8. rev = [k \in 1 .. c |-> seq[(c - k) + 1]]
  BY <1>6 DEF Reverse
<1>. HIDE DEF rev
<1>9. \A k \in 1 .. c : (c - k) + 1 \in 1 .. c
  BY <1>4
<1>10. rev \in [1 .. c -> Nat] /\ \A k \in 1 .. c : rev[k] = seq[(c - k) + 1]
  BY <1>4, <1>8, <1>9
<1>11. rev \in Seq(Nat) /\ DOMAIN rev = 1 .. c
  BY <1>4, <1>10, RowsAreSeq
<1>12. ASSUME NEW k \in 1 .. c, NEW l \in 1 .. c, rev[k] = rev[l] PROVE k = l
  <2>1. (c - k) + 1 = (c - l) + 1
    BY <1>3, <1>9, <1>10, <1>12
  <2>. QED  BY <1>4, <2>1
<1>13. Showable(rev)
  BY <1>4, <1>9, <1>10, <1>11, <1>12 DEF Showable, ToSet, Once
<1>. QED  BY <1>7, <1>13 DEF Latest, seq, rev

LEMMA AskDuplicatesKeeps ==
  ASSUME ReplyInv, AskForDuplicates
  PROVE  ReplyInv'
<1>1. asked'.about = "duplicates" /\ asked'.shown = Latest /\ asked'.known = {} /\ UNCHANGED <<topic, notes, evidence>>
  BY DEF AskForDuplicates
<1>2. Showable(Latest)
  BY ShownFacts
<1>3. asked' \in [about : Abouts, shown : Seq(Nat), known : SUBSET Evidence]
  BY <1>2 DEF AskForDuplicates, Abouts, Showable
<1>4. AskedOK'
  <2>1. ToSet(asked'.shown) \subseteq DOMAIN notes' /\ Once(asked'.shown)
    BY <1>1, <1>2 DEF Showable
  <2>. QED  BY <1>1, <1>3, <2>1 DEF AskedOK, AskForDuplicates
<1>. QED  BY <1>4, NotesStay DEF AskForDuplicates, ReplyInv

LEMMA AskSalienceKeeps ==
  ASSUME ReplyInv, AskForSalience
  PROVE  ReplyInv'
<1>1. CASE Read = {}
  <2>1. AskedOK'
    BY <1>1, NotAskedOK DEF AskForSalience
  <2>. QED  BY <2>1, NotesStay DEF AskForSalience, ReplyInv
<1>2. CASE Read # {}
  <2>1. asked'.about = "salience" /\ asked'.shown = InOrder(Read) /\ asked'.known = {} /\ UNCHANGED <<topic, notes, evidence>>
    BY <1>2 DEF AskForSalience
  <2>2. Showable(InOrder(Read))
    BY ShownFacts
  <2>3. asked' \in [about : Abouts, shown : Seq(Nat), known : SUBSET Evidence]
    BY <1>2, <2>2 DEF AskForSalience, Abouts, Showable
  <2>4. AskedOK'
    <3>1. ToSet(asked'.shown) \subseteq DOMAIN notes' /\ Once(asked'.shown)
      BY <2>1, <2>2 DEF Showable
    <3>. QED  BY <2>1, <2>3, <3>1 DEF AskedOK, AskForSalience
  <2>. QED  BY <2>4, NotesStay DEF AskForSalience, ReplyInv
<1>. QED  BY <1>1, <1>2

\* A merge keeps the invariant, as it closes notes and writes none.
LEMMA MergeKeeps ==
  ASSUME ReplyInv, NEW groups, MergedFor(groups), UNCHANGED <<topic, evidence>>,
         asked' = NotAsked, observed' = <<>>
  PROVE  ReplyInv'
<1>1. AskedOK'
  BY NotAskedOK
<1>2. notes' \in Seq(NoteRow) /\ Len(notes') <= MaxNotes /\ DOMAIN notes' = DOMAIN notes
  BY DEF MergedFor, ReplyInv
<1>3. \A i \in DOMAIN notes : notes'[i] \in {notes[i], Gone}
  BY DEF MergedFor
<1>4. DOMAIN observed' = {}
  OBVIOUS
<1>. QED  BY <1>1, <1>2, <1>3, <1>4 DEF ReplyInv, InferencesAreGrounded

LEMMA ByNumberKeeps ==
  ASSUME ReplyInv, NEW text \in Groupings(0..MaxNotes), AnswerByNumber(text)
  PROVE  ReplyInv' /\ OneOfEachGroupStays
<1>1. text.whole \in BOOLEAN /\ text.items \in Seq(Seq(0..MaxNotes))
  BY GroupingFacts
<1>3. AskedOK /\ notes \in Seq(NoteRow)
  BY DEF ReplyInv
<1>. DEFINE groups == Ids(text)
<1>4. /\ groups \in Seq(Seq(Nat))
      /\ \A g \in DOMAIN groups : \E h \in DOMAIN text.items : ToSet(groups[g]) \subseteq Numbered(text, h)
  BY <1>1, <1>3, IdsFacts
<1>5. /\ topic = "commitments" /\ UNCHANGED <<topic, evidence>> /\ asked' = NotAsked /\ observed' = <<>>
      /\ notes' = AfterMerges(groups)
      /\ meant' = {Numbered(text, h) : h \in DOMAIN text.items}
  BY DEF AnswerByNumber, Numbered
<1>. HIDE DEF groups
<1>6. MergedFor(groups)
  BY <1>3, <1>4, <1>5, MergedNotes
<1>7. ReplyInv'
  BY <1>5, <1>6, MergeKeeps
<1>8. ASSUME NEW i \in DOMAIN notes, notes[i] # Gone, notes'[i] = Gone
      PROVE  \E group \in meant' : \E j \in group \ {i} :
               i \in group /\ notes'[j].state = "open" /\ Better(notes, j, i)
  <2>1. PICK j \in DOMAIN notes \ {i} :
          /\ notes'[j].state = "open" /\ Better(notes, j, i)
          /\ \E g \in DOMAIN groups : i \in ToSet(groups[g]) /\ j \in ToSet(groups[g])
    BY <1>6, <1>8 DEF MergedFor
  <2>2. PICK g \in DOMAIN groups : i \in ToSet(groups[g]) /\ j \in ToSet(groups[g])
    BY <2>1
  <2>3. PICK h \in DOMAIN text.items : ToSet(groups[g]) \subseteq Numbered(text, h)
    BY <1>4
  <2>4. Numbered(text, h) \in meant' /\ i \in Numbered(text, h) /\ j \in Numbered(text, h) \ {i}
    BY <1>5, <2>1, <2>2, <2>3
  <2>. QED  BY <2>1, <2>4
<1>9. OneOfEachGroupStays
  BY <1>8 DEF OneOfEachGroupStays
<1>. QED  BY <1>7, <1>9

LEMMA ByKeyKeeps ==
  ASSUME ReplyInv, NEW text \in Groupings(Words), AnswerByKey(text)
  PROVE  ReplyInv' /\ OneOfEachGroupStays
<1>1. text.whole \in BOOLEAN /\ text.items \in Seq(Seq(Words))
  BY GroupingFacts
<1>3. AskedOK /\ notes \in Seq(NoteRow)
  BY DEF ReplyInv
<1>. DEFINE groups == Holders(text)
<1>4. /\ groups \in Seq(Seq(Nat))
      /\ \A g \in DOMAIN groups : /\ Once(groups[g])
                                  /\ \E h \in DOMAIN text.items : ToSet(groups[g]) \subseteq Keyed(text, h)
  BY <1>1, <1>3, HoldersFacts
<1>5. /\ UNCHANGED <<topic, evidence>> /\ asked' = NotAsked /\ observed' = <<>>
      /\ notes' = AfterMerges(groups)
      /\ meant' = {Keyed(text, h) : h \in DOMAIN text.items}
  BY DEF AnswerByKey, Keyed
<1>. HIDE DEF groups
<1>6. MergedFor(groups)
  BY <1>3, <1>4, <1>5, MergedNotes
<1>7. ReplyInv'
  BY <1>5, <1>6, MergeKeeps
<1>8. ASSUME NEW i \in DOMAIN notes, notes[i] # Gone, notes'[i] = Gone
      PROVE  \E group \in meant' : \E j \in group \ {i} :
               i \in group /\ notes'[j].state = "open" /\ Better(notes, j, i)
  <2>1. PICK j \in DOMAIN notes \ {i} :
          /\ notes'[j].state = "open" /\ Better(notes, j, i)
          /\ \E g \in DOMAIN groups : i \in ToSet(groups[g]) /\ j \in ToSet(groups[g])
    BY <1>6, <1>8 DEF MergedFor
  <2>2. PICK g \in DOMAIN groups : i \in ToSet(groups[g]) /\ j \in ToSet(groups[g])
    BY <2>1
  <2>3. PICK h \in DOMAIN text.items : ToSet(groups[g]) \subseteq Keyed(text, h)
    BY <1>4
  <2>4. Keyed(text, h) \in meant' /\ i \in Keyed(text, h) /\ j \in Keyed(text, h) \ {i}
    BY <1>5, <2>1, <2>2, <2>3
  <2>. QED  BY <2>1, <2>4
<1>9. OneOfEachGroupStays
  BY <1>8 DEF OneOfEachGroupStays
<1>. QED  BY <1>7, <1>9

LEMMA ResolveKeeps ==
  ASSUME ReplyInv, NEW i, NEW text, Resolve(i, text)
  PROVE  ReplyInv'
<1>1. /\ topic = "commitments" /\ i \in DOMAIN notes /\ notes \in Seq(NoteRow)
      /\ UNCHANGED <<topic, evidence, asked>> /\ AnswerIsPast
  BY ReadFacts DEF Resolve, ReplyInv
<1>. DEFINE x == [notes[i] EXCEPT !.state = "settled"]
<1>2. notes' \in {notes, [notes EXCEPT ![i] = x]}
  BY DEF Resolve
<1>3. x \in NoteRow
  <2>1. notes[i] \in NoteRow
    BY <1>1
  <2>. QED  BY <2>1 DEF NoteRow
<1>. HIDE DEF x
<1>4. notes' \in Seq(NoteRow) /\ Len(notes') = Len(notes)
  BY <1>1, <1>2, <1>3, ExceptFacts
<1>5. Len(notes) \in Nat
  BY <1>1
<1>6. AskedOK'
  BY <1>1, <1>4, <1>5, AskedStays
<1>. QED  BY <1>1, <1>4, <1>6, PastIsGrounded DEF ReplyInv, InferencesAreGrounded

LEMMA ClassifyKeeps ==
  ASSUME ReplyInv, NEW i, NEW text, Classify(i, text)
  PROVE  ReplyInv'
<1>1. /\ topic = "traits" /\ i \in DOMAIN notes /\ notes[i].state = "open"
      /\ UNCHANGED <<topic, evidence, asked>> /\ AnswerIsPast
  BY ReadFacts DEF Classify, OpenNotes
<1>2. notes \in Seq(Resting) /\ Gone \in Resting
  BY <1>1, RestingNotes
<1>. DEFINE settled == [notes[i] EXCEPT !.state = "settled"]
            words   == [notes[i] EXCEPT !.state = "settled", !.weight = 1]
            without == [notes EXCEPT ![i] = Gone]
            with    == WithTrait(without, words, {})
<1>3. \/ notes' = notes \/ notes' = [notes EXCEPT ![i] = settled] \/ notes' = without
      \/ Room > 0 /\ notes' = with
  <2>1. Verdict(text) \in {"deflect", "confirm", "correct"}
    BY DEF Verdict
  <2>2. CASE Verdict(text) = "deflect"
    BY <2>2 DEF Classify
  <2>3. CASE Verdict(text) = "confirm"
    BY <2>3 DEF Classify
  <2>4. CASE Verdict(text) = "correct"
    BY <2>4 DEF Classify
  <2>. QED  BY <2>1, <2>2, <2>3, <2>4
<1>4. notes[i] \in Resting /\ notes[i] # Gone
  BY <1>1, <1>2 DEF Gone
<1>5. settled \in Resting /\ words \in Resting
  BY <1>4 DEF Resting, NoteRow
<1>6. without \in Seq(Resting) /\ Len(without) = Len(notes)
  BY <1>1, <1>2, ExceptFacts
<1>. HIDE DEF settled, words, without
<1>7. with \in Seq(Resting) /\ Len(with) \in Len(without) .. Len(without) + 1
  BY <1>2, <1>5, <1>6, WithTraitFacts
<1>8. [notes EXCEPT ![i] = settled] \in Seq(Resting) /\ Len([notes EXCEPT ![i] = settled]) = Len(notes)
  BY <1>1, <1>2, <1>5, ExceptFacts
<1>. HIDE DEF with
<1>9. Room \in Nat /\ Len(notes) + Room <= MaxNotes /\ Len(notes) \in Nat /\ MaxNotes \in Nat
  BY RoomFacts, ReplyAssumption
<1>10. notes' \in Seq(Resting) /\ Len(notes) <= Len(notes') /\ Len(notes') <= MaxNotes
  <2>1. CASE notes' = notes
    BY <1>2, <1>9, <2>1 DEF ReplyInv
  <2>2. CASE notes' = [notes EXCEPT ![i] = settled]
    BY <1>8, <1>9, <2>2
  <2>3. CASE notes' = without
    BY <1>6, <1>9, <2>3
  <2>4. CASE Room > 0 /\ notes' = with
    BY <1>6, <1>7, <1>9, <2>4
  <2>. QED  BY <1>3, <2>1, <2>2, <2>3, <2>4
<1>11. notes' \in Seq(NoteRow)
       /\ \A k \in DOMAIN notes' : notes'[k] # Gone => notes'[k].cites # {} /\ notes'[k].cites \subseteq evidence
  BY <1>10, GroundedNotes
<1>12. AskedOK'
  BY <1>1, <1>10, <1>11, AskedStays
<1>. QED  BY <1>1, <1>10, <1>11, <1>12, PastIsGrounded DEF ReplyInv, InferencesAreGrounded

LEMMA EpisodeKeeps ==
  ASSUME ReplyInv, EpisodeAppears
  PROVE  ReplyInv'
<1>. DEFINE x == [Gone EXCEPT !.state = "open"]
<1>1. /\ topic = "episodes" /\ notes \in Seq(NoteRow) /\ Len(notes) < MaxNotes /\ notes' = Append(notes, x)
      /\ UNCHANGED <<topic, evidence, asked>> /\ AnswerIsPast
  BY DEF EpisodeAppears, ReplyInv
<1>2. x \in NoteRow
  BY DEF Gone, NoteRow
<1>. HIDE DEF x
<1>3. notes' \in Seq(NoteRow) /\ Len(notes') = Len(notes) + 1 /\ Len(notes) \in Nat /\ MaxNotes \in Nat
  BY <1>1, <1>2, AppendFacts, ReplyAssumption
<1>4. AskedOK'
  BY <1>1, <1>3, AskedStays
<1>. QED  BY <1>1, <1>3, <1>4, PastIsGrounded DEF ReplyInv, InferencesAreGrounded

LEMMA SalienceKeeps ==
  ASSUME ReplyInv, NEW text \in Scorings, AnswerSalience(text)
  PROVE  ReplyInv' /\ PromotedWereScored
<1>. DEFINE shown  == asked.shown
            count  == Len(shown)
            scores == Scores(text, count)
            chosen == {shown[k] : k \in {l \in DOMAIN scores : scores[l] = 1}}
<1>1. /\ topic = "episodes" /\ notes \in Seq(NoteRow) /\ shown \in Seq(Nat)
      /\ UNCHANGED <<topic, evidence>> /\ asked' = NotAsked /\ observed' = <<>>
  BY DEF AnswerSalience, ReplyInv, AskedOK
<1>2. notes' = [i \in DOMAIN notes |-> IF i \in chosen THEN [notes[i] EXCEPT !.state = "settled"] ELSE notes[i]]
  BY DEF AnswerSalience
<1>3. meant' = {{shown[k + 1]} : k \in {l \in 0..(count - 1) :
                 text.whole /\ [index |-> l, score |-> 1] \in ToSet(text.items)}}
  BY DEF AnswerSalience
<1>. HIDE DEF shown
<1>4. count \in Nat
  BY <1>1
<1>. HIDE DEF count
<1>5. DOMAIN scores = 1 .. count
  BY DEF Scores
<1>. HIDE DEF scores
<1>6. ASSUME NEW k \in 1 .. count, scores[k] = 1 PROVE {shown[k]} \in meant'
  <2>1. text.whole /\ [index |-> k - 1, score |-> 1] \in ToSet(text.items)
    BY <1>4, <1>6, ScoresFacts DEF scores
  <2>. DEFINE l == k - 1
  <2>2. l \in 0 .. (count - 1) /\ k = l + 1
    BY <1>4
  <2>. HIDE DEF l
  <2>3. text.whole /\ [index |-> l, score |-> 1] \in ToSet(text.items)
    BY <2>1 DEF l
  <2>. QED  BY <1>3, <2>2, <2>3
<1>7. \A i \in chosen : {i} \in meant'
  BY <1>5, <1>6
<1>. HIDE DEF chosen
<1>8. notes' \in Seq(NoteRow) /\ Len(notes') = Len(notes)
  <2>1. DOMAIN notes = 1 .. Len(notes) /\ Len(notes) \in Nat /\ \A i \in DOMAIN notes : notes[i] \in NoteRow
    BY <1>1
  <2>2. \A i \in DOMAIN notes : [notes[i] EXCEPT !.state = "settled"] \in NoteRow
    BY <2>1 DEF NoteRow
  <2>3. notes' \in [1 .. Len(notes) -> NoteRow]
    BY <1>2, <2>1, <2>2
  <2>. QED  BY <2>1, <2>3, RowsAreSeq
<1>9. AskedOK'
  BY <1>1, NotAskedOK
<1>10. DOMAIN observed' = {}
  BY <1>1
<1>11. ReplyInv'
  BY <1>1, <1>8, <1>9, <1>10 DEF ReplyInv, InferencesAreGrounded
<1>12. PromotedWereScored
  BY <1>2, <1>7 DEF PromotedWereScored
<1>. QED  BY <1>11, <1>12

LEMMA FailKeeps ==
  ASSUME ReplyInv, AskFails
  PROVE  ReplyInv'
<1>1. AskedOK'
  BY NotAskedOK DEF AskFails
<1>. QED  BY <1>1, NotesStay DEF AskFails, ReplyInv

\* What does not answer a question about duplicates or about salience.
LEMMA Unanswered ==
  ASSUME ReplyInv,
         notes' = notes \/ asked' = asked \/ asked.about = "patterns"
  PROVE  OneOfEachGroupStays /\ PromotedWereScored
<1>1. asked' = asked => ~(asked.about \in {"duplicates", "salience"} /\ asked' = NotAsked)
  BY DEF NotAsked
<1>2. CASE notes' = notes
  BY <1>2 DEF OneOfEachGroupStays, PromotedWereScored
<1>3. CASE asked' = asked
  BY <1>1, <1>3 DEF OneOfEachGroupStays, PromotedWereScored
<1>4. CASE asked.about = "patterns"
  BY <1>4 DEF OneOfEachGroupStays, PromotedWereScored
<1>. QED  BY <1>2, <1>3, <1>4

LEMMA ReplyStep ==
  ReplyInv /\ [ReplyNext]_replyVars =>
    /\ ReplyInv'
    /\ [OneOfEachGroupStays /\ PromotedWereScored /\ InferencesAreGrounded']_replyVars
<1>. SUFFICES ASSUME ReplyInv, [ReplyNext]_replyVars
              PROVE  /\ ReplyInv'
                     /\ (OneOfEachGroupStays /\ PromotedWereScored) \/ UNCHANGED replyVars
  BY DEF ReplyInv
<1>1. ASSUME NEW text \in Commits, Listen(text)
      PROVE  ReplyInv' /\ OneOfEachGroupStays /\ PromotedWereScored
  BY <1>1, ListenKeeps, Unanswered DEF Listen
<1>2. ASSUME NEW e \in Evidence, EvidenceAppears(e)
      PROVE  ReplyInv' /\ OneOfEachGroupStays /\ PromotedWereScored
  BY <1>2, EvidenceKeeps, Unanswered DEF EvidenceAppears
<1>3. CASE AskForPatterns
  BY <1>3, AskPatternsKeeps, Unanswered DEF AskForPatterns
<1>4. ASSUME NEW text \in Patterns, AnswerPatterns(text)
      PROVE  ReplyInv' /\ OneOfEachGroupStays /\ PromotedWereScored
  BY <1>4, PatternsKeep, Unanswered DEF AnswerPatterns
<1>5. ASSUME NEW text \in Placings, AnswerProfile(text)
      PROVE  ReplyInv' /\ OneOfEachGroupStays /\ PromotedWereScored
  BY <1>5, ProfileKeeps, Unanswered DEF AnswerProfile
<1>6. CASE AskForDuplicates
  BY <1>6, AskDuplicatesKeeps, Unanswered DEF AskForDuplicates
<1>7. ASSUME NEW text \in Groupings(0..MaxNotes), AnswerByNumber(text)
      PROVE  ReplyInv' /\ OneOfEachGroupStays /\ PromotedWereScored
  <2>1. PromotedWereScored
    BY <1>7 DEF AnswerByNumber, PromotedWereScored
  <2>. QED  BY <1>7, <2>1, ByNumberKeeps
<1>8. ASSUME NEW text \in Groupings(Words), AnswerByKey(text)
      PROVE  ReplyInv' /\ OneOfEachGroupStays /\ PromotedWereScored
  <2>1. PromotedWereScored
    BY <1>8 DEF AnswerByKey, PromotedWereScored
  <2>. QED  BY <1>8, <2>1, ByKeyKeeps
<1>9. ASSUME NEW i \in 1..MaxNotes, NEW text \in Replying, Resolve(i, text)
      PROVE  ReplyInv' /\ OneOfEachGroupStays /\ PromotedWereScored
  BY <1>9, ResolveKeeps, Unanswered DEF Resolve
<1>10. ASSUME NEW i \in 1..MaxNotes, NEW text \in Replying, Classify(i, text)
       PROVE  ReplyInv' /\ OneOfEachGroupStays /\ PromotedWereScored
  BY <1>10, ClassifyKeeps, Unanswered DEF Classify
<1>11. CASE EpisodeAppears
  BY <1>11, EpisodeKeeps, Unanswered DEF EpisodeAppears
<1>12. CASE AskForSalience
  BY <1>12, AskSalienceKeeps, Unanswered DEF AskForSalience
<1>13. ASSUME NEW text \in Scorings, AnswerSalience(text)
       PROVE  ReplyInv' /\ OneOfEachGroupStays /\ PromotedWereScored
  <2>1. OneOfEachGroupStays
    BY <1>13 DEF AnswerSalience, OneOfEachGroupStays
  <2>. QED  BY <1>13, <2>1, SalienceKeeps
<1>14. CASE AskFails
  BY <1>14, FailKeeps, Unanswered DEF AskFails
<1>15. CASE UNCHANGED replyVars
  BY <1>15 DEF replyVars, ReplyInv, AskedOK, InferencesAreGrounded
<1>. QED  BY <1>1, <1>2, <1>3, <1>4, <1>5, <1>6, <1>7, <1>8, <1>9, <1>10, <1>11, <1>12, <1>13, <1>14, <1>15
          DEF ReplyNext

LEMMA ReplyInvariance == ReplySpec => []ReplyInv
BY ReplyInitially, ReplyStep, PTL DEF ReplySpec

LEMMA ReplyTyped == ReplyInv => ReplyTypeOK
<1>. SUFFICES ASSUME ReplyInv PROVE ReplyTypeOK
  OBVIOUS
<1>1. \A i \in DOMAIN notes : notes[i] \in NoteRow
  BY DEF ReplyInv
<1>2. asked.about \in {"nothing", "patterns", "duplicates", "salience"}
  BY DEF ReplyInv, AskedOK, Abouts
<1>. QED  BY <1>1, <1>2 DEF ReplyInv, ReplyTypeOK, AskedOK, NoteRow

-------------------------------------------------------------------------------
(* The mind.                                                                 *)

\* A behaviour of the mind is one of the memory and one of the replies.
LEMMA MindIsBoth == MindSpec => MemorySpec /\ ReplySpec
<1>1. MindInit => MemoryInit /\ ReplyInit
  BY DEF MindInit
<1>2. [MindNext]_mindVars => [MemoryNext]_memoryVars /\ [ReplyNext]_replyVars
  BY DEF MindNext, mindVars
<1>. QED  BY <1>1, <1>2, PTL DEF MindSpec, MemorySpec, ReplySpec

\* Every variable of the memory and of the replies keeps its type: what is
\* written of an answer has room, what the model was shown are notes, each once,
\* and what it may cite is evidence (ReplyInv).
THEOREM MindTypes == MindSpec => []MindTypeOK
BY MindIsBoth, MemoryTypeCorrect, ReplyInvariance, ReplyTyped, PTL DEF MindTypeOK

\* However the model answers: a merge closes a note only for a better one of its
\* group, which stays (MergeInv), only what was scored is promoted, and what is
\* inferred rests on evidence (ReplyInv).
THEOREM AnswersHonoured == MindSpec => AnswersAreHonoured
BY MindIsBoth, ReplyInvariance, ReplyStep, PTL DEF ReplySpec, AnswersAreHonoured
==============================================================================
