------------------------------ MODULE Episodes -------------------------------
(***************************************************************************)
(* The episodes of one user and the reflection drawn from them: the ends   *)
(* of chats store episodes, the nightly pass promotes what is salient,     *)
(* lets the rest decay and has a reflection written.                       *)
(***************************************************************************)
EXTENDS UserMemory

CONSTANT EpisodeIds

EpisodeRow == [promoted : BOOLEAN, decayed : BOOLEAN]

ASSUME EpisodeAssumption == None \notin EpisodeRow

VARIABLES
  episode,     \* per id: [promoted, decayed], or None
  summarising, \* ends of chats that wait for their summary
  picked,      \* episodes the pass read and is having scored
  reflecting,  \* the pass is having a reflection written
  reflection   \* one is stored

episodeVars == <<episode, summarising, picked, reflecting, reflection>>

Episodes == {i \in EpisodeIds : episode[i] # None}
NewEpisode == [promoted |-> FALSE, decayed |-> FALSE]

EpisodeInit ==
  /\ episode = [i \in EpisodeIds |-> None]
  /\ summarising = {} /\ picked = {}
  /\ reflecting = FALSE /\ reflection = FALSE

\* An end of a chat, module Chats, asks for a summary, and stores it.
Summarise(e) ==
  /\ Known
  /\ e \notin summarising
  /\ summarising' = summarising \cup {e}
  /\ UNCHANGED <<episode, picked, reflecting, reflection, eraseVars>>

InsertEpisode(e) ==
  /\ e \in summarising
  /\ Stores
  /\ \E i \in EpisodeIds \ (Episodes \cup picked) : episode' = [episode EXCEPT ![i] = NewEpisode]
  /\ summarising' = summarising \ {e}
  /\ UNCHANGED <<picked, reflecting, reflection>>

NothingToInsert(e) ==
  /\ e \in summarising
  /\ summarising' = summarising \ {e}
  /\ UNCHANGED <<episode, picked, reflecting, reflection, eraseVars>>

-------------------------------------------------------------------------------
(* The nightly pass: PROMOTE and DECAY.                                     *)

Fresh(i) == ~episode[i].promoted /\ ~episode[i].decayed

\* Episodes of the last promote_window_days are sent to be scored.
PickRecent ==
  /\ picked = {}
  /\ \E recent \in SUBSET {i \in Episodes : Fresh(i)} \ {{}} : picked' = recent
  /\ UNCHANGED <<episode, summarising, reflecting, reflection, eraseVars>>

\* Scored above promote_threshold, or not; the update is by id.
Promote(i) ==
  /\ i \in picked
  /\ picked' = picked \ {i}
  /\ episode' \in {episode,
                   IF episode[i] = None THEN episode
                   ELSE [episode EXCEPT ![i].promoted = TRUE]}
  /\ UNCHANGED <<summarising, reflecting, reflection, eraseVars>>

\* The scores could not be had, or an update failed.
PromoteFails ==
  /\ picked # {}
  /\ picked' = {}
  /\ UNCHANGED <<episode, summarising, reflecting, reflection, eraseVars>>

\* Mutant: what was promoted decays with the rest.
FadingAll == {i \in Episodes \ picked : ~episode[i].decayed}

\* What may be older than decay_after_days: nothing that a pass has picked, as
\* none lasts from promote_window_days to there.
Fading == {i \in Episodes \ picked : Fresh(i)}

\* One statement, over all that are too old.
Decay ==
  /\ \E old \in (SUBSET Fading) \ {{}} :
       episode' = [i \in EpisodeIds |->
         IF i \in old THEN [episode[i] EXCEPT !.decayed = TRUE] ELSE episode[i]]
  /\ UNCHANGED <<summarising, picked, reflecting, reflection, eraseVars>>

-------------------------------------------------------------------------------
(* REFLECT, which reads promoted episodes and the graph and shares no other *)
(* row with the chats.                                                      *)

\* Something is known of the user, be it in the graph only.
BeginReflection ==
  /\ erasure # "done" /\ ~reflecting
  /\ reflecting' = TRUE
  /\ UNCHANGED <<episode, summarising, picked, reflection, eraseVars>>

\* Replaces the one of the same day; the newest is the one that is read.
SaveReflection ==
  /\ reflecting
  /\ Stores
  /\ reflecting' = FALSE /\ reflection' = TRUE
  /\ UNCHANGED <<episode, summarising, picked>>

\* The model wrote nothing, or failed.
DropReflection ==
  /\ reflecting
  /\ reflecting' = FALSE
  /\ UNCHANGED <<episode, summarising, picked, reflection, eraseVars>>

-------------------------------------------------------------------------------
(* The erasure.                                                             *)

\* PgRedisMemory.delete, in one go as far as these rows go; then the graph.
EraseEpisodes ==
  /\ BaseErased
  /\ episode' = [i \in EpisodeIds |-> None]
  /\ reflection' = FALSE
  /\ UNCHANGED <<summarising, picked, reflecting>>

EraseGraphOnly == GraphErased /\ UNCHANGED episodeVars

EpisodeNext ==
  \/ \E e \in Extractions : Summarise(e) \/ InsertEpisode(e) \/ NothingToInsert(e)
  \/ PickRecent \/ \E i \in EpisodeIds : Promote(i)
  \/ PromoteFails \/ Decay
  \/ BeginReflection \/ SaveReflection \/ DropReflection
  \/ EraseEpisodes \/ EraseGraphOnly

EpisodeSpec == EpisodeInit /\ ErasureInit /\ [][EpisodeNext]_<<episodeVars, eraseVars>>

-------------------------------------------------------------------------------
(* Properties.                                                              *)

EpisodeTypeOK ==
  /\ episode \in [EpisodeIds -> EpisodeRow \cup {None}]
  /\ summarising \subseteq Extractions /\ picked \subseteq EpisodeIds
  /\ reflecting \in BOOLEAN /\ reflection \in BOOLEAN

\* What was promoted never decays.
PromotedStays == \A i \in Episodes : episode[i].promoted => ~episode[i].decayed

\* An erasure leaves neither episode nor reflection, but what an end of a chat
\* or a nightly pass already under way stores after it.
EpisodesErased == erasure = "done" /\ ~straggler => Episodes = {} /\ ~reflection
==============================================================================
