------------------------------- MODULE Memory --------------------------------
(***************************************************************************)
(* The brain's memory of one user: chats and episodes, facts, commitments, *)
(* and the profile the user may correct.                                   *)
(*                                                                         *)
(* No statement reads rows of one kind to change rows of another, and      *)
(* every process works on the kinds one after the other, at times the      *)
(* modules leave open.  So a behaviour of the memory is an interleaving of *)
(* several that share only the user's erasure, and one that follows a      *)
(* single kind, here `focus`, shows all that can happen to that kind.      *)
(***************************************************************************)
EXTENDS Facts, Commitments, Profile, Chats, Episodes

VARIABLE focus

memoryVars == <<factVars, commitmentVars, profileVars, episodeVars, chatVars,
                eraseVars, focus>>

MemoryInit ==
  /\ focus \in {"facts", "commitments", "profile", "episodes", "chats"}
  /\ FactInit /\ CommitmentInit /\ ProfileInit /\ EpisodeInit /\ ChatInit /\ ErasureInit

MemoryNext ==
  /\ UNCHANGED focus
  /\ \/ /\ focus = "facts" /\ FactNext
        /\ UNCHANGED <<commitmentVars, profileVars, episodeVars, chatVars>>
     \/ /\ focus = "commitments" /\ CommitmentNext
        /\ UNCHANGED <<factVars, profileVars, episodeVars, chatVars>>
     \/ /\ focus = "profile" /\ ProfileNext
        /\ UNCHANGED <<factVars, commitmentVars, episodeVars, chatVars>>
     \/ /\ focus = "episodes" /\ EpisodeNext
        /\ UNCHANGED <<factVars, commitmentVars, profileVars, chatVars>>
     \/ /\ focus = "chats" /\ ChatNext
        /\ UNCHANGED <<factVars, commitmentVars, profileVars, episodeVars>>

MemorySpec == MemoryInit /\ [][MemoryNext]_memoryVars

-------------------------------------------------------------------------------
(* Properties that concern every kind.                                      *)

MemoryTypeOK ==
  FactTypeOK /\ CommitmentTypeOK /\ ProfileTypeOK /\ EpisodeTypeOK /\ ChatTypeOK /\ ErasureTypeOK

\* What is known is not forgotten, and a key has one current fact and one open
\* commitment, unless writes failed half-way or overlapped.
KnownOncePerKey == KnownStaysKnown /\ OneCurrentFact /\ OneOpenCommitment

\* What the user said is kept in a buffer or a summary, reaches the extraction,
\* and stays for good once it was promoted.
RememberedStays == EveryTurnKept /\ PromotedStays

\* Memory.delete leaves nothing of the user in any store; only what was under
\* way when it began may write there again.
ErasureIsComplete ==
  FactsErased /\ CommitmentsErased /\ ProfileErased /\ EpisodesErased /\ ChatsErased

\* What the interface of Memory.delete promises without that exception.
ErasedIsEmpty ==
  erasure = "done" => Current = {} /\ Stored = {} /\ CurrentTraits = {} /\ dimension = None
                       /\ Working = {} /\ summaries = {}
                       /\ Episodes = {} /\ ~reflection
==============================================================================
