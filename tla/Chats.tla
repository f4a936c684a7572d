------------------------------- MODULE Chats ---------------------------------
(***************************************************************************)
(* What was said to the brain, from the buffer of a chat (Redis, with a    *)
(* time to live) to its summary (an episode, in Postgres): a turn is       *)
(* buffered; the end of the chat has the buffer summarised, stores the     *)
(* summary, clears the buffer and leaves a background task to extract      *)
(* facts.  What then becomes of an episode is in module Episodes.          *)
(*                                                                         *)
(* The end of a chat takes as long as a model call, the erasure two steps  *)
(* in Redis; turns of the user arrive at any time.                         *)
(***************************************************************************)
EXTENDS UserMemory

CONSTANTS
  Chats,       \* session ids the clients use
  Messages     \* what the user may say, each once

ASSUME ChatAssumption == None \notin Chats

VARIABLES
  said,       \* history: messages the user has sent
  buffer,     \* per chat: the messages in its working buffer
  replies,    \* chats whose buffer holds a reply
  answering,  \* chats a reply is being streamed to
  index,      \* the user's set of chats that have a buffer
  ending,     \* per extraction: the end_session call it belongs to
  summaries,  \* the episodes stored: of each, the messages it is about
  swept,      \* erasure: the chats it found in the index, or NotSwept
  tasked,     \* history: messages whose extraction task is over, or died
  missed      \* history: sent too late, expired, or not worth a summary

bufferVars == <<said, buffer, replies, answering, index>>
fateVars   == <<tasked, missed>>
chatVars   == <<bufferVars, ending, summaries, swept, fateVars>>

NotEnding == [at |-> "idle", chat |-> None, copy |-> {}]
NotSwept  == Chats \cup {None}

Working   == {c \in Chats : buffer[c] # {} \/ c \in replies}
Told      == UNION summaries
Buffered  == UNION {buffer[c] : c \in Chats}
ReadBy(c) == {e \in Extractions : ending[e].at \in {"read", "kept"} /\ ending[e].chat = c}
InHand    == UNION {ending[e].copy : e \in {x \in Extractions : ending[x].at \in {"kept", "extracting"}}}

ChatInit ==
  /\ said = {} /\ replies = {} /\ answering = {} /\ index = {}
  /\ buffer = [c \in Chats |-> {}]
  /\ ending = [e \in Extractions |-> NotEnding]
  /\ summaries = {}
  /\ swept = NotSwept
  /\ tasked = {} /\ missed = {}

\* A turn enters a buffer, perhaps after the erasure has looked for buffers.
StoresTurn == straggler' = (straggler \/ ~Known \/ swept # NotSwept) /\ UNCHANGED erasure

-------------------------------------------------------------------------------
(* Companion.respond: the message is buffered first, the reply when it has  *)
(* been streamed to the end.                                                *)

\* Mutant: the index is not told of the chat.
RespondUnindexed(c, m) ==
  /\ Known /\ m \notin said
  /\ StoresTurn
  /\ said' = said \cup {m}
  /\ buffer' = [buffer EXCEPT ![c] = @ \cup {m}]
  /\ answering' = answering \cup {c}
  /\ missed' = IF ReadBy(c) = {} THEN missed ELSE missed \cup {m}
  /\ UNCHANGED <<replies, index, ending, summaries, swept, tasked>>

Respond(c, m) ==
  /\ Known /\ m \notin said
  /\ StoresTurn
  /\ said' = said \cup {m}
  /\ buffer' = [buffer EXCEPT ![c] = @ \cup {m}]
  /\ index' = index \cup {c}
  /\ answering' = answering \cup {c}
  /\ missed' = IF ReadBy(c) = {} THEN missed ELSE missed \cup {m}
  /\ UNCHANGED <<replies, ending, summaries, swept, tasked>>

\* The buffer may have been summarised and cleared under the reply.
Reply(c) ==
  /\ c \in answering
  /\ StoresTurn
  /\ answering' = answering \ {c}
  /\ replies' = replies \cup {c}
  /\ index' = index \cup {c}
  /\ UNCHANGED <<said, buffer, ending, summaries, swept, fateVars>>

\* The model failed or the client left: no reply is buffered.
ReplyDrops(c) ==
  /\ c \in answering
  /\ answering' = answering \ {c}
  /\ UNCHANGED <<said, buffer, replies, index, ending, summaries, swept, fateVars, eraseVars>>

\* No turn for working_buffer_ttl: Redis drops the buffer, not its index entry.
BufferExpires(c) ==
  /\ c \in Working /\ c \notin answering
  /\ buffer' = [buffer EXCEPT ![c] = {}]
  /\ replies' = replies \ {c}
  /\ missed' = missed \cup buffer[c]
  /\ UNCHANGED <<said, answering, index, ending, summaries, swept, tasked, eraseVars>>

-------------------------------------------------------------------------------
(* Companion.end_session, and the extraction it leaves behind.              *)

\* Reads the buffer; an empty one has nothing to end.
EndBegins(e, c) ==
  /\ Known
  /\ ending[e] = NotEnding
  /\ c \in Working
  /\ ending' = [ending EXCEPT ![e] = [at |-> "read", chat |-> c, copy |-> buffer[c]]]
  /\ UNCHANGED <<bufferVars, summaries, swept, fateVars, eraseVars>>

\* The summary is stored, another one of the same turns when ends overlap.
StoreSummary(e) ==
  /\ ending[e].at = "read"
  /\ Stores
  /\ summaries' = summaries \cup {ending[e].copy}
  /\ ending' = [ending EXCEPT ![e].at = "kept"]
  /\ UNCHANGED <<bufferVars, swept, fateVars>>

\* The model wrote nothing: the turns are cleared without an episode.
SummaryBlank(e) ==
  /\ ending[e].at = "read"
  /\ ending' = [ending EXCEPT ![e].at = "kept"]
  /\ missed' = missed \cup ending[e].copy
  /\ UNCHANGED <<bufferVars, summaries, swept, tasked, eraseVars>>

\* A call fails or the process dies before the buffer is cleared.
EndFails(e) ==
  /\ ending[e].at \in {"read", "kept"}
  /\ ending' = [ending EXCEPT ![e] = NotEnding]
  /\ UNCHANGED <<bufferVars, summaries, swept, fateVars, eraseVars>>

\* Mutant: the buffer is cleared before the summary is stored.
InvalidateFirst(e) ==
  /\ ending[e].at \in {"read", "kept"}
  /\ buffer' = [buffer EXCEPT ![ending[e].chat] = {}]
  /\ replies' = replies \ {ending[e].chat}
  /\ index' = index \ {ending[e].chat}
  /\ ending' = [ending EXCEPT ![e].at = IF @ = "read" THEN "read" ELSE "extracting"]
  /\ UNCHANGED <<said, answering, summaries, swept, fateVars, eraseVars>>

\* Mutant: the task is given the buffer as it is after it was cleared.
InvalidateThenCopy(e) ==
  /\ ending[e].at = "kept"
  /\ buffer' = [buffer EXCEPT ![ending[e].chat] = {}]
  /\ replies' = replies \ {ending[e].chat}
  /\ index' = index \ {ending[e].chat}
  /\ ending' = [ending EXCEPT ![e].at = "extracting", ![e].copy = {}]
  /\ UNCHANGED <<said, answering, summaries, swept, fateVars, eraseVars>>

\* Buffer and index entry go in one transaction; the task runs on the copy.
Invalidate(e) ==
  /\ ending[e].at = "kept"
  /\ buffer' = [buffer EXCEPT ![ending[e].chat] = {}]
  /\ replies' = replies \ {ending[e].chat}
  /\ index' = index \ {ending[e].chat}
  /\ ending' = [ending EXCEPT ![e].at = "extracting"]
  /\ UNCHANGED <<said, answering, summaries, swept, fateVars, eraseVars>>

\* Done, or the model failed or the process died: nothing repeats the task.
ExtractionOver(e) ==
  /\ ending[e].at = "extracting"
  /\ ending' = [ending EXCEPT ![e] = NotEnding]
  /\ tasked' = tasked \cup ending[e].copy
  /\ UNCHANGED <<bufferVars, summaries, swept, missed, eraseVars>>

-------------------------------------------------------------------------------
(* PgRedisMemory.delete: the index is read, the buffers it names and the    *)
(* index itself go, then the rows in Postgres; the graph follows.           *)

Sweep ==
  /\ swept = NotSwept
  /\ swept' = index
  /\ UNCHANGED <<bufferVars, ending, summaries, fateVars, eraseVars>>

SweepFails ==
  /\ swept # NotSwept
  /\ swept' = NotSwept
  /\ UNCHANGED <<bufferVars, ending, summaries, fateVars, eraseVars>>

\* Mutant: the rows of Postgres are left to the nightly decay.
EraseBuffersOnly ==
  /\ swept # NotSwept
  /\ BaseErased
  /\ buffer' = [c \in Chats |-> IF c \in swept THEN {} ELSE buffer[c]]
  /\ replies' = replies \ swept
  /\ index' = {}
  /\ swept' = NotSwept
  /\ UNCHANGED <<said, answering, ending, summaries, fateVars>>

EraseChats ==
  /\ swept # NotSwept
  /\ BaseErased
  /\ buffer' = [c \in Chats |-> IF c \in swept THEN {} ELSE buffer[c]]
  /\ replies' = replies \ swept
  /\ index' = {}
  /\ summaries' = {}
  /\ swept' = NotSwept
  /\ UNCHANGED <<said, answering, ending, fateVars>>

EraseGraphOfChats == GraphErased /\ UNCHANGED chatVars

ChatNext ==
  \/ \E c \in Chats :
       \/ Reply(c) \/ ReplyDrops(c) \/ BufferExpires(c)
       \/ \E m \in Messages : Respond(c, m)
       \/ \E e \in Extractions : EndBegins(e, c)
  \/ \E e \in Extractions :
       \/ StoreSummary(e) \/ SummaryBlank(e) \/ EndFails(e) \/ Invalidate(e) \/ ExtractionOver(e)
  \/ Sweep \/ SweepFails \/ EraseChats \/ EraseGraphOfChats

ChatSpec == ChatInit /\ ErasureInit /\ [][ChatNext]_<<chatVars, eraseVars>>

-------------------------------------------------------------------------------
(* Properties.                                                              *)

Ends     == [at : {"idle", "read", "kept", "extracting"}, chat : Chats \cup {None},
             copy : SUBSET Messages]

ChatTypeOK ==
  /\ said \subseteq Messages /\ buffer \in [Chats -> SUBSET Messages]
  /\ replies \subseteq Chats /\ answering \subseteq Chats /\ index \subseteq Chats
  /\ ending \in [Extractions -> Ends]
  /\ summaries \subseteq SUBSET Messages
  /\ swept \in (SUBSET Chats) \cup {NotSwept}
  /\ tasked \subseteq Messages /\ missed \subseteq Messages

\* What the user said is in a buffer or in a stored episode, whenever ends,
\* expiries and failures come.  The exceptions: it was sent while its chat was
\* being ended, the chat lay idle for too long, the model found nothing in it.
SaidIsKept == Known => said \subseteq Buffered \cup Told \cup missed

\* And what reached an episode reaches a task that extracts facts, on the copy its
\* end made; only a buffer that expires after a failed end loses it.
ToldIsTasked == Known => Told \subseteq tasked \cup InHand \cup Buffered \cup missed

EveryTurnKept == SaidIsKept /\ ToldIsTasked

\* The erasure finds every buffer, as every buffer is in the index; a turn that
\* came between the look at the index and its deletion, or a reply or a summary
\* still under way, may stay.
ChatsErased ==
  /\ ~straggler => Working \subseteq index
  /\ erasure = "done" /\ ~straggler => Working = {} /\ summaries = {}
==============================================================================
