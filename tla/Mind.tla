--------------------------------- MODULE Mind ---------------------------------
(***************************************************************************)
(* What the brain keeps of one user (Memory) and how it takes what the     *)
(* language model says of it (Replies).                                    *)
(*                                                                         *)
(* Memory lets the model say anything a parser lets through, at any time;  *)
(* Replies follows an answer through its parser to the notes it concerns.  *)
(* They share no variable, so a behaviour of one, here `side`, shows what  *)
(* it can do.                                                              *)
(***************************************************************************)
EXTENDS Memory, Replies

VARIABLE side

mindVars == <<memoryVars, replyVars, side>>

\* What is not followed begins in one way.
MindInit ==
  /\ MemoryInit /\ ReplyInit
  /\ \/ side = "memory" /\ topic = "commitments"
     \/ side = "replies" /\ focus = "facts"

MindNext ==
  \/ side = "memory" /\ MemoryNext /\ UNCHANGED <<replyVars, side>>
  \/ side = "replies" /\ ReplyNext /\ UNCHANGED <<memoryVars, side>>

MindSpec == MindInit /\ [][MindNext]_mindVars

MindTypeOK == MemoryTypeOK /\ ReplyTypeOK
===============================================================================
