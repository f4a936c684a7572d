------------------------------ MODULE Profile --------------------------------
(***************************************************************************)
(* What the brain infers about one user and what the user says to it: the  *)
(* traits of one key (memory graph) and one dimension of the living        *)
(* profile (Postgres).  The nightly pass detects, merges, prunes and       *)
(* accumulates; a session asks one gentle question, about a trait or the   *)
(* dimension, and the answer confirms or corrects it.                      *)
(*                                                                         *)
(* As in Facts, a closed trait is forgotten.  Confidence, evidence and     *)
(* recency only decide what may be asked, pruned or switched: a choice.    *)
(***************************************************************************)
EXTENDS UserMemory, Integers

CONSTANTS
  TraitIds,
  Sessions,  \* the clients the user talks through
  Pass,      \* the nightly pass
  Cooldown   \* reflect_back_cooldown_sessions

VARIABLES
  trait,      \* per id: [says, status] of the current trait, or None
  dimension,  \* [value, status], or None
  pen,        \* per writer (pass or session): where it is in write_traits
  snapshot,   \* profile_pass: what it read before it asked the model, or NotRead
  question,   \* per session: the gentle question it is about
  fired,      \* sessions that have had their question
  remaining,  \* reflect_back_cooldown: sessions still to skip
  since,      \* history: sessions ended since the last question, up to Cooldown
  overtaken   \* history: sessions that were preparing one when another asked

profileVars ==
  <<trait, dimension, pen, snapshot, question, fired, remaining, since, overtaken>>

Writers     == Sessions \cup {Pass}
Trait       == [says : Contents, status : {"inferred", "confirmed"}]
NotRead     == [value |-> None, status |-> "not_read"]
PenDown     == [at |-> "idle", id |-> None, new |-> None]
NotAsking  == [at |-> "none", about |-> None]
TheDimension == "dimension"

ASSUME ProfileAssumption ==
  Cooldown \in Nat /\ Pass \notin Sessions /\ None \notin TraitIds /\ TheDimension \notin TraitIds

CurrentTraits == {t \in TraitIds : trait[t] # None}
Inferred      == {t \in CurrentTraits : trait[t].status = "inferred"}
HeldTraits    == {pen[w].id : w \in Writers} \cup {question[s].about : s \in Sessions}
FreeTraits    == TraitIds \ (CurrentTraits \cup HeldTraits)

ProfileInit ==
  /\ trait = [t \in TraitIds |-> None]
  /\ dimension = None
  /\ pen = [w \in Writers |-> PenDown]
  /\ snapshot = NotRead
  /\ question = [s \in Sessions |-> NotAsking]
  /\ fired = {}
  /\ remaining = 0
  /\ since = Cooldown /\ overtaken = {}

questionVars == <<question, fired, remaining, since, overtaken>>

PassIdle == pen[Pass] = PenDown /\ snapshot = NotRead

-------------------------------------------------------------------------------
(* Traits: GraphMemory.write_traits, by the pass and by a correction.       *)

\* DETECT: evidence read, the model named a trait of this key.
Detect(c) ==
  /\ erasure # "done" /\ PassIdle
  /\ pen' = [pen EXCEPT ![Pass] = [at |-> "find", id |-> None,
                                   new |-> [says |-> c, status |-> "inferred"]]]
  /\ UNCHANGED <<trait, dimension, snapshot, questionVars, eraseVars>>

\* Mutant: a confirmed trait is superseded like any other.
Supersedes(w, t) == trait[t].says # pen[w].new.says

\* A confirmed trait is authoritative; a similar one is the same pattern.
Replaces(w, t) == trait[t].status # "confirmed" /\ trait[t].says # pen[w].new.says

FindTrait(w) ==
  /\ pen[w].at = "find"
  /\ \/ CurrentTraits = {} /\ pen' = [pen EXCEPT ![w].at = "inserting"]
     \/ \E t \in CurrentTraits :
          pen' = [pen EXCEPT ![w] =
            IF Replaces(w, t) THEN [@ EXCEPT !.at = "closing", !.id = t] ELSE PenDown]
  /\ UNCHANGED <<trait, dimension, snapshot, questionVars, eraseVars>>

\* close_node looks at no status.
CloseTrait(w) ==
  /\ pen[w].at \in {"closing", "merging"}
  /\ trait' = [trait EXCEPT ![pen[w].id] = None]
  /\ pen' = [pen EXCEPT ![w] =
       IF @.at = "closing" THEN [@ EXCEPT !.at = "inserting", !.id = None] ELSE PenDown]
  /\ UNCHANGED <<dimension, snapshot, questionVars, eraseVars>>

InsertTrait(w) ==
  /\ pen[w].at = "inserting"
  /\ Stores
  /\ \E t \in FreeTraits : trait' = [trait EXCEPT ![t] = pen[w].new]
  /\ pen' = [pen EXCEPT ![w] = PenDown]
  /\ UNCHANGED <<dimension, snapshot, questionVars>>

\* A statement fails; write_traits logs it and gives up.
PenDrops(w) ==
  /\ pen[w] # PenDown
  /\ pen' = [pen EXCEPT ![w] = PenDown]
  /\ UNCHANGED <<trait, dimension, snapshot, questionVars, eraseVars>>

\* CONSOLIDATE: an inferred trait is found to repeat one of another key.
Consolidate ==
  /\ PassIdle
  /\ \E t \in Inferred : pen' = [pen EXCEPT ![Pass] = [at |-> "merging", id |-> t, new |-> None]]
  /\ UNCHANGED <<trait, dimension, snapshot, questionVars, eraseVars>>

\* Mutant: whatever was not seen for long is closed, confirmed or not.
PruneAll ==
  /\ PassIdle
  /\ \E stale \in (SUBSET CurrentTraits) \ {{}} :
       trait' = [t \in TraitIds |-> IF t \in stale THEN None ELSE trait[t]]
  /\ UNCHANGED <<dimension, pen, snapshot, questionVars, eraseVars>>

\* PRUNE: one statement closes the inferred traits not seen for long.
Prune ==
  /\ PassIdle
  /\ \E stale \in (SUBSET Inferred) \ {{}} :
       trait' = [t \in TraitIds |-> IF t \in stale THEN None ELSE trait[t]]
  /\ UNCHANGED <<dimension, pen, snapshot, questionVars, eraseVars>>

-------------------------------------------------------------------------------
(* The dimension: profile_pass reads, asks the model and puts a whole row.  *)

ReadDimensions ==
  /\ erasure # "done" /\ PassIdle
  /\ snapshot' = IF dimension = None THEN [value |-> None, status |-> "absent"] ELSE dimension
  /\ UNCHANGED <<trait, dimension, pen, questionVars, eraseVars>>

\* Mutant: the observation is folded into a confirmed dimension too.
MergedAnyway(old, value) ==
  IF old.status = "absent" THEN {[value |-> value, status |-> "unconfirmed"]}
  ELSE {old, [old EXCEPT !.value = value]}

\* apply_observation, or corroboration only when the user has confirmed: what
\* the row may become.  A competing value wins when it is more confident.
Merged(old, value) ==
  CASE old.status = "absent"      -> {[value |-> value, status |-> "unconfirmed"]}
    [] old.status = "unconfirmed" -> {old, [old EXCEPT !.value = value]}
    [] OTHER                      -> {old}

PutDimension(value) ==
  /\ snapshot.status \notin {"not_read", "corrected"}
  /\ Stores
  /\ dimension' \in Merged(snapshot, value)
  /\ snapshot' = NotRead
  /\ UNCHANGED <<trait, pen, questionVars>>

\* Nothing observed, a corrected dimension, or a failure.
LeaveDimension ==
  /\ snapshot # NotRead
  /\ snapshot' = NotRead
  /\ UNCHANGED <<trait, dimension, pen, questionVars, eraseVars>>

-------------------------------------------------------------------------------
(* The gentle question of a session, and its answer.                        *)

\* Enough turns, none asked in this session, the cooldown over: an inferred
\* trait, or else an unconfirmed dimension.  Its wording is then the model's.
PrepareQuestion(s) ==
  /\ question[s] = NotAsking /\ s \notin fired /\ pen[s] = PenDown
  /\ remaining = 0
  /\ \E about \in Inferred \cup
         (IF dimension # None /\ dimension.status = "unconfirmed" THEN {TheDimension} ELSE {}) :
       question' = [question EXCEPT ![s] = [at |-> "asking", about |-> about]]
  /\ UNCHANGED <<trait, dimension, pen, snapshot, fired, remaining, since, overtaken, eraseVars>>

\* The model said nothing, or failed.
DropQuestion(s) ==
  /\ question[s].at = "asking"
  /\ question' = [question EXCEPT ![s] = NotAsking]
  /\ overtaken' = overtaken \ {s}
  /\ UNCHANGED <<trait, dimension, pen, snapshot, fired, remaining, since, eraseVars>>

AskQuestion(s) ==
  /\ question[s].at = "asking"
  /\ Stores
  /\ question' = [question EXCEPT ![s].at = "asked"]
  /\ fired' = fired \cup {s}
  /\ remaining' = Cooldown
  /\ since' = 0
  /\ overtaken' = (overtaken \ {s}) \cup {o \in Sessions \ {s} : question[o].at = "asking"}
  /\ UNCHANGED <<trait, dimension, pen, snapshot>>

\* The cooldown could not be stored: the turn fails before the reply is written,
\* and the next message is taken for the answer to what was never asked.
AskInterrupted(s) ==
  /\ question[s].at = "asking"
  /\ question' = [question EXCEPT ![s].at = "asked"]
  /\ fired' = fired \cup {s}
  /\ overtaken' = overtaken \ {s}
  /\ UNCHANGED <<trait, dimension, pen, snapshot, remaining, since, eraseVars>>

QuestionOver(s) == question' = [question EXCEPT ![s] = NotAsking]

\* confirm_trait and confirm_dimension update what is there, by id.
Confirm(s) ==
  /\ question[s].at = "asked"
  /\ QuestionOver(s)
  /\ LET about == question[s].about
     IN  IF about = TheDimension
         THEN /\ dimension' = IF dimension = None THEN None
                              ELSE [dimension EXCEPT !.status = "confirmed"]
              /\ UNCHANGED trait
         ELSE /\ trait' = IF trait[about] = None THEN trait
                          ELSE [trait EXCEPT ![about] = [@ EXCEPT !.status = "confirmed"]]
              /\ UNCHANGED dimension
  /\ UNCHANGED <<pen, snapshot, fired, remaining, since, overtaken, eraseVars>>

CorrectDimension(s) ==
  /\ question[s] = [at |-> "asked", about |-> TheDimension]
  /\ QuestionOver(s)
  /\ dimension' = IF dimension = None THEN None
                  ELSE [dimension EXCEPT !.status = "corrected"]
  /\ UNCHANGED <<trait, pen, snapshot, fired, remaining, since, overtaken, eraseVars>>

\* correct_trait closes it (a failure is only logged); the user's own words
\* become a confirmed trait of the key, unless there are none or the old node
\* is erased.
CorrectTrait(s, words) ==
  /\ question[s].at = "asked" /\ question[s].about \in TraitIds
  /\ QuestionOver(s)
  /\ trait' \in {trait, [trait EXCEPT ![question[s].about] = None]}
  /\ pen' = IF words = None \/ erasure = "done" THEN pen
            ELSE [pen EXCEPT ![s] = [at |-> "find", id |-> None,
                                     new |-> [says |-> words, status |-> "confirmed"]]]
  /\ UNCHANGED <<dimension, snapshot, fired, remaining, since, overtaken, eraseVars>>

\* The user deflects, or the answer could not be classified.
Deflect(s) ==
  /\ question[s].at = "asked"
  /\ QuestionOver(s)
  /\ UNCHANGED <<trait, dimension, pen, snapshot, fired, remaining, since, overtaken, eraseVars>>

\* Mutant: the session that asked counts towards its own cooldown.
EndCountingAll(s) ==
  /\ question[s].at # "asking" /\ pen[s] = PenDown
  /\ QuestionOver(s)
  /\ fired' = fired \ {s}
  /\ remaining' = IF remaining > 0 THEN remaining - 1 ELSE 0
  /\ since' = IF s \in fired \/ since = Cooldown THEN since ELSE since + 1
  /\ UNCHANGED <<trait, dimension, pen, snapshot, overtaken, eraseVars>>

\* Mutant: the cooldown is decremented below zero.
EndWithoutFloor(s) ==
  /\ question[s].at # "asking" /\ pen[s] = PenDown
  /\ QuestionOver(s)
  /\ fired' = fired \ {s}
  /\ remaining' = IF s \notin fired THEN remaining - 1 ELSE remaining
  /\ since' = IF s \in fired \/ since = Cooldown THEN since ELSE since + 1
  /\ UNCHANGED <<trait, dimension, pen, snapshot, overtaken, eraseVars>>

\* A session ends and the client's next one begins; one that asked does not
\* count towards the cooldown.
EndSession(s) ==
  /\ question[s].at # "asking" /\ pen[s] = PenDown
  /\ QuestionOver(s)
  /\ fired' = fired \ {s}
  /\ remaining' = IF s \notin fired /\ remaining > 0 THEN remaining - 1 ELSE remaining
  /\ since' = IF s \in fired \/ since = Cooldown THEN since ELSE since + 1
  /\ UNCHANGED <<trait, dimension, pen, snapshot, overtaken, eraseVars>>

-------------------------------------------------------------------------------

EraseDimension ==
  /\ BaseErased
  /\ dimension' = None
  /\ remaining' = 0
  /\ since' = Cooldown
  /\ UNCHANGED <<trait, pen, snapshot, question, fired, overtaken>>

EraseTraits ==
  /\ GraphErased
  /\ trait' = [t \in TraitIds |-> None]
  /\ UNCHANGED <<dimension, pen, snapshot, questionVars>>

ProfileNext ==
  \/ \E c \in Contents : Detect(c) \/ PutDimension(c)
  \/ \E w \in Writers : FindTrait(w) \/ CloseTrait(w) \/ InsertTrait(w) \/ PenDrops(w)
  \/ Consolidate \/ Prune \/ ReadDimensions \/ LeaveDimension
  \/ \E s \in Sessions :
       \/ PrepareQuestion(s) \/ DropQuestion(s) \/ AskQuestion(s) \/ AskInterrupted(s)
       \/ Confirm(s) \/ CorrectDimension(s) \/ Deflect(s) \/ EndSession(s)
       \/ \E words \in Contents \cup {None} : CorrectTrait(s, words)
  \/ EraseDimension \/ EraseTraits

ProfileSpec ==
  ProfileInit /\ ErasureInit /\ [][ProfileNext]_<<profileVars, eraseVars>>

-------------------------------------------------------------------------------
(* Properties.                                                              *)

DimensionRows ==
  [value : Contents, status : {"unconfirmed", "confirmed", "corrected"}]

ProfileTypeOK ==
  /\ trait \in [TraitIds -> Trait \cup {None}]
  /\ dimension \in DimensionRows \cup {None}
  /\ pen \in [Writers -> [at : {"idle", "find", "closing", "merging", "inserting"},
                          id : TraitIds \cup {None}, new : Trait \cup {None}]]
  /\ snapshot \in DimensionRows \cup {NotRead, [value |-> None, status |-> "absent"]}
  /\ question \in [Sessions -> [at : {"none", "asking", "asked"},
                                about : TraitIds \cup {TheDimension, None}]]
  /\ fired \subseteq Sessions /\ overtaken \subseteq Sessions
  /\ remaining \in 0..Cooldown /\ since \in 0..Cooldown

Answered(x)   == \E s \in Sessions : /\ question[s] = [at |-> "asked", about |-> x]
                                     /\ question'[s] = NotAsking
Settled       == dimension # None /\ dimension.status \in {"confirmed", "corrected"}

\* A settled dimension keeps its row, unless answered about or erased.
DimensionStands ==
  Settled /\ snapshot \in {NotRead, dimension} =>
    \/ dimension' = dimension
    \/ Answered(TheDimension) /\ dimension'.value = dimension.value
    \/ dimension' = None /\ erasure' # "none"

\* So does a confirmed trait, and no writer sets out to close it.
TraitStands ==
  \A t \in CurrentTraits \ {pen[w].id : w \in Writers} :
    trait[t].status = "confirmed" =>
      /\ trait'[t] = trait[t] \/ Answered(t) \/ erasure' = "done"
      /\ \A w \in Writers : pen'[w].id # t

\* The user has the last word on what the brain believes of them: what they
\* confirmed or corrected changes only by another answer or an erasure.  The
\* exceptions are what was under way before they spoke: a profile pass that
\* had read another row, a writer that had already chosen the trait.
UserHasLastWord == [][DimensionStands /\ TraitStands]_<<profileVars, eraseVars>>

\* Between two gentle questions at least Cooldown sessions end without one,
\* unless the second was being worded when the first was put.
QuestionsSpaced ==
  [][\A s \in Sessions :
       question[s].at = "asking" /\ question'[s].at = "asked"
       => since = Cooldown \/ s \in overtaken]_<<profileVars, eraseVars>>

\* An erasure removes traits, dimension and cooldown; only what was under way
\* when it began may store one again.
ProfileErased ==
  erasure = "done" /\ ~straggler
  => CurrentTraits = {} /\ dimension = None /\ remaining = 0
==============================================================================
