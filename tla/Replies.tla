------------------------------- MODULE Replies --------------------------------
(***************************************************************************)
(* What the brain makes of the language model's answers about one user.    *)
(* An answer is a JSON text that may be cut short, name what was never     *)
(* shown, repeat itself or contradict itself; it arrives after what was    *)
(* shown has changed.  Each parser keeps what is usable of it, and what it *)
(* keeps is then applied to the notes of one kind, here `topic`:           *)
(* commitments, inferred traits or episodes.                               *)
(*                                                                         *)
(* Applying an answer is one step here; Commitments, Profile and Episodes  *)
(* interleave its statements with everything else.                         *)
(***************************************************************************)
EXTENDS Integers, SequencesExt

CONSTANTS
  Blank,         \* a missing field
  Words,         \* keys and what they say: a missing key is taken from the content
  Axes,          \* the profile's taxonomy
  Evidence,      \* promoted episodes and emotional signals
  Other,         \* an id that is no evidence of this user, a word that is no axis
  Limit,         \* graph_read_limit
  MaxNotes,      \* bound: notes ever made
  MaxItems,      \* bound: objects, or groups, in an answer
  MaxMentions    \* bound: keys or numbers in the groups of an answer

ASSUME ReplyAssumption ==
  /\ Blank \notin Words \cup Axes /\ Other \notin Axes \cup Evidence
  /\ Limit \in Nat /\ MaxNotes \in Nat /\ MaxItems \in Nat /\ MaxMentions \in Nat

VARIABLES
  topic,      \* the kind of notes
  notes,      \* oldest first: key, state, weight (deadline or confidence), cited evidence
  evidence,   \* what there is to cite
  asked,      \* what the model was asked, and what it was shown
  observed,   \* the dimensions of the answer just parsed
  meant       \* history: the groups, or the scored episodes, in that answer's words

replyVars == <<topic, notes, evidence, asked, observed, meant>>

Gone       == [key |-> Blank, state |-> "gone", weight |-> 0, cites |-> {}]
NotAsked   == [about |-> "nothing", shown |-> <<>>, known |-> {}]
OpenNotes  == {i \in DOMAIN notes : notes[i].state = "open"}

\* The members of a set of numbers, in order; what a sequence has at some of its
\* places; those of its members that are in a set.
InOrder(S)     == [k \in 1..Cardinality(S) |->
                     CHOOSE i \in S : Cardinality({j \in S : j <= i}) = k]
Picked(seq, S) == LET places == InOrder(S)
                  IN  [k \in DOMAIN places |-> seq[places[k]]]
Only(seq, S)   == Picked(seq, {k \in DOMAIN seq : seq[k] \in S})

\* A read returns the newest Limit notes; of the traits, the confirmed ones are
\* left out afterwards.
Read ==
  LET all == {i \in DOMAIN notes :
                notes[i].state \in {"open"} \cup (IF topic = "traits" THEN {"settled"} ELSE {})}
  IN  {i \in all : notes[i].state = "open" /\ Cardinality({j \in all : j > i}) < Limit}
Latest == Reverse(InOrder(Read))

ReplyInit ==
  /\ topic \in {"commitments", "traits", "episodes"}
  /\ notes = <<>> /\ evidence = {}
  /\ asked = NotAsked
  /\ observed = <<>> /\ meant = {}

Room == IF MaxNotes - Len(notes) < MaxItems THEN MaxNotes - Len(notes) ELSE MaxItems
AnswerIsPast == observed' = <<>> /\ meant' = {}

-------------------------------------------------------------------------------
(* Texts and what the parsers keep of them.                                 *)

\* An answer is read whole (json.loads) or not at all; only the detections keep
\* the complete objects of one that was cut short.
Texts(S, most) == [whole : BOOLEAN, items : UNION {[1..n -> S] : n \in 0..most}]
Sizes == {s \in (0..MaxItems) \X (1..MaxMentions) : s[1] * s[2] <= MaxMentions}
Groupings(S) ==
  [whole : {TRUE}, items : UNION {[1..s[1] -> [1..s[2] -> S]] : s \in Sizes}]
    \cup [whole : {FALSE}, items : [1..1 -> [1..2 -> S]]]
Strict(text) == IF text.whole THEN text.items ELSE <<>>

\* Mutant: a number named twice in a group counts twice.
Repeated(seq) == seq

Distinct(seq) == Picked(seq, {k \in DOMAIN seq : \A l \in 1..(k - 1) : seq[l] # seq[k]})

\* Of each group what was shown, once; a group of fewer than two is none.
GroupsOf(text, known) ==
  LET usable == [g \in DOMAIN Strict(text) |->
                   Distinct(Only(Strict(text)[g], known))]
  IN  Picked(usable, {g \in DOMAIN usable : Len(usable[g]) > 1})

\* Objects without content are skipped; a missing key is the content.
Named(text) ==
  LET items == Strict(text)
      said  == Picked(items, {k \in DOMAIN items : items[k].says # Blank})
  IN  [i \in DOMAIN said |-> [said[i] EXCEPT !.key = IF @ = Blank THEN said[i].says ELSE @]]

\* A deadline that cannot be read is none.
Coerced(text) ==
  [i \in DOMAIN Named(text) |->
    [key |-> Named(text)[i].key, state |-> "open", weight |-> Named(text)[i].weight, cites |-> {}]]

\* Mutant: the cited ids are stored as the model wrote them.
CitedAsWritten(cites, known) == cites

Cited(cites, known) == cites \cap known

\* Objects with key, content and at least one citation of what was shown.
Detected(text, known) ==
  LET items    == text.items
      grounded == Picked(items, {k \in DOMAIN items :
                    items[k].key # Blank /\ Cited(items[k].cites, known) # {}})
  IN  [i \in DOMAIN grounded |->
        [key |-> grounded[i].key, state |-> "open", weight |-> grounded[i].weight,
         cites |-> Cited(grounded[i].cites, known)]]

Placed(found) == {k \in DOMAIN found : found[k].key \in Axes}

\* Mutant: an axis may be placed twice.
EveryPlacement(text, known) ==
  LET found == Detected(text, known)
  IN  Picked(found, Placed(found))

\* The fixed taxonomy, and one object per axis: the first.
Dimensions(text, known) ==
  LET found == Detected(text, known)
  IN  Picked(found, {k \in Placed(found) :
                      \A l \in Placed(found) : l < k => found[l].key # found[k].key})

\* The last of the scores given, if any.
LastScore(items, given) == IF given = {} THEN 0 ELSE items[Max(given)].score

\* Mutant: only the upper end of the range is checked, and a negative number
\* counts from the end.
ScoresFromEnd(text, count) ==
  LET items == Strict(text)
  IN  [k \in 1..count |->
        LastScore(items, {n \in DOMAIN items : items[n].index \in {k - 1, k - 1 - count}})]

\* Numbers start at 0; what is out of range is skipped, the last score counts.
Scores(text, count) ==
  LET items == Strict(text)
  IN  [k \in 1..count |-> LastScore(items, {n \in DOMAIN items : items[n].index = k - 1})]

\* How the user's answer about a trait, and about a commitment, was understood;
\* what is unreadable changes nothing.
Verdict(text) ==
  IF text.whole /\ text.verdict \in {"confirm", "correct"} THEN text.verdict ELSE "deflect"

Resolution(text) ==
  IF text.whole /\ text.verdict \in {"kept", "dropped"} THEN text.verdict ELSE "unclear"

-------------------------------------------------------------------------------
(* Writing: GraphMemory.write_commitments and write_traits, one by one.     *)

\* An open commitment of the key is only given the new deadline, if there is one.
WithCommitment(ns, x) ==
  LET same == {i \in DOMAIN ns : ns[i].state = "open" /\ ns[i].key = x.key}
  IN  IF same = {} THEN Append(ns, x)
      ELSE [ns EXCEPT ![Max(same)].weight = IF x.weight = 0 THEN @ ELSE x.weight]

\* A trait of the key stays if it is confirmed or says the same.
WithTrait(ns, x, reworded) ==
  LET same == {i \in DOMAIN ns : ns[i].state # "gone" /\ ns[i].key = x.key}
  IN  IF same = {} THEN Append(ns, x)
      ELSE LET i == Max(same)
           IN  IF ns[i].state = "open" /\ x.key \in reworded
               THEN Append([ns EXCEPT ![i] = Gone], x) ELSE ns

WithTraits(ns, traits, reworded) == FoldLeft(LAMBDA rows, x : WithTrait(rows, x, reworded), ns, traits)

\* An extraction's commitments; it may run while the nightly pass is asking.
Listen(text) ==
  /\ topic = "commitments"
  /\ notes' = FoldLeft(WithCommitment, notes, Coerced(text))
  /\ AnswerIsPast
  /\ UNCHANGED <<topic, evidence, asked>>

EvidenceAppears(e) ==
  /\ topic = "traits"
  /\ evidence' = evidence \cup {e}
  /\ AnswerIsPast
  /\ UNCHANGED <<topic, notes, asked>>

AskForPatterns ==
  /\ topic = "traits" /\ asked = NotAsked /\ evidence # {}
  /\ asked' = [about |-> "patterns", shown |-> <<>>, known |-> evidence]
  /\ AnswerIsPast
  /\ UNCHANGED <<topic, notes, evidence>>

\* detect, or profile_pass up to what it then folds into the profile.
AnswerPatterns(text) ==
  /\ asked.about = "patterns"
  /\ LET traits == Detected(text, asked.known)
     IN  \E reworded \in SUBSET {traits[i].key : i \in DOMAIN traits} :
           notes' = WithTraits(notes, traits, reworded)
  /\ asked' = NotAsked
  /\ AnswerIsPast
  /\ UNCHANGED <<topic, evidence>>

AnswerProfile(text) ==
  /\ asked.about = "patterns"
  /\ observed' = Dimensions(text, asked.known)
  /\ asked' = NotAsked
  /\ meant' = {}
  /\ UNCHANGED <<topic, notes, evidence>>

-------------------------------------------------------------------------------
(* Merging what the model takes for the same: by number for commitments, by *)
(* key for traits.                                                          *)

AskForDuplicates ==
  /\ topic \in {"commitments", "traits"} /\ asked = NotAsked
  /\ Len(Latest) > 1
  /\ asked' = [about |-> "duplicates", shown |-> Latest, known |-> {}]
  /\ AnswerIsPast
  /\ UNCHANGED <<topic, notes, evidence>>

\* The soonest deadline, else the newest; or the most confident, then the newest.
Better(ns, i, j) ==
  IF topic = "traits"
  THEN ns[i].weight > ns[j].weight \/ (ns[i].weight = ns[j].weight /\ i >= j)
  ELSE \/ ns[i].weight > 0 /\ (ns[j].weight = 0 \/ ns[i].weight <= ns[j].weight)
       \/ ns[i].weight = 0 /\ ns[j].weight = 0 /\ i >= j

\* The place of the one that is kept.
Survivor(members) ==
  Min({k \in DOMAIN members : \A j \in ToSet(members) : Better(notes, members[k], j)})

Closing(left, members) ==
  LET kept   == Survivor(members)
      others == {members[k] : k \in DOMAIN members \ {kept}}
      losers == IF topic = "traits" THEN others ELSE others \ {members[kept]}
  IN  [i \in DOMAIN left |-> IF i \in losers THEN Gone ELSE left[i]]

\* Mutant: a note may be merged under two groups.
MergeAgain(acc, group) ==
  IF Len(group) < 2 THEN acc ELSE [acc EXCEPT !.left = Closing(acc.left, group)]

\* One group: those of it that no earlier group had.  One survives.
MergeGroup(acc, group) ==
  LET members == Only(group, DOMAIN notes \ acc.used)
  IN  IF Len(members) < 2 THEN acc
      ELSE [left |-> Closing(acc.left, members), used |-> acc.used \cup ToSet(members)]

\* Of a group, the notes that are read again before the first merge.
MergeRead(acc, group) == MergeGroup(acc, Only(group, Read))

AfterMerges(groups) == FoldLeft(MergeRead, [left |-> notes, used |-> {}], groups).left

\* Mutant: the numbers are taken for places in what is read after the answer.
IdsAfterwards(text) ==
  LET groups == GroupsOf(text, 0..(Len(asked.shown) - 1))
  IN  [g \in DOMAIN groups |->
        Only([k \in DOMAIN groups[g] |->
                IF groups[g][k] < Len(Latest) THEN Latest[groups[g][k] + 1] ELSE 0],
             DOMAIN notes)]

\* The notes that stood at these numbers when the model was asked.
Ids(text) ==
  LET groups == GroupsOf(text, 0..(Len(asked.shown) - 1))
  IN  [g \in DOMAIN groups |-> [k \in DOMAIN groups[g] |-> asked.shown[groups[g][k] + 1]]]

\* The notes that have these keys now.
Holders(text) ==
  LET groups == GroupsOf(text, {notes[i].key : i \in ToSet(asked.shown)})
      Of(k)  == {i \in Read : notes[i].key = k}
      found  == [g \in DOMAIN groups |-> Only(groups[g], {notes[i].key : i \in Read})]
  IN  [g \in DOMAIN found |-> [k \in DOMAIN found[g] |-> Min(Of(found[g][k]))]]

AnswerByNumber(text) ==
  /\ topic = "commitments" /\ asked.about = "duplicates"
  /\ notes' = AfterMerges(Ids(text))
  /\ meant' = {{asked.shown[k + 1] : k \in ToSet(text.items[g]) \cap 0..(Len(asked.shown) - 1)} :
                g \in DOMAIN text.items}
  /\ asked' = NotAsked
  /\ observed' = <<>>
  /\ UNCHANGED <<topic, evidence>>

AnswerByKey(text) ==
  /\ topic = "traits" /\ asked.about = "duplicates"
  /\ notes' = AfterMerges(Holders(text))
  /\ meant' = {{i \in OpenNotes : notes[i].key \in ToSet(text.items[g])} : g \in DOMAIN text.items}
  /\ asked' = NotAsked
  /\ observed' = <<>>
  /\ UNCHANGED <<topic, evidence>>

\* The user's answer about a commitment.
Resolve(i, text) ==
  /\ topic = "commitments" /\ i \in OpenNotes
  /\ notes' = IF Resolution(text) = "unclear" THEN notes
              ELSE [notes EXCEPT ![i].state = "settled"]
  /\ AnswerIsPast
  /\ UNCHANGED <<topic, evidence, asked>>

\* About a trait: confirmed, or closed; the user's words, if any, are then a
\* trait of the key, on the same evidence.
Classify(i, text) ==
  /\ topic = "traits" /\ i \in OpenNotes
  /\ CASE Verdict(text) = "deflect" -> notes' = notes
       [] Verdict(text) = "confirm" -> notes' = [notes EXCEPT ![i].state = "settled"]
       [] Verdict(text) = "correct" ->
            LET without == [notes EXCEPT ![i] = Gone]
                words   == [notes[i] EXCEPT !.state = "settled", !.weight = 1]
            IN  IF text.words THEN Room > 0 /\ notes' = WithTrait(without, words, {})
                ELSE notes' = without
  /\ AnswerIsPast
  /\ UNCHANGED <<topic, evidence, asked>>

-------------------------------------------------------------------------------
(* PROMOTE: recent episodes, scored by number.                              *)

EpisodeAppears ==
  /\ topic = "episodes"
  /\ Len(notes) < MaxNotes
  /\ notes' = Append(notes, [Gone EXCEPT !.state = "open"])
  /\ AnswerIsPast
  /\ UNCHANGED <<topic, evidence, asked>>

AskForSalience ==
  /\ topic = "episodes" /\ asked = NotAsked
  /\ asked' = IF Read = {} THEN NotAsked
              ELSE [about |-> "salience", shown |-> InOrder(Read), known |-> {}]
  /\ AnswerIsPast
  /\ UNCHANGED <<topic, notes, evidence>>

\* Those scored above the threshold.
AnswerSalience(text) ==
  /\ asked.about = "salience"
  /\ LET scores == Scores(text, Len(asked.shown))
         chosen == {asked.shown[k] : k \in {k \in DOMAIN scores : scores[k] = 1}}
     IN  notes' = [i \in DOMAIN notes |->
                    IF i \in chosen THEN [notes[i] EXCEPT !.state = "settled"] ELSE notes[i]]
  /\ meant' = {{asked.shown[k + 1]} : k \in {k \in 0..(Len(asked.shown) - 1) :
                 text.whole /\ [index |-> k, score |-> 1] \in ToSet(text.items)}}
  /\ asked' = NotAsked
  /\ observed' = <<>>
  /\ UNCHANGED <<topic, evidence>>

\* The model failed, or what was shown is not worth another word.
AskFails ==
  /\ asked # NotAsked
  /\ asked' = NotAsked
  /\ AnswerIsPast
  /\ UNCHANGED <<topic, notes, evidence>>

-------------------------------------------------------------------------------

Commits  == Texts([says : Words \cup {Blank}, key : Words \cup {Blank}, weight : {0, 1}], Room)
Cites    == SUBSET (Evidence \cup {Other})
Patterns == Texts([key : Words \cup {Blank}, cites : Cites, weight : {0, 1}], Room)
Placings == Texts([key : Axes \cup {Blank, Other}, cites : Cites, weight : {0}], MaxItems)
Scorings == Texts([index : (-1)..MaxNotes, score : {0, 1}], MaxItems)
Replying == [whole : BOOLEAN, words : BOOLEAN,
             verdict : {"confirm", "correct", "kept", "dropped", "other"}]

ReplyNext ==
  \/ \E text \in Commits : Listen(text)
  \/ \E e \in Evidence : EvidenceAppears(e)
  \/ AskForPatterns
  \/ \E text \in Patterns : AnswerPatterns(text)
  \/ \E text \in Placings : AnswerProfile(text)
  \/ AskForDuplicates
  \/ \E text \in Groupings(0..MaxNotes) : AnswerByNumber(text)
  \/ \E text \in Groupings(Words) : AnswerByKey(text)
  \/ \E i \in 1..MaxNotes, text \in Replying : Resolve(i, text) \/ Classify(i, text)
  \/ EpisodeAppears \/ AskForSalience
  \/ \E text \in Scorings : AnswerSalience(text)
  \/ AskFails

ReplySpec == ReplyInit /\ [][ReplyNext]_replyVars

-------------------------------------------------------------------------------
(* Properties.                                                              *)

ReplyTypeOK ==
  /\ topic \in {"commitments", "traits", "episodes"}
  /\ Len(notes) <= MaxNotes
  /\ \A i \in DOMAIN notes :
       notes[i] \in [key : Words \cup {Blank}, state : {"open", "settled", "gone"},
                    weight : {0, 1}, cites : SUBSET (Evidence \cup {Other})]
  /\ evidence \subseteq Evidence
  /\ asked.about \in {"nothing", "patterns", "duplicates", "salience"}
  /\ ToSet(asked.shown) \subseteq DOMAIN notes /\ asked.known \subseteq evidence

\* A note closed as a duplicate leaves another of its group, that is at least
\* as urgent or as certain.
OneOfEachGroupStays ==
  asked.about = "duplicates" /\ asked' = NotAsked =>
    \A i \in DOMAIN notes : notes[i] # Gone /\ notes'[i] = Gone =>
      \E group \in meant' : \E j \in group \ {i} :
        i \in group /\ notes'[j].state = "open" /\ Better(notes, j, i)

\* An episode is promoted only if the answer scored it, by its number.
PromotedWereScored ==
  asked.about = "salience" /\ asked' = NotAsked =>
    \A i \in DOMAIN notes : notes[i].state = "open" /\ notes'[i].state = "settled" => {i} \in meant'

\* An inferred trait or dimension rests on evidence that was there, and one
\* answer places the person on an axis once.
InferencesAreGrounded ==
  /\ \A i \in DOMAIN notes : topic = "traits" /\ notes[i] # Gone =>
       notes[i].cites # {} /\ notes[i].cites \subseteq evidence
  /\ \A i \in DOMAIN observed :
       /\ observed[i].key \in Axes /\ observed[i].cites # {} /\ observed[i].cites \subseteq evidence
       /\ \A j \in DOMAIN observed \ {i} : observed[j].key # observed[i].key

\* However the model answers, and whatever changed while it thought: a merge
\* loses no intent and no pattern, nothing is promoted that was not scored, and
\* nothing is believed of the user without evidence.
AnswersAreHonoured ==
  [][OneOfEachGroupStays /\ PromotedWereScored /\ InferencesAreGrounded']_replyVars
===============================================================================
