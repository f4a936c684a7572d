------------------------------- MODULE Screening -------------------------------
(***************************************************************************)
(* What the nightly passes compute, from profile to introduction: the      *)
(* ingest derives a snapshot of a person and writes it table by table, the *)
(* scoring ranks pairs by the kernel, the evaluation records the model's   *)
(* verdict on the best, and the surfacing takes the surest of those.       *)
(*                                                                         *)
(* Module Introductions interleaves the passes statement by statement and  *)
(* leaves their data to chance; here the data is computed, and a pass      *)
(* handles a user (the evaluation: a pair) in one step, except the ingest, *)
(* whose three writes may be cut and may have other passes in between.     *)
(***************************************************************************)
EXTENDS People, Interests

CONSTANTS
  Story,        \* bound: the profiles a person has in turn
  Answers,      \* what the tagging model may answer
  Opinions,     \* what the evaluating model may answer: a click, a confidence, a flag
  LaunchStates,
  MaxIngests,   \* bound: ingests of a person
  TopN          \* top_n_candidates and eval_top_n

ASSUME ScreeningAssumption ==
  /\ DOMAIN Story = Users
  /\ \A u \in Users : /\ Len(Story[u]) \in Nat \ {0}
                       /\ \A i \in 1 .. Len(Story[u]) : IsProfile(Story[u][i])
  /\ \A a \in Answers : Len(a.items) \in Nat /\ DOMAIN a.items = 1 .. Len(a.items)
  /\ \A o \in Opinions : o.confidence \in 0 .. Scale   \* parse_eval_response clamps it
  /\ MaxIngests \in Nat /\ TopN \in Nat \ {0}

MinKernelScore   == 4500
SurfaceThreshold == 5500
DimensionFloor   == 6000

VARIABLES
  told,      \* the brain: how far the person's story has come
  runs,      \* ghost: ingests begun, by user
  row,       \* users_pool by user: [state, ready], or None
  dims,      \* profile_dimensions by user
  edges,     \* user_interests by user
  ingest,    \* the ingest: the snapshot it is writing and what is next, or NoIngest
  torn,      \* history: users whose last ingest was cut between two writes
  ranked,    \* candidate_scores by pair: what the kernel said, or None
  verdict,   \* eval_results by pair, or None
  shown      \* match_state: pairs introduced

screeningVars == <<told, runs, row, dims, edges, ingest, torn, ranked, verdict, shown>>

NoIngest == [user |-> None, next |-> "none"]
Unranked == [score |-> 0, confidence |-> 0, human_review_flag |-> TRUE,
             match_type |-> "none", specific |-> {}, causes |-> {}]
Unjudged == [would_click |-> FALSE, final |-> 0, flag_for_review |-> FALSE]
NotIn    == [state |-> "none", ready |-> FALSE]

ScreeningInit ==
  /\ told = [u \in Users |-> 1] /\ runs = [u \in Users |-> 0]
  /\ row = [u \in Users |-> NotIn]
  /\ dims = [u \in Users |-> {}] /\ edges = [u \in Users |-> {}]
  /\ ingest = NoIngest /\ torn = {}
  /\ ranked = [p \in Pairs |-> Unranked] /\ verdict = [p \in Pairs |-> Unjudged]
  /\ shown = {}

\* The profile the brain has of a person, and those it has had.
Says(u)     == Story[u][told[u]]
Versions(u) == {Story[u][i] : i \in 1 .. told[u]}

\* The person goes on talking, and the profile changes.
Learn(u) ==
  /\ told[u] < Len(Story[u])
  /\ told' = [told EXCEPT ![u] = @ + 1]
  /\ UNCHANGED <<runs, row, dims, edges, ingest, torn, ranked, verdict, shown>>

-------------------------------------------------------------------------------
(* The ingest.                                                               *)

\* The readiness floor.
ReadyFor(p, es) ==
  /\ p.state \in LaunchStates
  /\ es # {} \/ \E d \in p.dims : d.confidence >= DimensionFloor

SnapshotOf(p, es) == [row |-> [state |-> p.state, ready |-> ReadyFor(p, es)], dims |-> p.dims, edges |-> es]

\* What the ingest has in hand after the brain's and the model's answer.
Snapshots(p) == {SnapshotOf(p, DeriveInterests(p, a)) : a \in Answers}

BeginIngest(u, s) ==
  /\ ingest = NoIngest /\ runs[u] < MaxIngests
  /\ ingest' = [user |-> u, next |-> "row", snap |-> s]
  /\ runs' = [runs EXCEPT ![u] = @ + 1]

\* Mutant: an outage is an empty profile.
FetchOrEmpty(u) ==
  /\ \E p \in {Says(u), [facts |-> <<>>, traits |-> <<>>, dims |-> {}, state |-> ""]} :
       \E s \in Snapshots(p) : BeginIngest(u, s)
  /\ UNCHANGED <<told, row, dims, edges, torn, ranked, verdict, shown>>

\* fetch_profile and the derivation; when the brain fails, the user is skipped.
Fetch(u) ==
  /\ \E s \in Snapshots(Says(u)) : BeginIngest(u, s)
  /\ UNCHANGED <<told, row, dims, edges, torn, ranked, verdict, shown>>

\* upsert_user_pool, upsert_profile_dimensions, upsert_user_interests: each a
\* transaction of its own.
WriteRow ==
  /\ ingest.next = "row"
  /\ row' = [row EXCEPT ![ingest.user] = ingest.snap.row]
  /\ ingest' = [ingest EXCEPT !.next = "dims"]
  /\ UNCHANGED <<told, runs, dims, edges, torn, ranked, verdict, shown>>

WriteDims ==
  /\ ingest.next = "dims"
  /\ dims' = [dims EXCEPT ![ingest.user] = ingest.snap.dims]
  /\ ingest' = [ingest EXCEPT !.next = "edges"]
  /\ UNCHANGED <<told, runs, row, edges, torn, ranked, verdict, shown>>

\* Mutant: new edges are added to the old.
WriteEdgesOver ==
  /\ ingest.next = "edges"
  /\ edges' = [edges EXCEPT ![ingest.user] = ingest.snap.edges \cup
                 {e \in @ : \A f \in ingest.snap.edges : f.node # e.node}]
  /\ torn' = torn \ {ingest.user}
  /\ ingest' = NoIngest
  /\ UNCHANGED <<told, runs, row, dims, ranked, verdict, shown>>

\* The old edges are deleted and the new inserted.
WriteEdges ==
  /\ ingest.next = "edges"
  /\ edges' = [edges EXCEPT ![ingest.user] = ingest.snap.edges]
  /\ torn' = torn \ {ingest.user}
  /\ ingest' = NoIngest
  /\ UNCHANGED <<told, runs, row, dims, ranked, verdict, shown>>

\* A write raises: the user is left as far as it came, until the next ingest.
CutIngest ==
  /\ ingest # NoIngest
  /\ torn' = IF ingest.next = "row" THEN torn ELSE torn \cup {ingest.user}
  /\ ingest' = NoIngest
  /\ UNCHANGED <<told, runs, row, dims, edges, ranked, verdict, shown>>

-------------------------------------------------------------------------------
(* Scoring, evaluation, surfacing.                                           *)

Snap(u) == [dims |-> dims[u], edges |-> edges[u]]

\* get_pool_users of the launched states.
InPool == {u \in Users : row[u].ready /\ row[u].state \in LaunchStates}

PairsFrom(u) == {p \in Pairs : p[1] = u}

\* What the best n of a set of pairs may be; ties are cut somehow.
Tops(pairs, n, Key(_)) ==
  {s \in SUBSET pairs : /\ Cardinality(s) = Least(n, Cardinality(pairs))
                       /\ \A p \in s, q \in pairs \ s : Key(p) >= Key(q)}

\* generate_candidates and the saving of the top; other rows stay as they are.
ScoreUser(u) ==
  /\ u \in InPool
  /\ LET open == {p \in PairsFrom(u) : p[2] \in InPool /\ p \notin shown}
         now  == [p \in open |-> KernelOf(Snap(u), Snap(p[2]))]
     IN  /\ open # {}
         /\ \E best \in Tops(open, TopN, LAMBDA p : now[p].score) :
              ranked' = [p \in Pairs |-> IF p \in best THEN now[p] ELSE ranked[p]]
  /\ UNCHANGED <<told, runs, row, dims, edges, ingest, torn, verdict, shown>>

\* Mutant: what the kernel wants reviewed is evaluated too.
ShortlistsUnreviewed(u) ==
  Tops({p \in PairsFrom(u) : ranked[p].score >= MinKernelScore}, TopN, LAMBDA p : ranked[p].score)

\* What eval_pass may judge for u.
Shortlists(u) ==
  Tops({p \in PairsFrom(u) : ranked[p].score >= MinKernelScore /\ ~ranked[p].human_review_flag},
       TopN, LAMBDA p : ranked[p].score)

\* compute_final_confidence
FinalConfidence(kernel, llm) == (6 * kernel + 4 * llm + 5) \div 10

\* _eval_pair, of a candidate still in the pool; a malformed answer leaves the
\* verdict as it is.
EvalPair(p, o) ==
  /\ p[1] \in InPool /\ p[2] \in InPool
  /\ \E list \in Shortlists(p[1]) : p \in list
  /\ verdict' = [verdict EXCEPT ![p] =
       [would_click |-> o.would_click, flag_for_review |-> o.flag_for_review,
        final |-> FinalConfidence(ranked[p].confidence, o.confidence)]]
  /\ UNCHANGED <<told, runs, row, dims, edges, ingest, torn, ranked, shown>>

\* get_surfaceable_matches, the surest first; one introduction per pass, whose
\* check-in the brain stored.
SurfaceUser(u) ==
  /\ u \in InPool
  /\ LET fit == {p \in PairsFrom(u) \ shown : /\ ranked[p] # Unranked /\ verdict[p].would_click
                                              /\ verdict[p].final >= SurfaceThreshold}
     IN  /\ fit # {}
         /\ \E top \in Tops(fit, 1, LAMBDA p : verdict[p].final) : shown' = shown \cup top
  /\ UNCHANGED <<told, runs, row, dims, edges, ingest, torn, ranked, verdict>>

ScreeningNext ==
  \/ \E u \in Users : Learn(u) \/ Fetch(u) \/ ScoreUser(u) \/ SurfaceUser(u)
  \/ \E p \in Pairs, o \in Opinions : EvalPair(p, o)
  \/ WriteRow \/ WriteDims \/ WriteEdges \/ CutIngest

ScreeningSpec == ScreeningInit /\ [][ScreeningNext]_screeningVars

-------------------------------------------------------------------------------
(* Properties.                                                               *)

\* One edge per node, of the catalogue; a verdict has a score under it.
ScreeningTypeOK ==
  /\ told \in [Users -> Nat \ {0}] /\ runs \in [Users -> 0 .. MaxIngests]
  /\ \A u \in Users : \A e, f \in edges[u] :
       /\ e.node \in Catalog /\ e.weight \in 1 .. Scale
       /\ e.node = f.node => e = f
  /\ ingest # NoIngest => ingest.user \in Users /\ ingest.next \in {"row", "dims", "edges"}
  /\ torn \subseteq Users /\ shown \subseteq Pairs
  /\ \A p \in Pairs : ranked[p].score \in 0 .. Scale /\ verdict[p].final \in 0 .. Scale

\* "A transient outage must never wipe/destale derived state": what the store
\* holds of a person is what one profile the person really had gives, by keywords
\* or by tags the model did answer, unless an ingest is writing it or was cut.
SnapshotIsWhole ==
  \A u \in Users \ torn : row[u] # NotIn /\ ingest.user # u =>
    \E p \in Versions(u) :
      /\ edges[u] \in {ExtractInterests(p)} \cup {ParseTags(a.items) : a \in {x \in Answers : x.kind = "tags"}}
      /\ dims[u] = p.dims
      /\ row[u] = [state |-> p.state, ready |-> ReadyFor(p, edges[u])]

\* "Missing dimensions/values never cap the score": of any two people the store
\* comes to hold, whole or torn, the kernel says the same of either to the other,
\* and the score lies between the least and the greatest component present.
KernelIsFair ==
  \A p \in Pairs : row[p[1]] # NotIn /\ row[p[2]] # NotIn =>
    LET a == Snap(p[1])
        b == Snap(p[2])
        says == KernelOf(a, b)
        parts == {c[3] : c \in Components(a, b)}
    IN  /\ says = KernelOf(b, a)
        /\ \E x, y \in parts : x <= says.score /\ says.score <= y

\* "it needs review, not surfacing": whatever was scored again meanwhile, a verdict
\* rests on a score the kernel was sure enough of.
JudgedWhenSure ==
  \A p \in Pairs : verdict[p] # Unjudged => verdict[p].final >= (6 * Settings.review) \div 10

\* Two people are judged alike from either side, and only on enough evidence.
VerdictsAreFair == KernelIsFair /\ JudgedWhenSure
===============================================================================
