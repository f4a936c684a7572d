-------------------------------- MODULE Kernel --------------------------------
(***************************************************************************)
(* The compatibility kernel of the connections service, a pure function of *)
(* what the store holds of two people: their interest edges (one per node) *)
(* and their dimensions (one per axis).  Scores, weights and confidences   *)
(* are in ten-thousandths, rounded half up at every division, where the    *)
(* code rounds the results to four places.                                 *)
(***************************************************************************)
EXTENDS Naturals, Sequences, FiniteSets, FiniteSetsExt

Scale == 10000
General == "_general"

\* A node is <<broad category, specific interest>>.
Edge(node, weight, source) == [node |-> node, weight |-> weight, source |-> source]

\* The defaults of the settings the kernel reads.
Settings == [
  interest |-> 5000, dimension |-> 3500, values |-> 1500,
  broad |-> 4000,        \* broad_interest_multiplier
  axisFloor |-> 5000,    \* dimension_axis_confidence_floor
  targetEdges |-> 3,     \* confidence_target_edges
  review |-> 5000 ]      \* confidence_review_threshold

Ratio(n, d) == IF d = 0 THEN 0 ELSE (2 * n * Scale + d) \div (2 * d)
Part(share, x) == (share * x + Scale \div 2) \div Scale
Least(x, y)    == IF x <= y THEN x ELSE y
Most(x, y)     == IF x <= y THEN y ELSE x

-------------------------------------------------------------------------------
(* Interests.                                                                *)

\* _specific_weights, as the weight of a node, 0 without an edge.
Specific(es) == {e.node : e \in {f \in es : f.node[2] # General}}
Weight(es, n) == MapThenSumSet(LAMBDA e : IF e.node = n THEN e.weight ELSE 0, es)

\* _broad_categories
Broad(es) == {e.node[1] : e \in es}

\* _weighted_jaccard, of the specific nodes
WeightedJaccard(a, b) ==
  LET nodes == Specific(a) \cup Specific(b)
  IN  Ratio(MapThenSumSet(LAMBDA n : Least(Weight(a, n), Weight(b, n)), nodes),
            MapThenSumSet(LAMBDA n : Most(Weight(a, n), Weight(b, n)), nodes))

\* _binary_jaccard
BinaryJaccard(s, t) == Ratio(Cardinality(s \cap t), Cardinality(s \cup t))

\* A cause taken from values_core is scored with the values only.
Causes(es) == {e \in es : e.source = "values_core"}

\* _interest_component
InterestComponent(a, b) ==
  LET x == a \ Causes(a)
      y == b \ Causes(b)
      specific == WeightedJaccard(x, y)
      wide == Part(Settings.broad, BinaryJaccard(Broad(x), Broad(y)))
      shared == Broad(x) \cap Broad(y)
  IN  CASE specific > 0 -> [score |-> specific, nodes |-> Specific(x) \cap Specific(y),
                            broad |-> shared, type |-> "specific"]
        [] specific = 0 /\ wide > 0 -> [score |-> wide, nodes |-> {}, broad |-> shared, type |-> "broad_only"]
        [] OTHER -> [score |-> 0, nodes |-> {}, broad |-> shared, type |-> "none"]

-------------------------------------------------------------------------------
(* Dimensions.                                                               *)

\* The matrices, by the places of the two values on their axis.
Similar     == <<<<10000, 6000, 2000>>, <<6000, 10000, 6000>>, <<2000, 6000, 10000>>>>
Predictable == <<<<10000, 7000, 3000>>, <<7000, 7000, 7000>>, <<3000, 7000, 10000>>>>
Structured  == <<<<10000, 8000, 5000>>, <<8000, 10000, 8000>>, <<5000, 8000, 10000>>>>

Axes == [
  topic_focus |-> [order |-> <<"deep_narrow", "balanced", "broad_shallow">>, score |-> Similar],
  interest_intensity |-> [order |-> <<"casual", "engaged", "intense_specific">>, score |-> Similar],
  social_predictability_need |-> [order |-> <<"low", "medium", "high">>, score |-> Predictable],
  sensory_sensitivity |-> [order |-> <<"low", "medium", "high">>, score |-> Predictable],
  structure_preference |-> [order |-> <<"flexible", "mixed", "needs_structure">>, score |-> Structured] ]

\* _axis_score: the score of two values of an axis, {} for a value not on it.
AxisScore(axis, v, w) ==
  LET Places(x) == {i \in 1 .. 3 : Axes[axis].order[i] = x}
  IN  {Axes[axis].score[i][j] : i \in Places(v), j \in Places(w)}

\* _dimension_component: what both know well enough counts, by axis.
DimensionMatches(a, b) ==
  LET known == {p \in a \X b : /\ p[1].axis = p[2].axis /\ p[1].axis \in DOMAIN Axes
                               /\ p[1].confidence >= Settings.axisFloor
                               /\ p[2].confidence >= Settings.axisFloor}
  IN  UNION {{<<p[1].axis, s>> : s \in AxisScore(p[1].axis, p[1].value, p[2].value)} : p \in known}

DimensionScore(matches) ==
  LET total == MapThenSumSet(LAMBDA x : x[2], matches)
      n     == Cardinality(matches)
  IN  (2 * total + n) \div (2 * n)

-------------------------------------------------------------------------------
(* The kernel.                                                               *)

\* _values_component: present unless neither has a cause.
CauseNodes(es) == {e.node : e \in Causes(es)}

\* Mutant: how much there is to go on is the first person's.
ConfidenceOfFirst(a, b, axes, i) ==
  (5 * Ratio(Least(Cardinality(a), Settings.targetEdges), Settings.targetEdges)
     + 3 * Ratio(axes, Cardinality(DOMAIN Axes))
     + 2 * (IF i.nodes # {} THEN 10000 ELSE IF i.broad # {} THEN 5000 ELSE 2000) + 5) \div 10

\* _confidence: how much there is to go on, for the one of whom less is known.
Confidence(a, b, axes, i) ==
  LET weaker == Least(Least(Cardinality(a), Cardinality(b)), Settings.targetEdges)
      found  == IF i.nodes # {} THEN 10000 ELSE IF i.broad # {} THEN 5000 ELSE 2000
  IN  (5 * Ratio(weaker, Settings.targetEdges) + 3 * Ratio(axes, Cardinality(DOMAIN Axes))
         + 2 * found + 5) \div 10

\* The components of a score that are present: weight, score.
Components(a, b) ==
  LET ds == DimensionMatches(a.dims, b.dims)
      ca == CauseNodes(a.edges)
      cb == CauseNodes(b.edges)
  IN  {<<"interest", Settings.interest, InterestComponent(a.edges, b.edges).score>>}
        \cup (IF ds = {} THEN {} ELSE {<<"dimension", Settings.dimension, DimensionScore(ds)>>})
        \cup (IF ca \cup cb = {} THEN {} ELSE {<<"values", Settings.values, BinaryJaccard(ca, cb)>>})

\* Mutant: a missing component counts as a zero.
MeanOfAll(cs) == Ratio(MapThenSumSet(LAMBDA c : c[2] * c[3], cs) \div Scale, Scale)

\* The weighted mean, renormalised over the components that are present.
MeanOf(cs) ==
  LET weights == MapThenSumSet(LAMBDA c : c[2], cs)
  IN  (MapThenSumSet(LAMBDA c : c[2] * c[3], cs) + weights \div 2) \div weights

\* kernel
KernelOf(a, b) ==
  LET i == InterestComponent(a.edges, b.edges)
      shared == CauseNodes(a.edges) \cap CauseNodes(b.edges)
      sure == Confidence(a.edges, b.edges, Cardinality(DimensionMatches(a.dims, b.dims)), i)
  IN  [ score |-> MeanOf(Components(a, b)),
        confidence |-> sure,
        human_review_flag |-> sure < Settings.review,
        match_type |-> IF i.type # "none" THEN i.type
                       ELSE IF shared # {} THEN "values_only" ELSE "none",
        specific |-> i.nodes, causes |-> shared ]
===============================================================================
