------------------------------- MODULE Interests -------------------------------
(***************************************************************************)
(* From what the brain knows of a person to interest edges: by keywords,   *)
(* or by a language model that tags them.  A profile is a record of facts  *)
(* (by key), confirmed traits (a sequence), dimensions and the state; what *)
(* somebody wrote is the set of the keywords found in it, each with its    *)
(* node, its place, its length, and whether it is an unambiguous phrase.   *)
(***************************************************************************)
EXTENDS Kernel, SequencesExt

CONSTANT Catalog   \* all_interest_nodes: the nodes of TAXONOMY and a general one each

ASSUME CatalogAssumption ==
  {<<b, General>> : b \in {"wellness", "music_listening", "intellectual", "sports_watching"}} \subseteq Catalog

\* A keyword found in a text, a confirmed trait, a dimension.
Keyword   == [node : Catalog, at : Nat, length : Nat, phrase : BOOLEAN]
Trait     == [hits : SUBSET Keyword, confidence : 0 .. Scale]
Dimension == [axis : STRING, value : STRING, confidence : 0 .. Scale]

\* A profile has one value per axis (the key of profile_dimensions).
IsProfile(p) ==
  /\ \A key \in DOMAIN p.facts : p.facts[key] \subseteq Keyword
  /\ p.traits \in Seq(Trait)
  /\ p.dims \subseteq Dimension /\ \A d, e \in p.dims : d.axis = e.axis => d = e

Intensity == [intense_specific |-> 10000, engaged |-> 7000, casual |-> 4000]
Rank == [primary_hobby |-> 10000, secondary_hobby |-> 8000, tertiary_hobby |-> 6000]
TraitFloor == 7000   \* trait_confidence_floor

-------------------------------------------------------------------------------
(* Keywords.                                                                 *)

\* Whether keyword h wins over k: a phrase, then the earliest, then the longest.
Beats(h, k) ==
  \/ h.phrase /\ ~k.phrase
  \/ h.phrase = k.phrase /\ h.at < k.at
  \/ h.phrase = k.phrase /\ h.at = k.at /\ h.length >= k.length

\* _best_match: no node, or one.
BestKeyword(hits) == {h.node : h \in {x \in hits : \A y \in hits : Beats(x, y)}}

\* map_content_to_node, map_in_category and map_cause
MapContent(hits)  == BestKeyword(hits)
MapWithin(hits, broad) == BestKeyword({h \in hits : h.node[1] = broad})
MapInCategory(hits, broad) ==
  IF MapWithin(hits, broad) = {} THEN {<<broad, General>>} ELSE MapWithin(hits, broad)
MapCause(hits) == MapWithin(hits, "social_causes")

\* The edge for at most one node, as a sequence.
EdgeFor(nodes, weight, source) ==
  IF nodes = {} THEN <<>> ELSE <<Edge(CHOOSE n \in nodes : TRUE, weight, source)>>

\* add: a node keeps its heaviest edge, the first of equals.
Add(es, e) ==
  IF \E f \in es : f.node = e.node /\ f.weight >= e.weight THEN es
  ELSE {f \in es : f.node # e.node} \cup {e}

\* _intensity_factor
IntensityFactor(dims) ==
  LET known == {d \in dims : d.axis = "interest_intensity" /\ d.value \in DOMAIN Intensity}
  IN  IF known = {} THEN 5000 ELSE Intensity[(CHOOSE d \in known : TRUE).value]

Said(p, key) == key \in DOMAIN p.facts

Hobby(p, key) ==
  IF Said(p, key)
  THEN EdgeFor(MapContent(p.facts[key]), Part(IntensityFactor(p.dims), Rank[key]), key)
  ELSE <<>>

\* Exercise is an activity whatever it is.
Exercise(p) ==
  IF ~Said(p, "primary_exercise") THEN <<>>
  ELSE LET nodes == MapContent(p.facts["primary_exercise"])
       IN  EdgeFor(IF nodes = {} THEN {<<"wellness", General>>} ELSE nodes,
                   IntensityFactor(p.dims), "primary_exercise")

\* A fact whose key implies the category.
Taste(p, key, broad, weight) ==
  IF Said(p, key) THEN EdgeFor(MapInCategory(p.facts[key], broad), weight, key) ELSE <<>>

\* values_core yields a cause or nothing.
Cause(p) ==
  IF Said(p, "values_core") THEN EdgeFor(MapCause(p.facts["values_core"]), 5000, "values_core")
  ELSE <<>>

TraitEdges(p) ==
  FoldLeft(LAMBDA es, t : IF t.confidence < TraitFloor THEN es
                          ELSE es \o EdgeFor(MapContent(t.hits), Part(6000, t.confidence), "trait"),
           <<>>, p.traits)

\* extract_interests
ExtractInterests(p) ==
  FoldLeft(Add, {}, Hobby(p, "primary_hobby") \o Hobby(p, "secondary_hobby")
                    \o Hobby(p, "tertiary_hobby") \o Exercise(p)
                    \o Taste(p, "music_taste", "music_listening", 6000)
                    \o Taste(p, "book_genre", "intellectual", 6000)
                    \o Taste(p, "sports_team", "sports_watching", 5000)
                    \o Cause(p) \o TraitEdges(p))

-------------------------------------------------------------------------------
(* The language model.  Its answer is of a kind, "raised", "malformed" or    *)
(* "tags", with items: a node, not always of the catalogue, an intensity.    *)

TaggedFacts == {"primary_hobby", "secondary_hobby", "tertiary_hobby", "primary_exercise",
                "music_taste", "book_genre", "sports_team", "food_cuisine_preference",
                "gaming_habit", "movie_tv_taste", "values_core"}

\* build_tag_request: there is something to tag.
Taggable(p) ==
  \/ DOMAIN p.facts \cap TaggedFacts # {}
  \/ \E i \in DOMAIN p.traits : p.traits[i].confidence >= TraitFloor

TagWeight(intensity) ==
  CASE intensity = "intense" -> Intensity.intense_specific
    [] intensity = "casual"  -> Intensity.casual
    [] OTHER                 -> Intensity.engaged

\* Mutant: what the model invents is kept.
ParseAnyTags(items) ==
  FoldLeft(LAMBDA es, x : Add(es, Edge(x.node, TagWeight(x.intensity), "llm")), {}, items)

\* parse_tags: unknown nodes are dropped, a node keeps its greatest weight.
ParseTags(items) ==
  FoldLeft(LAMBDA es, x : IF x.node \in Catalog
                          THEN Add(es, Edge(x.node, TagWeight(x.intensity), "llm")) ELSE es,
           {}, items)

\* Mutant: a malformed answer tags nothing.
DeriveEmpty(p, answer) ==
  IF ~Taggable(p) \/ answer.kind = "raised" THEN ExtractInterests(p) ELSE ParseTags(answer.items)

\* _derive_interests: without an answer, by keywords.
DeriveInterests(p, answer) ==
  IF ~Taggable(p) \/ answer.kind # "tags" THEN ExtractInterests(p) ELSE ParseTags(answer.items)
===============================================================================
