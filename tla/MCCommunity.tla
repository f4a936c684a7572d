------------------------------ MODULE MCCommunity ------------------------------
(* Instances of Community for TLC: two users, two directed pairs, and what   *)
(* the brain and the models may say of them.                                 *)
EXTENDS Community, TLC

CONSTANTS u1, u2

Hit(broad, spec, at) == [node |-> <<broad, spec>>, at |-> at, length |-> 3, phrase |-> FALSE]
Dim(axis, value, confidence) == [axis |-> axis, value |-> value, confidence |-> confidence]
Person(facts, traits, ds, state) == [facts |-> facts, traits |-> traits, dims |-> ds, state |-> state]

MCCatalog == {<<"gaming", "dnd">>, <<"gaming", "puzzles">>, <<"gaming", General>>,
              <<"social_causes", "environment">>}
             \cup {<<b, General>> : b \in {"wellness", "music_listening", "intellectual", "sports_watching"}}
Climber == Person([primary_hobby |-> {Hit("gaming", "dnd", 0), Hit("gaming", "puzzles", 8)},
                   values_core |-> {Hit("social_causes", "environment", 0)}], <<>>,
                  {Dim("topic_focus", "balanced", 9000), Dim("interest_intensity", "intense_specific", 9000),
                   Dim("sensory_sensitivity", "low", 4000)}, "MN")
Player  == Person([secondary_hobby |-> {Hit("gaming", "dnd", 0)}, primary_exercise |-> {},
                   tertiary_hobby |-> {Hit("gaming", "puzzles", 0)}],
                  <<[hits |-> {Hit("gaming", "dnd", 3)}, confidence |-> 9000]>>,
                  {Dim("topic_focus", "deep_narrow", 8000), Dim("interest_intensity", "intense_specific", 8000)}, "MN")
Quiet   == Person([relationship_goal |-> {}], <<>>, {Dim("topic_focus", "balanced", 7000)}, "MN")
MCStory == (u1 :> <<Climber, Quiet>>) @@ (u2 :> <<Player>>)
MCAnswers == {[kind |-> "raised", items |-> <<>>], [kind |-> "malformed", items |-> <<>>],
              [kind |-> "tags", items |-> <<[node |-> <<"gaming", "puzzles">>, intensity |-> "casual"],
                                            [node |-> <<"gaming", "chess">>, intensity |-> "intense"]>>]}
MCOpinions == {[would_click |-> TRUE, confidence |-> 8000, flag_for_review |-> TRUE],
               [would_click |-> FALSE, confidence |-> 0, flag_for_review |-> FALSE]}

HandlerSymmetry == Permutations(Handlers)
===============================================================================
