----------------------------- MODULE MCBilingual ------------------------------
(***************************************************************************)
(* An instance of BilingualExperiment for TLC: two runs of four settings,   *)
(* with two models and two questions under the same id, and a cache file     *)
(* that may be there from before; three hits over five sections, so that     *)
(* D2's list of four is cut.                                                 *)
(***************************************************************************)
EXTENDS BilingualExperiment

CONSTANTS a, s1, s2, s3, s4, s5, m, n, id, other, p, q

Row(section, index) ==
    [source |-> a, serial |-> 1, index |-> index, section |-> section]

MCSeparated == [pair \in {a} \X {s1, s2, s3, s4, s5} |-> pair]

Hit(vector, keyword) == [vector |-> vector, keyword |-> keyword]

MCHits ==
    {Hit(<<>>, <<>>),
     Hit(<<Row(s1, 1)>>, <<Row(s2, 2), Row(s1, 6)>>),
     Hit(<<Row(s3, 3), Row(s4, 4)>>, <<Row(s5, 5)>>)}

Asked(name, question, expected) ==
    [id |-> name, question |-> question, expected |-> expected]

Settings(arms, repeats, model, cases) ==
    [arms |-> arms, repeats |-> repeats, model |-> model, cases |-> cases]

MCConfigurations ==
    {Settings(<<"D1", "D2", "E">>, 1, m, <<Asked(id, p, {})>>),
     Settings(<<"B">>, 1, m, <<Asked(id, q, {})>>),
     Settings(<<"B">>, 1, n, <<Asked(id, p, {<<a, s1>>})>>),
     Settings(<<"A">>, 2, m, <<Asked(id, q, {<<a, s1>>}), Asked(other, p, {})>>)}

MCTakes == {1, 2}

Kept(variant) ==
    [question |-> p, variant |-> variant, model |-> NoModel, take |-> 1]

\* A file with two texts of one entry.
MCLegacy ==
    {[model   |-> NoModel,
      entries |-> With(Empty, id,
                       [question |-> p,
                        variants |-> [v \in {"exp", "vi"} |-> Kept(v)]])]}
==============================================================================
