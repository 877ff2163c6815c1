----------------------------- MODULE MCEvaluation -----------------------------
(***************************************************************************)
(* Instance of Evaluation for TLC: two chunks, each a section of its own; a  *)
(* dataset with a case that can be answered and one that cannot, in both    *)
(* orders; TOP_K 2, which is also one of the fixed K values; settings that  *)
(* between them switch everything on.                                       *)
(***************************************************************************)
EXTENDS Evaluation

CONSTANTS a, x, y

Chunk(section, index) ==
    [source |-> a, serial |-> 1, index |-> index, section |-> section]

MCRows == {Chunk(x, 1), Chunk(y, 2)}

MCSeparated == [p \in {a} \X {x, y} |-> p]

MCAnswered == [expected |-> {<<a, x>>}, evidence |-> {{Chunk(x, 1)}}, facts |-> 2]
MCUnanswered == [expected |-> {}, evidence |-> {}, facts |-> 0]

MCDatasets == {<<MCAnswered, MCUnanswered>>, <<MCUnanswered, MCAnswered>>}

Switches(rewrite, gate, judge, lexical, llm) ==
    [rewrite |-> rewrite, gate |-> gate, judge |-> judge, lexical |-> lexical,
     llm |-> llm]

MCConfigurations ==
    {Switches("off", FALSE, FALSE, FALSE, FALSE),
     Switches("only", FALSE, FALSE, TRUE, TRUE),
     Switches("off", TRUE, FALSE, FALSE, FALSE),
     Switches("off", FALSE, TRUE, FALSE, FALSE),
     Switches("both", FALSE, FALSE, FALSE, FALSE)}

Cited(section, wrongPage, follows) ==
    [section |-> <<a, section>>, wrongPage |-> wrongPage, claim |-> follows]

MCAnswers ==
    {<<>>, <<Cited(x, FALSE, TRUE), Cited(x, TRUE, TRUE)>>,
     <<Cited(y, FALSE, TRUE), Cited(x, FALSE, FALSE)>>}
MCScores == {0, 1}
==============================================================================
