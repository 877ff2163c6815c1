------------------------------ MODULE Reranking ------------------------------
(***************************************************************************)
(* internal/reranking: the lexical order, what a model's reply to the       *)
(* reranking prompt is worth, and the reasons for falling back to the fused *)
(* order.  A reply is what follows the optional code fence: a JSON array of *)
(* integers, or anything else, which is refused as the empty array is.      *)
(***************************************************************************)
EXTENDS Integers, Sequences, FiniteSets

FallbackNone           == "none"
FallbackParse          == "parse_failure"
FallbackGeneratorError == "generator_error"
FallbackTimeout        == "timeout"

FallbackReasons == {FallbackNone, FallbackParse, FallbackGeneratorError,
                    FallbackTimeout}

\* The replies to a prompt of n candidates: arrays of up to one element too
\* many, with IDs from one below to one above the range.
Replies(n) == UNION {[1..m -> -1..n] : m \in 0..(n + 1)}

\* Every candidate once: the right number, in range, none twice.
parseRanking(order, n) ==
    /\ Len(order) = n
    /\ \A i \in 1..n : order[i] \in 0..(n - 1)
    /\ \A i, j \in 1..n : order[i] = order[j] => i = j

\* The documents in the model's order; IDs count from 0.
InOrder(order, docs) == [i \in DOMAIN order |-> docs[order[i] + 1]]

\* The first k documents, or all of them.
FirstOf(k, docs) == SubSeq(docs, 1, IF k < Len(docs) THEN k ELSE Len(docs))

\* The lexical reranker: by the number of words shared with the question, the
\* given order among equals.
RerankByWords(score, docs) ==
    LET place == [k \in DOMAIN docs |->
                     1 + Cardinality({j \in DOMAIN docs :
                            \/ score[docs[j]] > score[docs[k]]
                            \/ score[docs[j]] = score[docs[k]] /\ j < k})]
    IN  [n \in DOMAIN docs |-> docs[CHOOSE k \in DOMAIN docs : place[k] = n]]
==============================================================================
