------------------------------ MODULE Evaluation ------------------------------
(***************************************************************************)
(* cmd/eval: every case of a dataset goes through the measurements that the *)
(* settings ask for (vector and hybrid retrieval at several K, evidence     *)
(* before and after the expansion, a generated answer and its judges, the   *)
(* answerability gate, both rerankers); each adds to the statistics, and    *)
(* the report prints their ratios after the last case.                      *)
(*                                                                          *)
(* Every search is a statement of its own, outside any transaction, and     *)
(* ingests may commit between two of them: a search returns any ranking of  *)
(* the rows that are ever stored, and the expansion any rows of the         *)
(* sections asked for.  A judge may answer anything; an answer is the       *)
(* sequence of its citations.  A call that fails, or a reply that does not  *)
(* parse, ends the run without a report.  Recall and precision are counted  *)
(* in units of 1/Unit, rounded down; wall times are left out.               *)
(***************************************************************************)
EXTENDS Fusion, Reranking

CONSTANTS Rows,             \* the chunks that are ever stored
          Datasets,         \* sequences of cases
          Configurations,   \* the switches a run may have
          Answers,          \* the answers the model may give
          CandidateK,       \* TOP_K
          FinalK,           \* FINAL_K
          Scores,           \* the lexical reranker's counts of shared words
          Unit              \* a recall of 1

Sections == {PairOf(d) : d \in Rows}

\* What a case expects: the sections that answer it, none when it cannot be
\* answered; the texts of evidence, each as the rows that contain it; and the
\* number of facts.
Cases == [expected : SUBSET Sections, evidence : SUBSET SUBSET Rows, facts : Nat]

\* A citation names a section, perhaps with a page that none of its rows has,
\* and may follow a claim.
Citations == [section : Sections, wrongPage : BOOLEAN, claim : BOOLEAN]

\* The ids of two rows differ.
ASSUME EvaluationAssumption ==
    /\ IsFiniteSet(Rows)
    /\ \A d \in Rows : d.serial \in Nat /\ d.index \in Nat
    /\ \A d, e \in Rows : d.serial = e.serial /\ d.index = e.index => d = e
    /\ Sections \subseteq DOMAIN Separated
    /\ Datasets \subseteq Seq(Cases)
    /\ Configurations \subseteq
         [rewrite : {"off", "only", "both"}, gate : BOOLEAN, judge : BOOLEAN,
          lexical : BOOLEAN, llm : BOOLEAN]
    /\ Answers \subseteq Seq(Citations)
    /\ CandidateK \in Nat \ {0} /\ FinalK \in Nat \ {0} /\ Unit \in Nat \ {0}
    /\ Scores \subseteq Nat

VARIABLES dataset, settings,    \* the inputs
          pc,                   \* the measurement that is due
          at,                   \* the case it is for
          kAt,                  \* baselines' loop over the K values
          rankings,             \* the rankings of the pipeline's searches
          fused, candidates,    \* fused at FinalK and at CandidateK
          expanded,             \* the rows of the expanded sections
          cited, claim,         \* the answer, and the loop over its citations
          stats                 \* what is counted

pipeline == <<rankings, fused, candidates, expanded>>
answer == <<cited, claim>>
vars == <<dataset, settings, pc, at, kAt, pipeline, answer, stats>>

------------------------------------------------------------------------------
(* The K values: 1, 2 and TOP_K, in order, each once.                        *)

retrievalKs(topK) ==
    IF topK = 1 THEN <<1, 2>> ELSE IF topK = 2 THEN <<1, 2>> ELSE <<1, 2, topK>>

ks == retrievalKs(CandidateK)

Case == dataset[at]

Answerable(n) == dataset[n].expected # {}

Queries == IF settings.rewrite = "both" THEN 2 ELSE 1

------------------------------------------------------------------------------
(* The measures of one ranking, and what a measurement adds to the counts.   *)

SectionsOf(docs) == {PairOf(d) : d \in docs}

Share(n, total) == IF total = 0 THEN 0 ELSE (n * Unit) \div total

recallAtK(expected, docs) ==
    Share(Cardinality(expected \cap SectionsOf(docs)), Cardinality(expected))

\* Section-based: the chunks of one section count once.
precisionAtK(expected, docs) ==
    Share(Cardinality({k \in DOMAIN docs : PairOf(docs[k]) \in expected}),
          Len(docs))

evidenceRecall(evidence, docs) ==
    Share(Cardinality({text \in evidence : text \cap docs # {}}),
          Cardinality(evidence))

Precision(docs) == precisionAtK(Case.expected, DeduplicateSections(docs))

Recall(docs) == recallAtK(Case.expected, Members(docs))

reportBaseline(s, k, docs) ==
    [s EXCEPT !.recall[k] = @ + Recall(docs),
              !.precision[k] = @ + Precision(docs)]

\* Only TOP_K's search counts as the rejection of the case.
reportRejection(s, k, docs) ==
    IF docs = <<>> /\ k = CandidateK
    THEN [s EXCEPT !.correctRejections = @ + 1] ELSE s

InKs == {ks[i] : i \in DOMAIN ks}

\* Faulty variant: what the pipeline cut at FINAL_K is reported for TOP_K.
reportFusedBaselinesFinal(s) ==
    LET hybrid == [k \in InKs |->
                     IF k = CandidateK THEN fused ELSE FuseRankings(rankings, k)]
    IN  [s EXCEPT
            !.hybridRecall = [k \in InKs |-> @[k] + Recall(hybrid[k])],
            !.hybridPrecision = [k \in InKs |-> @[k] + Precision(hybrid[k])]]

reportFusedBaselines(s) ==
    LET hybrid == [k \in InKs |-> FuseRankings(rankings, k)]
    IN  [s EXCEPT
            !.hybridRecall = [k \in InKs |-> @[k] + Recall(hybrid[k])],
            !.hybridPrecision = [k \in InKs |-> @[k] + Precision(hybrid[k])]]

reportEvidence(s, after) ==
    IF Case.evidence = {} THEN s
    ELSE [s EXCEPT
            !.evidenceBefore = @ + evidenceRecall(Case.evidence, Members(fused)),
            !.evidenceAfter = @ + evidenceRecall(Case.evidence, after),
            !.evidenceCases = @ + 1]

NoStats ==
    [recall |-> [k \in InKs |-> 0], precision |-> [k \in InKs |-> 0],
     hybridRecall |-> [k \in InKs |-> 0], hybridPrecision |-> [k \in InKs |-> 0],
     rerankRecall |-> 0, rerankPrecision |-> 0, lexicalCases |-> 0,
     llmRecall |-> 0, llmPrecision |-> 0, llmCases |-> 0, llmFallbacks |-> 0,
     answerable |-> 0, unanswerable |-> 0, correctRejections |-> 0,
     evidenceBefore |-> 0, evidenceAfter |-> 0, evidenceCases |-> 0,
     correctAccepts |-> 0, falseRejects |-> 0,
     correctRejects |-> 0, falseAccepts |-> 0,
     factsSupported |-> 0, factsTotal |-> 0,
     groundedAnswers |-> 0, answersJudged |-> 0,
     validCitations |-> 0, totalCitations |-> 0,
     entailedCitations |-> 0, judgedCitations |-> 0]

Init ==
    /\ dataset \in Datasets /\ settings \in Configurations
    /\ pc = "start"
    /\ at = 0 /\ kAt = 1
    /\ rankings = <<>> /\ fused = <<>> /\ candidates = <<>> /\ expanded = {}
    /\ cited = <<>> /\ claim = 1
    /\ stats = NoStats

------------------------------------------------------------------------------
(* The order of the measurements of a case.                                  *)

AfterLexical == IF Answerable(at) /\ settings.llm THEN "llm" ELSE "case"

AfterGate == IF Answerable(at) /\ settings.lexical THEN "lexical" ELSE AfterLexical

\* Faulty variant: the gate is behind the return for unanswerable cases.
AfterAnswerEarly ==
    IF settings.gate /\ Answerable(at) THEN "gate" ELSE AfterGate

AfterAnswer == IF settings.gate THEN "gate" ELSE AfterGate

AfterEvidence ==
    IF Answerable(at) /\ settings.judge /\ Case.facts > 0
    THEN "answer" ELSE AfterAnswer

\* The dataset and the configuration load, the database connects.
Start ==
    /\ pc = "start"
    /\ pc' = "case"
    /\ UNCHANGED <<dataset, settings, at, kAt, pipeline, answer, stats>>

\* The next case: its rewrite and embeddings, then it is counted.
BeginCase ==
    /\ pc = "case" /\ at < Len(dataset)
    /\ at' = at + 1
    /\ pc' = "baseline" /\ kAt' = 1
    /\ stats' = IF Answerable(at + 1)
                THEN [stats EXCEPT !.answerable = @ + 1]
                ELSE [stats EXCEPT !.unanswerable = @ + 1]
    /\ rankings' = <<>> /\ fused' = <<>> /\ candidates' = <<>>
    /\ expanded' = {} /\ cited' = <<>> /\ claim' = 1
    /\ UNCHANGED <<dataset, settings>>

RankingsUpTo(k) ==
    {r \in UNION {[1..n -> Rows] : n \in 0..k} :
        \A i, j \in DOMAIN r : r[i] = r[j] => i = j}

\* baselines: a vector search for the next K, cut at the similarity floor.
Baseline ==
    /\ pc = "baseline"
    /\ \E docs \in RankingsUpTo(ks[kAt]) :
         stats' = IF Answerable(at) THEN reportBaseline(stats, ks[kAt], docs)
                  ELSE reportRejection(stats, ks[kAt], docs)
    /\ kAt' = IF kAt < Len(ks) THEN kAt + 1 ELSE 1
    /\ pc' = IF kAt < Len(ks) THEN "baseline" ELSE "search"
    /\ UNCHANGED <<dataset, settings, at, pipeline, answer>>

\* The next search of HybridRetrieve or MultiQueryRetrieve.
Search ==
    /\ pc = "search"
    /\ \E r \in RankingsUpTo(CandidateK) :
         LET lists == Append(rankings, r)
         IN  /\ rankings' = lists
             /\ IF Len(lists) = 2 * Queries
                THEN /\ fused' = DeduplicateSections(FuseRankings(lists, FinalK))
                     /\ candidates' =
                          DeduplicateSections(FuseRankings(lists, CandidateK))
                     /\ pc' = "expand"
                ELSE UNCHANGED <<fused, candidates, pc>>
    /\ UNCHANGED <<dataset, settings, at, kAt, expanded, answer, stats>>

\* The expansion, then the reports on the fused rankings and the evidence.
Expand ==
    /\ pc = "expand"
    /\ expanded' \in SUBSET {d \in Rows : PairOf(d) \in SectionKeys(fused)}
    /\ stats' = IF Answerable(at)
                THEN reportEvidence(reportFusedBaselines(stats), expanded')
                ELSE stats
    /\ rankings' = <<>>
    /\ pc' = AfterEvidence
    /\ UNCHANGED <<dataset, settings, at, kAt, fused, candidates, answer>>

------------------------------------------------------------------------------
(* The generated answer and its judges.                                      *)

Answer ==
    /\ pc = "answer"
    /\ cited' \in Answers
    /\ pc' = "facts"
    /\ UNCHANGED <<dataset, settings, at, kAt, pipeline, claim, stats>>

\* The judge lists fact numbers; NONE is the empty list.
FactReplies(n) == UNION {[1..m -> 0..(n + 1)] : m \in 0..(n + 1)}

InRange(reply, n) == \A i \in DOMAIN reply : reply[i] \in 1..n

\* Faulty variant: repeated numbers count again.
parseSupportedFactsRepeated(reply) == Len(reply)

parseSupportedFacts(reply) == Cardinality({reply[i] : i \in DOMAIN reply})

JudgeFacts ==
    /\ pc = "facts"
    /\ \E reply \in FactReplies(Case.facts) :
         /\ InRange(reply, Case.facts)
         /\ stats' = [stats EXCEPT !.factsSupported = @ + parseSupportedFacts(reply),
                                   !.factsTotal = @ + Case.facts]
    /\ pc' = "grounded"
    /\ UNCHANGED <<dataset, settings, at, kAt, pipeline, answer>>

\* A decision: without documents the judge is not asked and says no.
Decisions == IF expanded = {} THEN {FALSE} ELSE BOOLEAN

Resolves(c) == c.section \in SectionsOf(expanded)

ValidCitations ==
    {k \in DOMAIN cited : Resolves(cited[k]) /\ ~cited[k].wrongPage}

\* IsGrounded, then citations.Validity.
JudgeGrounded ==
    /\ pc = "grounded"
    /\ \E grounded \in Decisions :
         stats' = [stats EXCEPT
                     !.answersJudged = @ + 1,
                     !.groundedAnswers = IF grounded THEN @ + 1 ELSE @,
                     !.validCitations = @ + Cardinality(ValidCitations),
                     !.totalCitations = @ + Len(cited)]
    /\ pc' = "entail"
    /\ UNCHANGED <<dataset, settings, at, kAt, pipeline, answer>>

\* A citation with a claim is judged by the rows of its section; without any
\* it is passed over.
Judged(k) == cited[k].claim /\ Resolves(cited[k])

JudgeClaim ==
    /\ pc = "entail" /\ claim \in DOMAIN cited
    /\ \/ /\ Judged(claim)
          /\ \E entailed \in BOOLEAN :
               stats' = [stats EXCEPT
                           !.judgedCitations = @ + 1,
                           !.entailedCitations = IF entailed THEN @ + 1 ELSE @]
       \/ /\ ~Judged(claim)
          /\ UNCHANGED stats
    /\ claim' = claim + 1
    /\ UNCHANGED <<dataset, settings, pc, at, kAt, pipeline, cited>>

EndClaims ==
    /\ pc = "entail" /\ claim \notin DOMAIN cited
    /\ pc' = AfterAnswer
    /\ UNCHANGED <<dataset, settings, at, kAt, pipeline, answer, stats>>

------------------------------------------------------------------------------
(* The gate and the rerankers.                                               *)

CheckAnswerability ==
    /\ pc = "gate"
    /\ \E predicted \in Decisions :
         stats' =
           IF Answerable(at)
           THEN IF predicted THEN [stats EXCEPT !.correctAccepts = @ + 1]
                ELSE [stats EXCEPT !.falseRejects = @ + 1]
           ELSE IF predicted THEN [stats EXCEPT !.falseAccepts = @ + 1]
                ELSE [stats EXCEPT !.correctRejects = @ + 1]
    /\ pc' = AfterGate
    /\ UNCHANGED <<dataset, settings, at, kAt, pipeline, answer>>

RerankLexically ==
    /\ pc = "lexical"
    /\ \E score \in [Members(candidates) -> Scores] :
         LET top == FirstOf(FinalK, RerankByWords(score, candidates))
         IN  stats' = [stats EXCEPT !.lexicalCases = @ + 1,
                                    !.rerankRecall = @ + Recall(top),
                                    !.rerankPrecision = @ + Precision(top)]
    /\ pc' = AfterLexical
    /\ UNCHANGED <<dataset, settings, at, kAt, pipeline, answer>>

\* The model's order, or the fused one when its call or its reply fails; no
\* call is made for no candidates, and that is not counted as a fallback.
RerankByModel ==
    /\ pc = "llm"
    /\ \E order \in Replies(Len(candidates)), fails \in BOOLEAN :
         LET ok  == parseRanking(order, Len(candidates)) /\ ~fails
             top == FirstOf(FinalK, IF ok THEN InOrder(order, candidates)
                                    ELSE candidates)
         IN  stats' = [stats EXCEPT
                         !.llmCases = @ + 1,
                         !.llmFallbacks = IF ok \/ candidates = <<>> THEN @ ELSE @ + 1,
                         !.llmRecall = @ + Recall(top),
                         !.llmPrecision = @ + Precision(top)]
    /\ pc' = "case"
    /\ UNCHANGED <<dataset, settings, at, kAt, pipeline, answer>>

\* A call to the model server or the database fails, or a judge's reply does
\* not parse.  The rerankers never fail.
Calls ==
    \/ pc \in {"start", "baseline", "search", "answer", "facts"}
    \/ pc = "case" /\ at < Len(dataset)
    \/ pc = "expand" /\ fused # <<>>
    \/ pc \in {"grounded", "gate"} /\ expanded # {}
    \/ pc = "entail" /\ claim \in DOMAIN cited /\ Judged(claim)

Fail ==
    /\ Calls
    /\ pc' = "failed"
    /\ UNCHANGED <<dataset, settings, at, kAt, pipeline, answer, stats>>

PrintOverall ==
    /\ pc = "case" /\ at = Len(dataset)
    /\ pc' = "reported"
    /\ UNCHANGED <<dataset, settings, at, kAt, pipeline, answer, stats>>

Ended == pc \in {"reported", "failed"} /\ UNCHANGED vars

Next ==
    \/ Start \/ BeginCase \/ Baseline \/ Search \/ Expand
    \/ Answer \/ JudgeFacts \/ JudgeGrounded \/ JudgeClaim \/ EndClaims
    \/ CheckAnswerability \/ RerankLexically \/ RerankByModel
    \/ Fail \/ PrintOverall \/ Ended

Spec == Init /\ [][Next]_vars

------------------------------------------------------------------------------
(* Properties.                                                               *)

Rate(part, whole) == [part |-> part, whole |-> whole]

\* The ratios printOverall prints, and those of its averages.
printOverall(s) ==
    (UNION {{Rate(s.recall[k], s.answerable * Unit),
             Rate(s.precision[k], s.answerable * Unit),
             Rate(s.hybridRecall[k], s.answerable * Unit),
             Rate(s.hybridPrecision[k], s.answerable * Unit)} : k \in InKs})
      \cup {Rate(s.evidenceBefore, s.evidenceCases * Unit),
            Rate(s.evidenceAfter, s.evidenceCases * Unit),
            Rate(s.rerankRecall, s.answerable * Unit),
            Rate(s.rerankPrecision, s.answerable * Unit),
            Rate(s.llmRecall, s.answerable * Unit),
            Rate(s.llmPrecision, s.answerable * Unit),
            Rate(s.llmFallbacks, s.llmCases),
            Rate(s.correctAccepts + s.falseRejects, s.answerable),
            Rate(s.correctRejects + s.falseAccepts, s.unanswerable),
            Rate(s.factsSupported, s.factsTotal),
            Rate(s.correctRejections, s.unanswerable),
            Rate(s.groundedAnswers, s.answersJudged),
            Rate(s.validCitations, s.totalCitations),
            Rate(s.judgedCitations, s.totalCitations),
            Rate(s.entailedCitations, s.judgedCitations)}

\* No average or ratio of the report exceeds 1, however often a K value, a
\* fact number or a citation is repeated and whatever is ingested meanwhile.
RatesWithinOne == \A r \in printOverall(stats) : r.part \in 0..r.whole

\* Of the first n cases: those that can be answered, those of them with a text
\* of evidence, and those with facts.
Answerables(n)  == {m \in 1..n : Answerable(m)}
WithEvidence(n) == {m \in Answerables(n) : dataset[m].evidence # {}}
WithFacts(n)    == {m \in Answerables(n) : dataset[m].facts > 0}

\* The report's totals are those of the dataset: every case went through every
\* measurement the settings ask for, once, and the averages divide by the
\* number of cases that were measured, whatever a case lacked.
EveryCaseMeasured ==
    pc = "reported" =>
      LET cases == Len(dataset)
          answerable == Cardinality(Answerables(cases))
      IN  /\ stats.answerable = answerable
          /\ stats.unanswerable = cases - answerable
          /\ stats.evidenceCases = Cardinality(WithEvidence(cases))
          /\ settings.gate =>
               /\ stats.correctAccepts + stats.falseRejects = answerable
               /\ stats.correctRejects + stats.falseAccepts = cases - answerable
          /\ settings.judge =>
               stats.answersJudged = Cardinality(WithFacts(cases))
          /\ settings.lexical => stats.lexicalCases = answerable
          /\ settings.llm => stats.llmCases = answerable

\* The recalls of one run agree, although ingests may commit meanwhile: that of
\* hybrid retrieval does not fall with K, its rankings being fused again for
\* every K from the same searches, and that of a reranker, whatever it orders
\* first, is at most that of the TOP_K candidates it was given.
RecallsAgree ==
    /\ \A i, j \in DOMAIN ks :
         i < j => stats.hybridRecall[ks[i]] <= stats.hybridRecall[ks[j]]
    /\ stats.rerankRecall <= stats.hybridRecall[CandidateK]
    /\ stats.llmRecall <= stats.hybridRecall[CandidateK]
==============================================================================
