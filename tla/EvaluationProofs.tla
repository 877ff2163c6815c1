--------------------------- MODULE EvaluationProofs ---------------------------
(***************************************************************************)
(* Proofs about Evaluation for any rows, datasets, settings, answers, TOP_K *)
(* and FINAL_K: no rate of the report exceeds 1, its totals are those of    *)
(* the dataset, and its recalls agree; and the rerankers only reorder.      *)
(*                                                                          *)
(* A case goes through its measurements one at a time, so each count is     *)
(* compared with the cases that are past its own measurement, not with the  *)
(* cases begun (Past); and a recall of candidates is in the hybrid recall   *)
(* before a reranker's recall of them is added (Pending).                   *)
(***************************************************************************)
EXTENDS Evaluation, FusionProofs

------------------------------------------------------------------------------
(* Counting the cases.                                                       *)

\* How many of the first n numbers are in a set.
Count(S, n) == Cardinality({m \in 1..n : m \in S})

\* Case by case the count grows by those in the set.
LEMMA CountNext ==
  ASSUME NEW S, NEW n \in Nat
  PROVE  /\ Count(S, 0) = 0
         /\ Count(S, n) \in 0..n
         /\ Count(S, n + 1) = IF n + 1 \in S THEN Count(S, n) + 1 ELSE Count(S, n)
<1> DEFINE First(k) == {m \in 1..k : m \in S}
<1>1. \A k \in Nat : IsFiniteSet(1..k) /\ Cardinality(1..k) = k
  BY FS_Interval
<1>2. \A k \in Nat : First(k) \in SUBSET (1..k)
  OBVIOUS
<1>3. IsFiniteSet(First(n)) /\ Cardinality(First(n)) <= n
  BY <1>1, <1>2, FS_Subset
<1>4. Cardinality(First(n)) \in Nat
  BY <1>3, FS_CardinalityType
<1>5. First(0) = {}
  OBVIOUS
<1>6. First(n + 1) = IF n + 1 \in S THEN First(n) \cup {n + 1} ELSE First(n)
  OBVIOUS
<1>7. n + 1 \notin First(n)
  OBVIOUS
<1> HIDE DEF First
<1>8. Cardinality(First(n) \cup {n + 1}) = Cardinality(First(n)) + 1
  BY <1>3, <1>7, FS_AddElement
<1>9. Cardinality(First(0)) = 0
  BY <1>5, FS_EmptySet
<1>10. \A k : Count(S, k) = Cardinality(First(k))
  BY DEF Count, First
<1> QED
  BY <1>3, <1>4, <1>6, <1>8, <1>9, <1>10

\* What that many measures of at most 1 come to at most.
Full(S, n) == Count(S, n) * Unit

\* The same in units: each of them adds 1.
LEMMA FullNext ==
  ASSUME NEW S, NEW n \in Nat
  PROVE  /\ Full(S, 0) = 0
         /\ Full(S, n) \in Nat
         /\ Full(S, n + 1) =
              IF n + 1 \in S THEN Full(S, n) + Unit ELSE Full(S, n)
<1>1. PICK c \in Nat : c = Count(S, n)
  BY CountNext
<1>2. Unit \in Nat
  BY EvaluationAssumption
<1>3. (c + 1) * Unit = c * Unit + Unit /\ c * Unit \in Nat /\ 0 * Unit = 0
  BY <1>2
<1> QED
  BY <1>1, <1>3, CountNext DEF Full

------------------------------------------------------------------------------
(* The measures of one ranking.                                              *)

\* A share is at most 1, and the larger the more it has.
LEMMA ShareBounds ==
  ASSUME NEW m \in Nat, NEW n \in Nat, NEW total \in Nat, m <= n, n <= total
  PROVE  Share(m, total) \in 0..Unit /\ Share(m, total) <= Share(n, total)
<1>1. PICK u \in Nat \ {0} : u = Unit
  BY EvaluationAssumption
<1>2. CASE total = 0
  BY <1>1, <1>2 DEF Share
<1>3. CASE total # 0
  <2>1. m * u <= n * u /\ n * u <= total * u /\ m * u \in Nat /\ n * u \in Nat
    BY <1>1
  <2>2. PICK a \in Nat, b \in Nat : a = m * u /\ b = n * u
    BY <2>1
  <2>3. PICK q \in Nat : q = a \div total
    BY <1>3
  <2>4. PICK r \in Nat : r = b \div total
    BY <1>3
  <2>5. q * total <= a /\ b < (r + 1) * total
    BY <1>3, <2>3, <2>4
  <2>6. q * total < (r + 1) * total /\ q * total <= u * total
    BY <2>1, <2>2, <2>5
  <2>7. q <= r /\ q <= u
    BY <1>3, <2>6
  <2> QED
    BY <1>1, <1>3, <2>2, <2>3, <2>4, <2>7 DEF Share
<1> QED
  BY <1>2, <1>3

\* The sections of some rows are finitely many.
LEMMA SectionsFinite ==
  ASSUME NEW docs \in SUBSET Rows
  PROVE  IsFiniteSet(SectionsOf(docs)) /\ SectionsOf(docs) \subseteq Sections
<1> DEFINE f == [d \in docs |-> PairOf(d)]
<1>1. IsFiniteSet(docs)
  BY EvaluationAssumption, FS_Subset
<1>2. f \in Surjection(docs, SectionsOf(docs))
  BY DEF Surjection, SectionsOf
<1> HIDE DEF f
<1>3. IsFiniteSet(SectionsOf(docs))
  BY <1>1, <1>2, FS_Surjection
<1> QED
  BY <1>3 DEF SectionsOf, Sections

\* A recall is at most 1, and does not fall with more documents.
LEMMA RecallBounds ==
  ASSUME NEW expected \in SUBSET Sections, NEW docs \in SUBSET Rows,
         NEW more \in SUBSET Rows, docs \subseteq more
  PROVE  /\ recallAtK(expected, docs) \in 0..Unit
         /\ recallAtK(expected, docs) <= recallAtK(expected, more)
<1> DEFINE found == expected \cap SectionsOf(docs)
           all == expected \cap SectionsOf(more)
<1>1. Sections = SectionsOf(Rows)
  BY DEF Sections, SectionsOf
<1>2. IsFiniteSet(expected)
  BY <1>1, SectionsFinite, FS_Subset
<1>3. SectionsOf(docs) \subseteq SectionsOf(more)
  BY DEF SectionsOf
<1>4. found \in SUBSET all /\ all \in SUBSET expected
  BY <1>3
<1> HIDE DEF found, all
<1>5. IsFiniteSet(all) /\ Cardinality(all) <= Cardinality(expected)
  BY <1>2, <1>4, FS_Subset
<1>6. IsFiniteSet(found) /\ Cardinality(found) <= Cardinality(all)
  BY <1>4, <1>5, FS_Subset
<1>7. /\ Cardinality(found) \in Nat /\ Cardinality(all) \in Nat
      /\ Cardinality(expected) \in Nat
  BY <1>2, <1>5, <1>6, FS_CardinalityType
<1>8. /\ Share(Cardinality(found), Cardinality(expected)) \in 0..Unit
      /\ Share(Cardinality(found), Cardinality(expected))
           <= Share(Cardinality(all), Cardinality(expected))
  BY <1>5, <1>6, <1>7, ShareBounds
<1> QED
  BY <1>8 DEF recallAtK, found, all

\* So is a precision.
LEMMA PrecisionBounds ==
  ASSUME NEW expected, NEW docs \in Seq(Rows)
  PROVE  precisionAtK(expected, DeduplicateSections(docs)) \in 0..Unit
<1>1. DeduplicateSections(docs) \in Seq(Rows)
  BY DeduplicatedRanking
<1>2. PICK list : list = DeduplicateSections(docs)
  OBVIOUS
<1> DEFINE right == {k \in DOMAIN list : PairOf(list[k]) \in expected}
<1>3. PICK n \in Nat : n = Len(list) /\ DOMAIN list = 1..n
  BY <1>1, <1>2
<1>4. right \in SUBSET (1..n)
  BY <1>3
<1> HIDE DEF right
<1>5. \A k \in Nat : IsFiniteSet(1..k) /\ Cardinality(1..k) = k
  BY FS_Interval
<1>6. IsFiniteSet(right) /\ Cardinality(right) <= n
  <2>1. IsFiniteSet(1..n) /\ Cardinality(1..n) = n
    BY <1>3, <1>5
  <2>2. IsFiniteSet(right) /\ Cardinality(right) <= Cardinality(1..n)
    BY <1>4, <2>1, FS_Subset
  <2> QED
    BY <2>1, <2>2
<1>7. Cardinality(right) \in Nat
  BY <1>6, FS_CardinalityType
<1>8. Share(Cardinality(right), n) \in 0..Unit
  BY <1>6, <1>7, ShareBounds
<1> QED
  BY <1>2, <1>3, <1>8 DEF precisionAtK, right

\* So is a recall of evidence.
LEMMA EvidenceBounds ==
  ASSUME NEW evidence \in SUBSET SUBSET Rows, NEW docs
  PROVE  evidenceRecall(evidence, docs) \in 0..Unit
<1> DEFINE found == {text \in evidence : text \cap docs # {}}
<1>1. IsFiniteSet(SUBSET Rows)
  BY EvaluationAssumption, FS_SUBSET
<1>2. IsFiniteSet(evidence)
  BY <1>1, FS_Subset
<1>3. found \in SUBSET evidence
  OBVIOUS
<1> HIDE DEF found
<1>4. IsFiniteSet(found) /\ Cardinality(found) <= Cardinality(evidence)
  BY <1>2, <1>3, FS_Subset
<1>5. Cardinality(found) \in Nat /\ Cardinality(evidence) \in Nat
  BY <1>2, <1>4, FS_CardinalityType
<1>6. Share(Cardinality(found), Cardinality(evidence)) \in 0..Unit
  BY <1>4, <1>5, ShareBounds
<1> QED
  BY <1>6 DEF evidenceRecall, found

------------------------------------------------------------------------------
(* The rerankers give back documents they were given.                        *)

\* The first documents of a ranking.
LEMMA FirstKeeps ==
  ASSUME NEW docs \in Seq(Rows), NEW k \in Nat
  PROVE  FirstOf(k, docs) \in Seq(Rows) /\ Members(FirstOf(k, docs)) \subseteq Members(docs)
<1>1. PICK n \in Nat : n = (IF k < Len(docs) THEN k ELSE Len(docs)) /\ n <= Len(docs)
  OBVIOUS
<1>2. FirstOf(k, docs) = [i \in 1..n |-> docs[i]]
  BY <1>1 DEF FirstOf
<1>3. \A i \in 1..n : i \in DOMAIN docs /\ docs[i] \in Rows
  BY <1>1
<1> QED
  BY <1>2, <1>3 DEF Members

\* A list is docs in another order: every place is taken, none twice.
Reordered(list, docs) ==
    \E place \in Bijection(DOMAIN docs, DOMAIN docs) :
        list = [i \in DOMAIN docs |-> docs[place[i]]]

\* Such a list has the same members.
LEMMA ReorderedKeeps ==
  ASSUME NEW docs \in Seq(Rows), NEW list, Reordered(list, docs)
  PROVE  list \in Seq(Rows) /\ Members(list) = Members(docs)
<1>1. PICK place \in [DOMAIN docs -> DOMAIN docs] :
        /\ \A k \in DOMAIN docs : \E i \in DOMAIN docs : place[i] = k
        /\ list = [i \in DOMAIN docs |-> docs[place[i]]]
  <2>1. PICK place \in Bijection(DOMAIN docs, DOMAIN docs) :
          list = [i \in DOMAIN docs |-> docs[place[i]]]
    BY DEF Reordered
  <2> QED
    BY <2>1 DEF Bijection, Surjection
<1>2. PICK n \in Nat : n = Len(docs) /\ DOMAIN docs = 1..n
  OBVIOUS
<1>3. \A i \in 1..n : place[i] \in 1..n /\ docs[place[i]] \in Rows
  BY <1>2
<1>4. DOMAIN list = 1..n /\ \A i \in 1..n : list[i] = docs[place[i]]
  BY <1>1, <1>2
<1>5. list \in Seq(Rows)
  BY <1>1, <1>2, <1>3
<1>6. Members(list) = Members(docs)
  <2>1. \A i \in 1..n : list[i] \in Members(docs)
    BY <1>2, <1>3, <1>4 DEF Members
  <2>2. \A k \in 1..n : docs[k] \in Members(list)
    <3>1. ASSUME NEW k \in 1..n PROVE docs[k] \in Members(list)
      <4>1. PICK i \in 1..n : place[i] = k
        BY <1>1, <1>2
      <4> QED
        BY <1>4, <4>1 DEF Members
    <3> QED
      BY <3>1
  <2> QED
    BY <1>2, <1>4, <2>1, <2>2 DEF Members
<1> QED
  BY <1>5, <1>6

\* The model's order, when its reply is accepted: as many numbers as documents,
\* none twice, so none is missing.
LEMMA InOrderReorders ==
  ASSUME NEW docs \in Seq(Rows), NEW order \in Replies(Len(docs)),
         parseRanking(order, Len(docs))
  PROVE  Reordered(InOrder(order, docs), docs)
<1>1. PICK n \in Nat : n = Len(docs) /\ DOMAIN docs = 1..n
  OBVIOUS
<1>2. DOMAIN order = 1..n /\ \A i \in 1..n : order[i] + 1 \in 1..n
  <2>1. \E m \in 0..(n + 1) : order \in [1..m -> -1..n]
    BY <1>1 DEF Replies
  <2>2. PICK m \in Nat : order \in [1..m -> -1..n]
    BY <2>1
  <2>3. Len(order) = m
    BY <2>2
  <2> QED
    BY <1>1, <2>2, <2>3 DEF parseRanking
<1>3. InOrder(order, docs) = [i \in 1..n |-> docs[order[i] + 1]]
  BY <1>2 DEF InOrder
<1>4. PICK place \in [1..n -> 1..n] : \A i \in 1..n : place[i] = order[i] + 1
  <2>1. [i \in 1..n |-> order[i] + 1] \in [1..n -> 1..n]
    BY <1>2
  <2> QED
    BY <2>1
<1>5. \A i, j \in 1..n : place[i] = place[j] => i = j
  <2> SUFFICES ASSUME NEW i \in 1..n, NEW j \in 1..n, place[i] = place[j] PROVE i = j
    OBVIOUS
  <2>1. order[i] \in Int /\ order[j] \in Int
    BY <1>1 DEF parseRanking
  <2>2. order[i] = order[j] => i = j
    BY <1>1 DEF parseRanking
  <2>3. order[i] + 1 = order[j] + 1
    BY <1>4
  <2>4. \A x, y \in Int : x + 1 = y + 1 => x = y
    OBVIOUS
  <2> QED
    BY <2>1, <2>2, <2>3, <2>4
<1>6. place \in Bijection(1..n, 1..n)
  <2>1. place \in Injection(1..n, 1..n)
    BY <1>5 DEF Injection, IsInjective
  <2>2. IsFiniteSet(1..n)
    BY <1>1, FS_Interval
  <2> QED
    BY <2>1, <2>2, FS_Injection DEF Bijection
<1>7. InOrder(order, docs) = [i \in 1..n |-> docs[place[i]]]
  BY <1>3, <1>4
<1> QED
  BY <1>1, <1>6, <1>7 DEF Reordered

\* By points, the given order among equals.
MorePoints(points, j, k) ==
    points[j] > points[k] \/ (points[j] = points[k] /\ j < k)

AheadBy(D, points) == {p \in D \X D : MorePoints(points, p[1], p[2])}

\* A pair is ahead as MorePoints says.
LEMMA AheadByIs ==
  ASSUME NEW D, NEW points, NEW j \in D, NEW k \in D
  PROVE  <<j, k>> \in AheadBy(D, points) <=> MorePoints(points, j, k)
BY DEF AheadBy

\* More points first, ties in the given order: a total order of the places.
LEMMA AheadByOrders ==
  ASSUME NEW n \in Nat, NEW points \in [1..n -> Nat]
  PROVE  /\ Orders(AheadBy(1..n, points), 1..n)
         /\ \A j, k \in 1..n :
              <<j, k>> \in AheadBy(1..n, points) <=> MorePoints(points, j, k)
<1>1. \A j, k \in 1..n : <<j, k>> \in AheadBy(1..n, points) <=> MorePoints(points, j, k)
  BY AheadByIs
<1>2. \A k \in 1..n : points[k] \in Nat /\ k \in Nat
  OBVIOUS
<1>3. \A d \in 1..n : ~MorePoints(points, d, d)
  BY <1>2 DEF MorePoints
<1>4. \A d, e \in 1..n :
        d # e => MorePoints(points, d, e) \/ MorePoints(points, e, d)
  BY <1>2 DEF MorePoints
<1>5. \A d, e, f \in 1..n :
        MorePoints(points, d, e) /\ MorePoints(points, e, f) => MorePoints(points, d, f)
  BY <1>2 DEF MorePoints
<1> QED
  BY <1>1, <1>3, <1>4, <1>5 DEF Orders

\* The lexical order: the numbers of the documents ahead are all different.
LEMMA ByWordsReorders ==
  ASSUME NEW docs \in Seq(Rows), NEW score \in [Members(docs) -> Scores]
  PROVE  Reordered(RerankByWords(score, docs), docs)
<1> DEFINE D == DOMAIN docs
           place == [k \in D |->
                       1 + Cardinality({j \in D :
                              \/ score[docs[j]] > score[docs[k]]
                              \/ score[docs[j]] = score[docs[k]] /\ j < k})]
           choice == [m \in D |-> CHOOSE k \in D : place[k] = m]
           points == [k \in D |-> score[docs[k]]]
           R == AheadBy(D, points)
<1>1. PICK n \in Nat : n = Len(docs) /\ D = 1..n
  OBVIOUS
<1>2. points \in [1..n -> Nat]
  BY <1>1, EvaluationAssumption DEF Members
<1>3. RerankByWords(score, docs) = [m \in D |-> docs[choice[m]]]
  BY DEF RerankByWords
<1>4. Orders(R, D) /\ \A j, k \in D : <<j, k>> \in R <=> MorePoints(points, j, k)
  <2> HIDE DEF points, D
  <2> QED
    BY <1>1, <1>2, AheadByOrders
<1>5. \A k \in D : place[k] = 1 + Cardinality(Earlier(R, D, k))
  <2> HIDE DEF R
  <2>1. \A k \in D : Earlier(R, D, k) = {j \in D :
                              \/ score[docs[j]] > score[docs[k]]
                              \/ score[docs[j]] = score[docs[k]] /\ j < k}
    BY <1>4 DEF Earlier, MorePoints
  <2> QED
    BY <2>1
<1>6. \A m \in D : choice[m] = CHOOSE k \in D : place[k] = m
  OBVIOUS
<1> HIDE DEF R, place, choice, D
<1>8. IsFiniteSet(D) /\ Cardinality(D) = n
  <2>1. \A m \in Nat : IsFiniteSet(1..m) /\ Cardinality(1..m) = m
    BY FS_Interval
  <2> QED
    BY <1>1, <2>1
<1>9. /\ \A d \in D : place[d] \in D
      /\ \A d, e \in D : place[d] = place[e] => d = e
      /\ \A m \in D : \E d \in D : place[d] = m
  <2>1. Orders(R, D)
    BY <1>4
  <2>2. IsFiniteSet(D)
    BY <1>8
  <2>3. /\ \A d \in D : place[d] \in 1..Cardinality(D)
        /\ \A d, e \in D : place[d] = place[e] => d = e
        /\ \A m \in 1..Cardinality(D) : \E d \in D : place[d] = m
    BY <1>5, <2>1, <2>2, Places
  <2> QED
    BY <1>1, <1>8, <2>3
<1>10. \A m \in D : choice[m] \in D /\ place[choice[m]] = m
  BY <1>6, <1>9
<1>11. choice \in [D -> D]
  BY <1>10 DEF choice
<1>12. \A i, j \in D : choice[i] = choice[j] => i = j
  BY <1>10
<1>13. \A k \in D : \E m \in D : choice[m] = k
  BY <1>9, <1>10
<1>14. choice \in Bijection(D, D)
  BY <1>11, <1>12, <1>13 DEF Bijection, Injection, IsInjective, Surjection
<1> QED
  BY <1>3, <1>14 DEF Reordered, D

\* Neither reranker loses a document or lists one twice: what cmd/rag and
\* cmd/eval go on with is what they gave it, in another order.
THEOREM RerankersReorder ==
  ASSUME NEW docs \in Seq(Rows)
  PROVE  /\ \A order \in Replies(Len(docs)) :
               parseRanking(order, Len(docs)) => Reordered(InOrder(order, docs), docs)
         /\ \A score \in [Members(docs) -> Scores] :
               Reordered(RerankByWords(score, docs), docs)
  BY InOrderReorders, ByWordsReorders
------------------------------------------------------------------------------
(* The inductive invariant.                                                  *)

\* The numbers of the cases that a measurement is for.
AnswerableCases == {n \in Nat : Answerable(n)}
EvidenceCases   == {n \in AnswerableCases : dataset[n].evidence # {}}
FactCases       == {n \in AnswerableCases : dataset[n].facts > 0}

\* Where a case may be before each of its measurements.
AwaitingExpansion == {"baseline", "search", "expand"}
AwaitingJudge     == AwaitingExpansion \cup {"answer", "facts", "grounded"}
AwaitingGate      == AwaitingJudge \cup {"entail", "gate"}
AwaitingLexical   == AwaitingGate \cup {"lexical"}
AwaitingLLM       == AwaitingLexical \cup {"llm"}

\* The cases that are past a measurement, and past the i-th baseline.
Past(awaiting) == IF pc \in awaiting THEN at - 1 ELSE at
PastBaseline(i) == IF pc = "baseline" /\ kAt <= i THEN at - 1 ELSE at

\* Where a run is: between the cases, or at a measurement that is due.
Phase ==
    /\ pc \in {"start", "case", "reported", "failed"} \cup AwaitingLLM
    /\ at \in 0..Len(dataset)
    /\ pc = "start" => at = 0
    /\ pc = "reported" => at = Len(dataset)
    /\ pc \in AwaitingLLM => at # 0
    /\ kAt \in DOMAIN ks
    /\ pc \in {"answer", "facts", "grounded", "entail"} =>
         Answerable(at) /\ settings.judge /\ Case.facts > 0
    /\ pc = "gate" => settings.gate
    /\ pc = "lexical" => Answerable(at) /\ settings.lexical
    /\ pc = "llm" => Answerable(at) /\ settings.llm

\* What the variables hold.
Typed ==
    /\ dataset \in Datasets /\ settings \in Configurations
    /\ rankings \in Seq(Seq(Rows))
    /\ fused \in Seq(Rows) /\ candidates \in Seq(Rows)
    /\ expanded \in SUBSET Rows
    /\ cited \in Seq(Citations)
    /\ claim \in Nat \ {0}
    /\ pc \in AwaitingJudge => claim = 1
    /\ pc = "entail" => claim <= Len(cited) + 1

Counters ==
    {"rerankRecall", "rerankPrecision", "lexicalCases",
     "llmRecall", "llmPrecision", "llmCases", "llmFallbacks",
     "answerable", "unanswerable", "correctRejections",
     "evidenceBefore", "evidenceAfter", "evidenceCases",
     "correctAccepts", "falseRejects", "correctRejects", "falseAccepts",
     "factsSupported", "factsTotal", "groundedAnswers", "answersJudged",
     "validCitations", "totalCitations", "entailedCitations", "judgedCitations"}

Measures == {"recall", "precision", "hybridRecall", "hybridPrecision"}

StatsTyped ==
    /\ DOMAIN stats = Counters \cup Measures
    /\ \A c \in Counters : stats[c] \in Nat
    /\ \A c \in Measures : stats[c] \in [InKs -> Nat]

\* Each case is counted once by every measurement it is past.
Counted ==
    /\ stats.answerable = Count(AnswerableCases, at)
    /\ stats.unanswerable = at - Count(AnswerableCases, at)
    /\ pc # "failed" =>
         /\ stats.evidenceCases = Count(EvidenceCases, Past(AwaitingExpansion))
         /\ settings.judge => stats.answersJudged = Count(FactCases, Past(AwaitingJudge))
         /\ settings.gate =>
              LET n == Past(AwaitingGate)
                  answerable == Count(AnswerableCases, n)
              IN  /\ stats.correctAccepts + stats.falseRejects = answerable
                  /\ stats.correctRejects + stats.falseAccepts = n - answerable
         /\ settings.lexical =>
              stats.lexicalCases = Count(AnswerableCases, Past(AwaitingLexical))
         /\ settings.llm =>
              stats.llmCases = Count(AnswerableCases, Past(AwaitingLLM))

\* Each recall and precision adds at most 1 for every case it was taken of.
RankingsBounded ==
    /\ \A i \in DOMAIN ks :
         /\ stats.recall[ks[i]] <= Full(AnswerableCases, PastBaseline(i))
         /\ stats.precision[ks[i]] <= Full(AnswerableCases, PastBaseline(i))
    /\ \A k \in InKs :
         /\ stats.hybridRecall[k] <= Full(AnswerableCases, Past(AwaitingExpansion))
         /\ stats.hybridPrecision[k] <= Full(AnswerableCases, Past(AwaitingExpansion))
    /\ stats.rerankRecall <= Full(AnswerableCases, Past(AwaitingLexical))
    /\ stats.rerankPrecision <= Full(AnswerableCases, Past(AwaitingLexical))
    /\ stats.llmRecall <= Full(AnswerableCases, Past(AwaitingLLM))
    /\ stats.llmPrecision <= Full(AnswerableCases, Past(AwaitingLLM))

\* What is counted of a whole is no more than the whole, the citations that
\* are still to be judged included.
Parts ==
    /\ stats.evidenceBefore <= stats.evidenceCases * Unit
    /\ stats.evidenceAfter <= stats.evidenceCases * Unit
    /\ stats.llmFallbacks <= stats.llmCases
    /\ stats.factsSupported <= stats.factsTotal
    /\ stats.groundedAnswers <= stats.answersJudged
    /\ stats.validCitations <= stats.totalCitations
    /\ stats.entailedCitations <= stats.judgedCitations
    /\ stats.judgedCitations + (IF pc = "entail" THEN Len(cited) + 1 - claim ELSE 0)
         <= stats.totalCitations

\* The decisions are of the cases past the gate and past TOP_K's search.
Decided ==
    /\ LET n == Past(AwaitingGate)
           answerable == Count(AnswerableCases, n)
       IN  /\ stats.correctAccepts + stats.falseRejects <= answerable
           /\ stats.correctRejects + stats.falseAccepts <= n - answerable
    /\ \A i \in DOMAIN ks :
         LET n == PastBaseline(i)
         IN  ks[i] = CandidateK =>
               stats.correctRejections <= n - Count(AnswerableCases, n)

\* The recall of the candidates of this case is in hybridRecall already, and
\* not yet in that of a reranker that is still to be measured.
Pending(awaiting) ==
    IF pc \in awaiting \ AwaitingExpansion /\ Answerable(at)
    THEN Recall(candidates) ELSE 0

Recalled ==
    /\ \A i, j \in DOMAIN ks :
         i < j => stats.hybridRecall[ks[i]] <= stats.hybridRecall[ks[j]]
    /\ stats.rerankRecall + Pending(AwaitingLexical) <= stats.hybridRecall[CandidateK]
    /\ stats.llmRecall + Pending(AwaitingLLM) <= stats.hybridRecall[CandidateK]
    /\ pc = "expand" =>
         Members(candidates) \subseteq Members(FuseRankings(rankings, CandidateK))

IInv ==
    /\ Phase /\ Typed /\ StatsTyped
    /\ Counted /\ RankingsBounded /\ Parts /\ Decided /\ Recalled

------------------------------------------------------------------------------
(* What the constants and the dataset are.                                   *)

\* The K values rise, and TOP_K is one of them.
LEMMA KsRise ==
  /\ Len(ks) \in Nat \ {0} /\ DOMAIN ks = 1..Len(ks)
  /\ \A i \in DOMAIN ks : ks[i] \in Nat \ {0} /\ ks[i] \in InKs
  /\ \A i, j \in DOMAIN ks : i < j => ks[i] < ks[j]
  /\ \E i \in DOMAIN ks : ks[i] = CandidateK
  /\ \A k \in InKs : \E i \in DOMAIN ks : ks[i] = k
<1>1. CandidateK \in Nat \ {0}
  BY EvaluationAssumption
<1>2. CASE CandidateK \in {1, 2}
  <2>1. ks = <<1, 2>>
    BY <1>2 DEF ks, retrievalKs
  <2> QED
    BY <1>2, <2>1 DEF InKs
<1>3. CASE CandidateK \notin {1, 2}
  <2>1. ks = <<1, 2, CandidateK>> /\ CandidateK > 2
    BY <1>1, <1>3 DEF ks, retrievalKs
  <2> QED
    BY <1>1, <2>1 DEF InKs
<1> QED
  BY <1>2, <1>3

\* What the cases of a dataset are.
LEMMA CaseTyped ==
  ASSUME dataset \in Datasets
  PROVE  /\ Len(dataset) \in Nat
         /\ \A n \in 1..Len(dataset) :
              /\ dataset[n].expected \in SUBSET Sections
              /\ dataset[n].evidence \in SUBSET SUBSET Rows
              /\ dataset[n].facts \in Nat
<1>1. dataset \in Seq(Cases)
  BY EvaluationAssumption
<1>2. Len(dataset) \in Nat /\ \A n \in 1..Len(dataset) : dataset[n] \in Cases
  BY <1>1
<1> QED
  BY <1>2 DEF Cases

\* The dataset is the same throughout a run.
LEMMA SameCases ==
  ASSUME dataset' = dataset
  PROVE  /\ AnswerableCases' = AnswerableCases /\ EvidenceCases' = EvidenceCases
         /\ FactCases' = FactCases
         /\ \A n : Answerable(n)' = Answerable(n)
<1>1. \A n : Answerable(n)' = Answerable(n)
  BY DEF Answerable
<1> QED
  BY <1>1 DEF AnswerableCases, EvidenceCases, FactCases

\* What the case in hand adds to the counts.
CaseCounted ==
    /\ Count(AnswerableCases, at - 1) \in 0..(at - 1)
    /\ Count(AnswerableCases, at) =
         IF Answerable(at) THEN Count(AnswerableCases, at - 1) + 1
         ELSE Count(AnswerableCases, at - 1)
    /\ Count(EvidenceCases, at - 1) \in Nat
    /\ Count(EvidenceCases, at) =
         IF Answerable(at) /\ Case.evidence # {}
         THEN Count(EvidenceCases, at - 1) + 1 ELSE Count(EvidenceCases, at - 1)
    /\ Count(FactCases, at - 1) \in Nat
    /\ Count(FactCases, at) =
         IF Answerable(at) /\ Case.facts > 0
         THEN Count(FactCases, at - 1) + 1 ELSE Count(FactCases, at - 1)
    /\ Full(AnswerableCases, at - 1) \in Nat
    /\ Full(AnswerableCases, at) =
         IF Answerable(at) THEN Full(AnswerableCases, at - 1) + Unit
         ELSE Full(AnswerableCases, at - 1)

\* What the case in hand adds, from the one before it.
LEMMA CaseCounts == ASSUME at \in Nat \ {0} PROVE CaseCounted
<1>1. PICK n \in Nat : n = at - 1 /\ n + 1 = at
  OBVIOUS
<1>2. /\ at \in AnswerableCases <=> Answerable(at)
      /\ at \in EvidenceCases <=> Answerable(at) /\ Case.evidence # {}
      /\ at \in FactCases <=> Answerable(at) /\ Case.facts > 0
  BY DEF AnswerableCases, EvidenceCases, FactCases, Case
<1>3. \A S : /\ Count(S, n) \in 0..n
             /\ Count(S, n + 1) = IF n + 1 \in S THEN Count(S, n) + 1 ELSE Count(S, n)
             /\ Full(S, n) \in Nat
             /\ Full(S, n + 1) = IF n + 1 \in S THEN Full(S, n) + Unit ELSE Full(S, n)
  BY CountNext, FullNext
<1> QED
  BY <1>1, <1>2, <1>3 DEF CaseCounted

\* As cases are counted, the counts rise.
Rises(m, n) ==
    /\ m \in Nat /\ n \in Nat
    /\ Full(AnswerableCases, m) \in Nat /\ Full(AnswerableCases, n) \in Nat
    /\ Full(AnswerableCases, m) <= Full(AnswerableCases, n)
    /\ Count(AnswerableCases, m) \in 0..m /\ Count(AnswerableCases, n) \in 0..n
    /\ Count(AnswerableCases, m) <= Count(AnswerableCases, n)
    /\ m - Count(AnswerableCases, m) <= n - Count(AnswerableCases, n)

\* From one case to the next, and at one case.
LEMMA RisesAt ==
  ASSUME at \in Nat
  PROVE  Rises(at, at) /\ (at # 0 => Rises(at - 1, at) /\ Rises(at - 1, at - 1))
<1>1. \A m \in Nat : /\ Full(AnswerableCases, m) \in Nat
                     /\ Count(AnswerableCases, m) \in 0..m
  BY FullNext, CountNext
<1>2. Rises(at, at)
  <2>1. Full(AnswerableCases, at) \in Nat /\ Count(AnswerableCases, at) \in 0..at
    BY <1>1
  <2>2. Count(AnswerableCases, at) \in Nat
    BY <2>1
  <2> QED
    BY <2>1, <2>2 DEF Rises
<1>3. at # 0 => CaseCounted /\ at - 1 \in Nat
  BY CaseCounts
<1>4. Unit \in Nat
  BY EvaluationAssumption
<1> QED
  BY <1>2, <1>3, <1>4 DEF CaseCounted, Rises

\* The counters are numbers.
LEMMA StatsNumbers ==
  ASSUME StatsTyped
  PROVE  /\ stats.rerankRecall \in Nat /\ stats.rerankPrecision \in Nat
         /\ stats.lexicalCases \in Nat /\ stats.llmRecall \in Nat
         /\ stats.llmPrecision \in Nat /\ stats.llmCases \in Nat
         /\ stats.llmFallbacks \in Nat /\ stats.answerable \in Nat
         /\ stats.unanswerable \in Nat /\ stats.correctRejections \in Nat
         /\ stats.evidenceBefore \in Nat /\ stats.evidenceAfter \in Nat
         /\ stats.evidenceCases \in Nat /\ stats.correctAccepts \in Nat
         /\ stats.falseRejects \in Nat /\ stats.correctRejects \in Nat
         /\ stats.falseAccepts \in Nat /\ stats.factsSupported \in Nat
         /\ stats.factsTotal \in Nat /\ stats.groundedAnswers \in Nat
         /\ stats.answersJudged \in Nat /\ stats.validCitations \in Nat
         /\ stats.totalCitations \in Nat /\ stats.entailedCitations \in Nat
         /\ stats.judgedCitations \in Nat
         /\ \A k \in InKs :
              /\ stats.recall[k] \in Nat /\ stats.precision[k] \in Nat
              /\ stats.hybridRecall[k] \in Nat /\ stats.hybridPrecision[k] \in Nat
<1>1. \A c \in Counters : stats[c] \in Nat
  BY DEF StatsTyped
<1>2. /\ stats.recall \in [InKs -> Nat] /\ stats.precision \in [InKs -> Nat]
      /\ stats.hybridRecall \in [InKs -> Nat] /\ stats.hybridPrecision \in [InKs -> Nat]
  BY DEF StatsTyped, Measures
<1> QED
  BY <1>1, <1>2 DEF Counters

------------------------------------------------------------------------------
(* The steps that count nothing.                                             *)

\* On to the next call of a case, past the measurements that are switched off
\* or not for this case, to the report or out of the run.
Moves ==
    \/ pc = "start" /\ pc' = "case"
    \/ pc = "search" /\ pc' \in {"search", "expand"}
    \/ pc = "answer" /\ pc' = "facts"
    \/ pc = "entail" /\ pc' = AfterAnswer /\ claim = Len(cited) + 1
    \/ pc = "case" /\ pc' = "reported"
    \/ pc' = "failed"

\* Such a step leaves the counts as they should be.
LEMMA MovesKeep ==
  ASSUME IInv, Moves, UNCHANGED <<dataset, settings, at, kAt, stats>>
  PROVE  Counted' /\ RankingsBounded' /\ Parts' /\ Decided'
<1>1. /\ AnswerableCases' = AnswerableCases /\ EvidenceCases' = EvidenceCases
      /\ FactCases' = FactCases
  BY SameCases
<1>2. at \in Nat /\ Len(dataset) \in Nat
  BY CaseTyped DEF IInv, Phase, Typed
<1>3. at # 0 => CaseCounted
  BY <1>2, CaseCounts
<1>4. pc \in AwaitingLLM => at # 0
  BY DEF IInv, Phase
<1>5. /\ pc' # "baseline" /\ pc' # "entail"
      /\ pc' \in AwaitingLexical => pc \in AwaitingLexical \/ pc = "start"
  BY DEF Moves, AfterAnswer, AfterGate, AfterLexical, AwaitingLexical, AwaitingGate,
     AwaitingJudge, AwaitingExpansion
<1> USE DEF AwaitingLLM, AwaitingLexical, AwaitingGate, AwaitingJudge, AwaitingExpansion, Past
<1>6. Counted'
  BY <1>1, <1>2, <1>3, <1>4 DEF Counted, IInv, Moves, CaseCounted, Phase,
     AfterAnswer, AfterGate, AfterLexical
<1>7. Rises(at, at) /\ (at # 0 => Rises(at - 1, at) /\ Rises(at - 1, at - 1))
  BY <1>2, RisesAt
<1>8. /\ \A i \in DOMAIN ks : Rises(PastBaseline(i), PastBaseline(i)')
      /\ Rises(Past(AwaitingExpansion), Past(AwaitingExpansion)')
      /\ Rises(Past(AwaitingGate), Past(AwaitingGate)')
      /\ Rises(Past(AwaitingLexical), Past(AwaitingLexical)')
      /\ Rises(Past(AwaitingLLM), Past(AwaitingLLM)')
  BY <1>4, <1>5, <1>7 DEF PastBaseline, Moves, AfterAnswer, AfterGate, AfterLexical
<1> USE DEF Rises
<1> HIDE DEF Past, AwaitingLLM, AwaitingLexical, AwaitingGate, AwaitingJudge, AwaitingExpansion
<1>9. RankingsBounded'
  <2>1. \A i \in DOMAIN ks : ks[i] \in InKs
    BY KsRise
  <2> QED
    BY <1>1, <1>8, <2>1, StatsNumbers DEF RankingsBounded, IInv
<1>10. Parts'
  <2>1. /\ stats.judgedCitations \in Nat /\ stats.totalCitations \in Nat
        /\ Len(cited) \in Nat /\ claim \in Nat
        /\ pc = "entail" => claim <= Len(cited) + 1
    BY StatsNumbers DEF IInv, Typed
  <2>2. stats.judgedCitations + (IF pc = "entail" THEN Len(cited) + 1 - claim ELSE 0)
          <= stats.totalCitations
    BY DEF IInv, Parts
  <2>3. stats.judgedCitations <= stats.totalCitations
    BY <2>1, <2>2
  <2> QED
    BY <1>5, <2>1, <2>3 DEF Parts, IInv
<1>11. Decided'
  BY <1>1, <1>8, StatsNumbers DEF Decided, IInv
<1> QED
  BY <1>6, <1>9, <1>10, <1>11

\* A search finds a ranking of the rows, and such rankings can be fused.
LEMMA FoundRanking ==
  ASSUME NEW k \in Nat, NEW r \in RankingsUpTo(k)
  PROVE  r \in Seq(Rows)
<1>1. PICK n \in Nat : r \in [1..n -> Rows]
  BY DEF RankingsUpTo
<1> QED
  BY <1>1

\* Rankings of rows can be fused: the ids of rows differ.
LEMMA RowsFusable ==
  ASSUME NEW lists \in Seq(Seq(Rows))
  PROVE  Fusable(lists, Rows)
<1>1. Documents(lists) \subseteq Rows
  BY DocumentsFinite
<1> QED
  BY <1>1, EvaluationAssumption DEF Fusable, Identified

\* What deduplication keeps was there.
LEMMA DeduplicatedMembers ==
  ASSUME NEW docs \in Seq(Rows)
  PROVE  /\ DeduplicateSections(docs) \in Seq(Rows)
         /\ Members(DeduplicateSections(docs)) \subseteq Members(docs)
<1>1. \A k \in DOMAIN DeduplicateSections(docs) :
        \E p \in DOMAIN docs : DeduplicateSections(docs)[k] = docs[p]
  BY DeduplicatedAbove
<1>2. DeduplicateSections(docs) \in Seq(Rows)
  BY DeduplicatedRanking
<1> QED
  BY <1>1, <1>2 DEF Members

\* The measures of a ranking of the case in hand.
LEMMA MeasuresTyped ==
  ASSUME Typed, Phase, at # 0, NEW docs \in Seq(Rows), NEW more \in Seq(Rows),
         Members(docs) \subseteq Members(more)
  PROVE  /\ Recall(docs) \in 0..Unit /\ Recall(docs) <= Recall(more)
         /\ Precision(docs) \in 0..Unit
<1>1. Case.expected \in SUBSET Sections
  BY CaseTyped DEF Typed, Phase, Case
<1>2. Members(docs) \in SUBSET Rows /\ Members(more) \in SUBSET Rows
  BY MembersFinite
<1>3. /\ recallAtK(Case.expected, Members(docs)) \in 0..Unit
      /\ recallAtK(Case.expected, Members(docs)) <= recallAtK(Case.expected, Members(more))
  BY <1>1, <1>2, RecallBounds
<1> QED
  BY <1>3, PrecisionBounds DEF Recall, Precision

\* A quiet step keeps the recalls' relation when it keeps the candidates.
LEMMA MovesRecalled ==
  ASSUME IInv, Moves, UNCHANGED <<dataset, settings, at, stats, candidates>>,
         pc' # "expand"
  PROVE  Recalled'
<1>1. Recall(candidates)' = Recall(candidates)
  BY DEF Recall, Case
<1>2. Answerable(at)' = Answerable(at)
  BY DEF Answerable
<1>3. pc \in AwaitingLLM => Recall(candidates) \in Nat
  <2> SUFFICES ASSUME pc \in AwaitingLLM PROVE Recall(candidates) \in Nat
    OBVIOUS
  <2>1. Recall(candidates) \in 0..Unit
    BY MeasuresTyped DEF IInv, Phase, Typed
  <2> QED
    BY <2>1, EvaluationAssumption
<1>4. \/ Pending(AwaitingLexical)' = Pending(AwaitingLexical)
      \/ Pending(AwaitingLexical)' = 0 /\ Pending(AwaitingLexical) \in Nat
  BY <1>1, <1>2, <1>3 DEF Pending, Moves, AfterAnswer, AfterGate, AfterLexical,
     AwaitingLLM, AwaitingLexical, AwaitingGate, AwaitingJudge, AwaitingExpansion
<1>5. \/ Pending(AwaitingLLM)' = Pending(AwaitingLLM)
      \/ Pending(AwaitingLLM)' = 0 /\ Pending(AwaitingLLM) \in Nat
  BY <1>1, <1>2, <1>3 DEF Pending, Moves, AfterAnswer, AfterGate, AfterLexical,
     AwaitingLLM, AwaitingLexical, AwaitingGate, AwaitingJudge, AwaitingExpansion
<1>6. CandidateK \in InKs
  BY KsRise
<1>7. /\ stats.rerankRecall \in Nat /\ stats.llmRecall \in Nat
      /\ stats.hybridRecall[CandidateK] \in Nat
  BY <1>6, StatsNumbers DEF IInv
<1> QED
  BY <1>4, <1>5, <1>7 DEF Recalled, IInv

\* Start, Answer, EndClaims, Fail and PrintOverall.
LEMMA QuietStep ==
  ASSUME IInv, Start \/ Answer \/ EndClaims \/ Fail \/ PrintOverall
  PROVE  IInv'
<1> USE DEF AwaitingLLM, AwaitingLexical, AwaitingGate, AwaitingJudge, AwaitingExpansion
<1>1. /\ UNCHANGED <<dataset, settings, at, kAt, stats, rankings, fused, candidates>>
      /\ UNCHANGED <<expanded, claim>> /\ pc' # "expand"
      /\ Answer \/ UNCHANGED cited
  BY DEF Start, Answer, EndClaims, Fail, PrintOverall, AfterAnswer, AfterGate,
     AfterLexical, pipeline, answer
<1>2. cited \in Seq(Citations) /\ Len(cited) \in Nat /\ claim \in Nat
  BY DEF IInv, Typed
<1>3. Moves
  <2>1. EndClaims => claim = Len(cited) + 1
    BY <1>2 DEF EndClaims, IInv, Typed
  <2> QED
    BY <2>1 DEF Start, Answer, EndClaims, Fail, PrintOverall, Moves
<1>4. Counted' /\ RankingsBounded' /\ Parts' /\ Decided'
  BY <1>1, <1>3, MovesKeep
<1>5. Recalled'
  BY <1>1, <1>3, MovesRecalled
<1>6. StatsTyped'
  BY <1>1 DEF IInv, StatsTyped
<1>7. Phase'
  BY <1>1 DEF IInv, Phase, Start, Answer, EndClaims, Fail, PrintOverall,
     AfterAnswer, AfterGate, AfterLexical, Answerable, Case
<1>8. Typed'
  BY <1>1, EvaluationAssumption DEF IInv, Typed, Start, Answer, EndClaims, Fail,
     PrintOverall, AfterAnswer, AfterGate, AfterLexical
<1> QED
  BY <1>4, <1>5, <1>6, <1>7, <1>8 DEF IInv

\* A search counts nothing; the last one fuses the candidates.
LEMMA SearchStep == ASSUME IInv, Search PROVE IInv'
<1> USE DEF AwaitingLLM, AwaitingLexical, AwaitingGate, AwaitingJudge, AwaitingExpansion
<1>1. /\ pc = "search" /\ pc' \in {"search", "expand"}
      /\ UNCHANGED <<dataset, settings, at, kAt, expanded, cited, claim, stats>>
  BY DEF Search, answer
<1>2. PICK r \in RankingsUpTo(CandidateK) :
        /\ rankings' = Append(rankings, r)
        /\ \/ /\ fused' = DeduplicateSections(FuseRankings(rankings', FinalK))
              /\ candidates' = DeduplicateSections(FuseRankings(rankings', CandidateK))
           \/ /\ UNCHANGED <<fused, candidates, pc>>
  BY DEF Search
<1>3. CandidateK \in Nat /\ FinalK \in Nat
  BY EvaluationAssumption
<1>4. r \in Seq(Rows)
  BY <1>3, FoundRanking
<1>5. rankings' \in Seq(Seq(Rows))
  BY <1>2, <1>4 DEF IInv, Typed
<1>6. /\ FuseRankings(rankings', FinalK) \in Seq(Rows)
      /\ FuseRankings(rankings', CandidateK) \in Seq(Rows)
  BY <1>3, <1>5, RowsFusable, FusedRanking
<1>7. /\ fused' \in Seq(Rows) /\ candidates' \in Seq(Rows)
      /\ pc' = "expand" =>
           Members(candidates') \subseteq Members(FuseRankings(rankings', CandidateK))
  BY <1>1, <1>2, <1>6, DeduplicatedMembers DEF IInv, Typed
<1>8. Counted' /\ RankingsBounded' /\ Parts' /\ Decided'
  BY <1>1, MovesKeep DEF Moves
<1>9. Recalled'
  BY <1>1, <1>7 DEF IInv, Recalled, Pending
<1>10. StatsTyped'
  BY <1>1 DEF IInv, StatsTyped
<1>11. Phase'
  BY <1>1 DEF IInv, Phase, Answerable, Case
<1>12. Typed'
  BY <1>1, <1>5, <1>7 DEF IInv, Typed
<1> QED
  BY <1>8, <1>9, <1>10, <1>11, <1>12 DEF IInv

------------------------------------------------------------------------------
(* The next case.                                                            *)

\* The next case is counted as answerable or not, and is past no measurement.
LEMMA BeginCaseStep == ASSUME IInv, BeginCase PROVE IInv'
<1> USE DEF AwaitingLLM, AwaitingLexical, AwaitingGate, AwaitingJudge, AwaitingExpansion
<1>1. /\ pc = "case" /\ pc' = "baseline" /\ at < Len(dataset) /\ at' = at + 1
      /\ kAt' = 1 /\ rankings' = <<>> /\ fused' = <<>> /\ candidates' = <<>>
      /\ expanded' = {} /\ cited' = <<>> /\ claim' = 1
      /\ UNCHANGED <<dataset, settings>>
  BY DEF BeginCase
<1>2. at \in Nat /\ Len(dataset) \in Nat /\ DOMAIN stats = Counters \cup Measures
  BY CaseTyped DEF IInv, Phase, Typed, StatsTyped
<1>3. /\ DOMAIN stats' = DOMAIN stats
      /\ \A c \in (Counters \cup Measures) \ {"answerable", "unanswerable"} :
           stats'[c] = stats[c]
      /\ stats'.answerable =
           IF Answerable(at + 1) THEN stats.answerable + 1 ELSE stats.answerable
      /\ stats'.unanswerable =
           IF Answerable(at + 1) THEN stats.unanswerable ELSE stats.unanswerable + 1
  BY <1>2 DEF BeginCase, Counters, Measures
<1>4. /\ AnswerableCases' = AnswerableCases /\ EvidenceCases' = EvidenceCases
      /\ FactCases' = FactCases
  BY <1>1, SameCases
<1>5. /\ Past(AwaitingExpansion)' = at /\ Past(AwaitingExpansion) = at
      /\ Past(AwaitingJudge)' = at /\ Past(AwaitingJudge) = at
      /\ Past(AwaitingGate)' = at /\ Past(AwaitingGate) = at
      /\ Past(AwaitingLexical)' = at /\ Past(AwaitingLexical) = at
      /\ Past(AwaitingLLM)' = at /\ Past(AwaitingLLM) = at
  BY <1>1, <1>2 DEF Past
<1>6. \A i \in DOMAIN ks : PastBaseline(i)' = at /\ PastBaseline(i) = at
  BY <1>1, <1>2, KsRise DEF PastBaseline
<1>7. Count(AnswerableCases, at + 1) =
        IF Answerable(at + 1) THEN Count(AnswerableCases, at) + 1
        ELSE Count(AnswerableCases, at)
  <2>1. at + 1 \in AnswerableCases <=> Answerable(at + 1)
    BY <1>2 DEF AnswerableCases
  <2> QED
    BY <1>2, <2>1, CountNext
<1> HIDE DEF AwaitingLLM, AwaitingLexical, AwaitingGate, AwaitingJudge, AwaitingExpansion
<1>8. Counted'
  <2>1. stats.answerable \in Nat /\ stats.unanswerable \in Nat
    BY StatsNumbers DEF IInv
  <2>2. Count(AnswerableCases, at) \in 0..at
    BY <1>2, CountNext
  <2> QED
    BY <1>1, <1>2, <1>3, <1>4, <1>5, <1>7, <2>1, <2>2
    DEF Counted, IInv, Counters, Measures
<1>9. RankingsBounded'
  BY <1>3, <1>4, <1>5, <1>6 DEF RankingsBounded, IInv, Counters, Measures
<1>10. Parts'
  BY <1>1, <1>3 DEF Parts, IInv, Counters, Measures
<1>11. Decided'
  BY <1>3, <1>4, <1>5, <1>6 DEF Decided, IInv, Counters, Measures
<1>12. Recalled'
  <2>1. /\ Pending(AwaitingLexical) = 0 /\ Pending(AwaitingLexical)' = 0
        /\ Pending(AwaitingLLM) = 0 /\ Pending(AwaitingLLM)' = 0
    BY <1>1 DEF Pending, AwaitingExpansion, AwaitingLLM, AwaitingLexical,
       AwaitingGate, AwaitingJudge
  <2> QED
    BY <1>1, <1>3, <2>1 DEF Recalled, IInv, Counters, Measures
<1>13. StatsTyped'
  <2>1. stats'.answerable \in Nat /\ stats'.unanswerable \in Nat
    BY <1>3, StatsNumbers DEF IInv
  <2> QED
    BY <1>2, <1>3, <2>1 DEF StatsTyped, IInv, Counters, Measures
<1>14. Phase'
  BY <1>1, <1>2, KsRise DEF IInv, Phase, AwaitingExpansion, AwaitingLLM,
     AwaitingLexical, AwaitingGate, AwaitingJudge
<1>15. Typed'
  BY <1>1, <1>2 DEF IInv, Typed, AwaitingJudge, AwaitingExpansion
<1> QED
  BY <1>8, <1>9, <1>10, <1>11, <1>12, <1>13, <1>14, <1>15 DEF IInv

------------------------------------------------------------------------------
(* The baselines.                                                            *)

\* A baseline adds to the recall and precision of its K only.
LEMMA BaselineStep == ASSUME IInv, Baseline PROVE IInv'
<1> USE DEF AwaitingLLM, AwaitingLexical, AwaitingGate, AwaitingJudge, AwaitingExpansion
<1> DEFINE k == ks[kAt]
           Touched == {"recall", "precision", "correctRejections"}
<1>1. /\ pc = "baseline" /\ pc' \in {"baseline", "search"}
      /\ kAt' = IF kAt < Len(ks) THEN kAt + 1 ELSE 1
      /\ pc' = IF kAt < Len(ks) THEN "baseline" ELSE "search"
      /\ UNCHANGED <<dataset, settings, at, rankings, fused, candidates, expanded,
                     cited, claim>>
  BY DEF Baseline, pipeline, answer
<1>2. /\ at \in Nat \ {0} /\ Len(dataset) \in Nat
      /\ DOMAIN stats = Counters \cup Measures
  BY <1>1, CaseTyped DEF IInv, Phase, Typed, StatsTyped
<1>3. kAt \in DOMAIN ks /\ k \in Nat /\ k \in InKs
  BY KsRise DEF IInv, Phase
<1>4. PICK docs \in RankingsUpTo(k) :
        stats' = IF Answerable(at) THEN reportBaseline(stats, k, docs)
                 ELSE reportRejection(stats, k, docs)
  BY DEF Baseline
<1>5. docs \in Seq(Rows)
  BY <1>3, <1>4, FoundRanking
<1>6. Recall(docs) \in 0..Unit /\ Precision(docs) \in 0..Unit
  BY <1>2, <1>5, MeasuresTyped DEF IInv
<1>7. /\ DOMAIN stats' = DOMAIN stats
      /\ \A c \in (Counters \cup Measures) \ Touched : stats'[c] = stats[c]
  BY <1>2, <1>4 DEF Counters, Measures, reportBaseline, reportRejection
<1>8. /\ stats.recall \in [InKs -> Nat] /\ stats.precision \in [InKs -> Nat]
      /\ stats.correctRejections \in Nat
  BY DEF IInv, StatsTyped, Measures, Counters
<1>9. /\ DOMAIN stats'.recall = InKs /\ DOMAIN stats'.precision = InKs
      /\ stats'.recall[k] =
           IF Answerable(at) THEN stats.recall[k] + Recall(docs) ELSE stats.recall[k]
      /\ stats'.precision[k] =
           IF Answerable(at) THEN stats.precision[k] + Precision(docs)
           ELSE stats.precision[k]
      /\ \A j \in InKs \ {k} : /\ stats'.recall[j] = stats.recall[j]
                               /\ stats'.precision[j] = stats.precision[j]
      /\ stats'.correctRejections \in {stats.correctRejections, stats.correctRejections + 1}
      /\ stats'.correctRejections # stats.correctRejections =>
           ~Answerable(at) /\ k = CandidateK
  <2>1. CASE Answerable(at)
    <3>1. /\ stats'.correctRejections = stats.correctRejections
          /\ stats'.recall = [stats.recall EXCEPT ![k] = @ + Recall(docs)]
          /\ stats'.precision = [stats.precision EXCEPT ![k] = @ + Precision(docs)]
      BY <1>2, <1>4, <2>1 DEF Counters, Measures, reportBaseline
    <3> HIDE DEF k
    <3> QED
      BY <1>3, <1>8, <2>1, <3>1
  <2>2. CASE ~Answerable(at)
    BY <1>2, <1>4, <1>8, <2>2 DEF Counters, Measures, reportRejection
  <2> QED
    BY <2>1, <2>2
<1>10. /\ AnswerableCases' = AnswerableCases /\ EvidenceCases' = EvidenceCases
       /\ FactCases' = FactCases /\ Answerable(at)' = Answerable(at)
  BY <1>1, SameCases DEF Answerable
<1>11. /\ Past(AwaitingExpansion)' = Past(AwaitingExpansion)
       /\ Past(AwaitingJudge)' = Past(AwaitingJudge)
       /\ Past(AwaitingGate)' = Past(AwaitingGate)
       /\ Past(AwaitingLexical)' = Past(AwaitingLexical)
       /\ Past(AwaitingLLM)' = Past(AwaitingLLM)
  BY <1>1 DEF Past
<1>12. /\ \A i \in DOMAIN ks : i = kAt =>
             PastBaseline(i) = at - 1 /\ PastBaseline(i)' = at
       /\ \A i \in DOMAIN ks \ {kAt} : PastBaseline(i)' = PastBaseline(i)
  <2>1. \A i \in DOMAIN ks \ {kAt} : PastBaseline(i)' = PastBaseline(i)
    BY <1>1, <1>3, KsRise DEF PastBaseline
  <2>2. \A i \in DOMAIN ks : i = kAt => PastBaseline(i) = at - 1
    BY <1>1, <1>3, KsRise DEF PastBaseline
  <2>3. \A i \in DOMAIN ks : i = kAt => PastBaseline(i)' = at
    BY <1>1, <1>3, KsRise DEF PastBaseline
  <2> QED
    BY <1>3, <2>1, <2>2, <2>3
<1>13. \A i \in DOMAIN ks : ks[i] \in InKs /\ (i # kAt => ks[i] # k)
  BY <1>3, KsRise
<1>14. CaseCounted
  BY <1>2, CaseCounts
<1> HIDE DEF AwaitingLLM, AwaitingLexical, AwaitingGate, AwaitingJudge, AwaitingExpansion, k
<1>15. Counted'
  BY <1>1, <1>7, <1>10, <1>11 DEF Counted, IInv, Counters, Measures
<1>16. RankingsBounded'
  <2>1. /\ stats.recall[k] \in Nat /\ stats.precision[k] \in Nat /\ Unit \in Nat
        /\ stats.recall[k] <= Full(AnswerableCases, at - 1)
        /\ stats.precision[k] <= Full(AnswerableCases, at - 1)
    BY <1>3, <1>8, <1>12, EvaluationAssumption DEF IInv, RankingsBounded, k
  <2>2. /\ stats'.recall[k] <= Full(AnswerableCases, at)
        /\ stats'.precision[k] <= Full(AnswerableCases, at)
    BY <1>6, <1>9, <1>14, <2>1 DEF CaseCounted
  <2>3. ASSUME NEW i \in DOMAIN ks
        PROVE  /\ stats'.recall[ks[i]] <= Full(AnswerableCases, PastBaseline(i)')
               /\ stats'.precision[ks[i]] <= Full(AnswerableCases, PastBaseline(i)')
    <3>1. CASE i = kAt
      BY <1>12, <2>2, <3>1 DEF k
    <3>2. CASE i # kAt
      BY <1>9, <1>12, <1>13, <3>2 DEF IInv, RankingsBounded
    <3> QED
      BY <3>1, <3>2
  <2> QED
    BY <1>7, <1>10, <1>11, <2>3 DEF RankingsBounded, IInv, Counters, Measures
<1>17. Parts'
  BY <1>1, <1>7 DEF Parts, IInv, Counters, Measures
<1>18. Decided'
  <2>1. ASSUME NEW i \in DOMAIN ks, ks[i] = CandidateK
        PROVE  stats'.correctRejections
                 <= PastBaseline(i)' - Count(AnswerableCases, PastBaseline(i)')
    <3>1. CASE i = kAt
      <4>1. stats.correctRejections <= at - 1 - Count(AnswerableCases, at - 1)
        BY <1>12, <2>1, <3>1 DEF IInv, Decided
      <4>2. stats'.correctRejections <= at - Count(AnswerableCases, at)
        BY <1>2, <1>8, <1>9, <1>14, <4>1 DEF CaseCounted
      <4> QED
        BY <1>12, <3>1, <4>2
    <3>2. CASE i # kAt
      <4>1. stats'.correctRejections = stats.correctRejections
        BY <1>9, <1>13, <2>1, <3>2
      <4> QED
        BY <1>12, <2>1, <3>2, <4>1 DEF IInv, Decided
    <3> QED
      BY <3>1, <3>2
  <2> QED
    BY <1>7, <1>10, <1>11, <2>1 DEF Decided, IInv, Counters, Measures
<1>19. Recalled'
  <2>1. /\ Pending(AwaitingLexical) = 0 /\ Pending(AwaitingLexical)' = 0
        /\ Pending(AwaitingLLM) = 0 /\ Pending(AwaitingLLM)' = 0
    BY <1>1 DEF Pending, AwaitingExpansion, AwaitingLLM, AwaitingLexical,
       AwaitingGate, AwaitingJudge
  <2> QED
    BY <1>1, <1>7, <2>1 DEF Recalled, IInv, Counters, Measures
<1>20. StatsTyped'
  <2>1. \A j \in InKs : stats'.recall[j] \in Nat /\ stats'.precision[j] \in Nat
    BY <1>6, <1>8, <1>9, EvaluationAssumption
  <2>2. /\ stats'.recall = [j \in InKs |-> stats'.recall[j]]
        /\ stats'.precision = [j \in InKs |-> stats'.precision[j]]
    BY <1>2, <1>4, <1>8 DEF Counters, Measures, reportBaseline, reportRejection
  <2>3. stats'.recall \in [InKs -> Nat] /\ stats'.precision \in [InKs -> Nat]
    BY <2>1, <2>2
  <2>4. stats'.correctRejections \in Nat
    BY <1>8, <1>9
  <2> QED
    BY <1>2, <1>7, <2>3, <2>4 DEF StatsTyped, IInv, Counters, Measures
<1>21. Phase'
  BY <1>1, <1>2, <1>3, KsRise DEF IInv, Phase, AwaitingExpansion, AwaitingLLM,
     AwaitingLexical, AwaitingGate, AwaitingJudge
<1>22. Typed'
  BY <1>1, <1>2 DEF IInv, Typed, AwaitingJudge, AwaitingExpansion
<1> QED
  BY <1>15, <1>16, <1>17, <1>18, <1>19, <1>20, <1>21, <1>22 DEF IInv

------------------------------------------------------------------------------
(* The expansion, and the reports on the fused rankings.                     *)

\* A longer fusion holds the shorter one.
LEMMA FusedGrows ==
  ASSUME NEW lists \in Seq(Seq(Rows)), NEW k \in Nat, NEW l \in Nat, k <= l
  PROVE  /\ FuseRankings(lists, k) \in Seq(Rows) /\ FuseRankings(lists, l) \in Seq(Rows)
         /\ Members(FuseRankings(lists, k)) \subseteq Members(FuseRankings(lists, l))
<1>1. Fusable(lists, Rows)
  BY RowsFusable
<1>2. PICK n \in Nat : \E all \in [1..n -> Documents(lists)] : FusesFrom(all, n, lists)
  BY <1>1, FusedFirst
<1>3. PICK all \in [1..n -> Documents(lists)] : FusesFrom(all, n, lists)
  BY <1>2
<1>4. /\ FuseRankings(lists, k) = [i \in 1..(IF k < n THEN k ELSE n) |-> all[i]]
      /\ FuseRankings(lists, l) = [i \in 1..(IF l < n THEN l ELSE n) |-> all[i]]
  BY <1>3 DEF FusesFrom
<1>5. FuseRankings(lists, k) \in Seq(Rows) /\ FuseRankings(lists, l) \in Seq(Rows)
  BY <1>1, FusedRanking
<1>6. PICK m \in Nat, o \in Nat :
        /\ m = (IF k < n THEN k ELSE n) /\ o = (IF l < n THEN l ELSE n) /\ m <= o
  OBVIOUS
<1>7. /\ DOMAIN FuseRankings(lists, k) = 1..m /\ DOMAIN FuseRankings(lists, l) = 1..o
      /\ \A i \in 1..m : FuseRankings(lists, k)[i] = FuseRankings(lists, l)[i]
  BY <1>4, <1>6
<1> QED
  BY <1>5, <1>6, <1>7 DEF Members

\* The fused rankings add to the hybrid measures at every K, the candidates at TOP_K.
LEMMA ExpandStep == ASSUME IInv, Expand PROVE IInv'
<1> USE DEF AwaitingLLM, AwaitingLexical, AwaitingGate, AwaitingJudge, AwaitingExpansion
<1> DEFINE Touched == {"hybridRecall", "hybridPrecision", "evidenceBefore",
                       "evidenceAfter", "evidenceCases"}
           added(k) == Recall(FuseRankings(rankings, k))
           addedP(k) == Precision(FuseRankings(rankings, k))
           hybrid == [k \in InKs |-> FuseRankings(rankings, k)]
           before == evidenceRecall(Case.evidence, Members(fused))
           after == evidenceRecall(Case.evidence, expanded')
<1>1. /\ pc = "expand" /\ pc' = AfterEvidence
      /\ UNCHANGED <<dataset, settings, at, kAt, fused, candidates, cited, claim>>
      /\ rankings' = <<>> /\ expanded' \in SUBSET Rows
  BY DEF Expand, answer
<1>2. /\ at \in Nat \ {0} /\ Len(dataset) \in Nat
      /\ DOMAIN stats = Counters \cup Measures
  BY <1>1, CaseTyped DEF IInv, Phase, Typed, StatsTyped
<1>3. stats' = IF Answerable(at)
               THEN reportEvidence(reportFusedBaselines(stats), expanded')
               ELSE stats
  BY DEF Expand
<1>4. /\ reportFusedBaselines(stats) =
           [stats EXCEPT
              !.hybridRecall = [k \in InKs |-> @[k] + Recall(hybrid[k])],
              !.hybridPrecision = [k \in InKs |-> @[k] + Precision(hybrid[k])]]
  BY DEF reportFusedBaselines
<1>5. \A k \in InKs : hybrid[k] = FuseRankings(rankings, k)
  OBVIOUS
<1> HIDE DEF hybrid
<1>6. /\ DOMAIN stats' = DOMAIN stats
      /\ \A c \in (Counters \cup Measures) \ Touched : stats'[c] = stats[c]
      /\ ~Answerable(at) => stats' = stats
      /\ Answerable(at) =>
           /\ stats'.hybridRecall =
                [k \in InKs |-> stats.hybridRecall[k] + Recall(hybrid[k])]
           /\ stats'.hybridPrecision =
                [k \in InKs |-> stats.hybridPrecision[k] + Precision(hybrid[k])]
      /\ stats'.evidenceCases =
           IF Answerable(at) /\ Case.evidence # {} THEN stats.evidenceCases + 1
           ELSE stats.evidenceCases
      /\ stats'.evidenceBefore =
           IF Answerable(at) /\ Case.evidence # {} THEN stats.evidenceBefore + before
           ELSE stats.evidenceBefore
      /\ stats'.evidenceAfter =
           IF Answerable(at) /\ Case.evidence # {} THEN stats.evidenceAfter + after
           ELSE stats.evidenceAfter
  BY <1>2, <1>3, <1>4 DEF Counters, Measures, reportEvidence
<1> HIDE DEF before, after
<1>7. /\ \A k \in InKs : /\ Recall(hybrid[k]) \in 0..Unit /\ Precision(hybrid[k]) \in 0..Unit
                         /\ Recall(hybrid[k]) \in Nat /\ Precision(hybrid[k]) \in Nat
      /\ \A k, l \in InKs : k <= l => Recall(hybrid[k]) <= Recall(hybrid[l])
      /\ Recall(candidates) \in Nat
      /\ Recall(candidates) <= Recall(hybrid[CandidateK])
  <2>1. rankings \in Seq(Seq(Rows)) /\ candidates \in Seq(Rows)
    BY DEF IInv, Typed
  <2>2. \A k \in InKs : k \in Nat
    BY KsRise
  <2>3. Unit \in Nat /\ CandidateK \in InKs
    BY KsRise, EvaluationAssumption
  <2>4. \A k \in InKs : hybrid[k] \in Seq(Rows)
    BY <1>5, <2>1, <2>2, FusedGrows
  <2>5. \A k, l \in InKs : k <= l => Members(hybrid[k]) \subseteq Members(hybrid[l])
    BY <1>5, <2>1, <2>2, FusedGrows
  <2>6. Members(candidates) \subseteq Members(hybrid[CandidateK])
    BY <1>1, <1>5, <2>3 DEF IInv, Recalled
  <2>7. \A docs, more \in Seq(Rows) : Members(docs) \subseteq Members(more) =>
          /\ Recall(docs) \in 0..Unit /\ Recall(docs) <= Recall(more)
          /\ Precision(docs) \in 0..Unit
    BY <1>2, MeasuresTyped DEF IInv
  <2>8. \A n \in 0..Unit : n \in Nat
    BY <2>3
  <2> QED
    BY <2>1, <2>3, <2>4, <2>5, <2>6, <2>7, <2>8
<1>8. before \in 0..Unit /\ after \in 0..Unit /\ Unit \in Nat
  <2>1. Case.evidence \in SUBSET SUBSET Rows
    <3>1. at \in 1..Len(dataset) /\ dataset \in Datasets
      BY <1>2 DEF IInv, Phase, Typed
    <3> QED
      BY <3>1, CaseTyped DEF Case
  <2> QED
    BY <2>1, EvidenceBounds, EvaluationAssumption DEF before, after
<1>9. /\ AnswerableCases' = AnswerableCases /\ EvidenceCases' = EvidenceCases
      /\ FactCases' = FactCases /\ Answerable(at)' = Answerable(at)
      /\ Recall(candidates)' = Recall(candidates)
  BY <1>1, SameCases DEF Answerable, Recall, Case
<1>10. CaseCounted
  BY <1>2, CaseCounts
<1>11. /\ Past(AwaitingExpansion) = at - 1 /\ Past(AwaitingExpansion)' = at
       /\ pc' \in {"answer", "gate", "lexical", "llm", "case"}
  BY <1>1, <1>2 DEF Past, AfterEvidence, AfterAnswer, AfterGate, AfterLexical
<1>12. Counted'
  <2>1. stats.evidenceCases = Count(EvidenceCases, at - 1)
    BY <1>1, <1>11 DEF IInv, Counted
  <2>2. stats'.evidenceCases = Count(EvidenceCases, at)
    BY <1>6, <1>10, <2>1 DEF CaseCounted
  <2>3. /\ stats'.answerable = stats.answerable /\ stats'.unanswerable = stats.unanswerable
        /\ stats'.answersJudged = stats.answersJudged
        /\ stats'.correctAccepts = stats.correctAccepts
        /\ stats'.falseRejects = stats.falseRejects
        /\ stats'.correctRejects = stats.correctRejects
        /\ stats'.falseAccepts = stats.falseAccepts
        /\ stats'.lexicalCases = stats.lexicalCases /\ stats'.llmCases = stats.llmCases
    BY <1>6 DEF Counters
  <2>4. settings.judge =>
          Count(FactCases, Past(AwaitingJudge)') = Count(FactCases, Past(AwaitingJudge))
    BY <1>1, <1>2, <1>10 DEF CaseCounted, Past, AfterEvidence, AfterAnswer,
       AfterGate, AfterLexical
  <2>5. settings.gate => Past(AwaitingGate)' = Past(AwaitingGate)
    BY <1>1, <1>2 DEF Past, AfterEvidence, AfterAnswer
  <2>6. /\ settings.lexical => Count(AnswerableCases, Past(AwaitingLexical)')
                                = Count(AnswerableCases, Past(AwaitingLexical))
        /\ settings.llm => Count(AnswerableCases, Past(AwaitingLLM)')
                            = Count(AnswerableCases, Past(AwaitingLLM))
    BY <1>1, <1>2, <1>10 DEF CaseCounted, Past, AfterEvidence, AfterAnswer,
       AfterGate, AfterLexical
  <2> QED
    BY <1>1, <1>9, <1>11, <2>2, <2>3, <2>4, <2>5, <2>6 DEF Counted, IInv
<1>13. /\ \A i \in DOMAIN ks : Rises(PastBaseline(i), PastBaseline(i)')
       /\ Rises(Past(AwaitingGate), Past(AwaitingGate)')
       /\ Rises(Past(AwaitingLexical), Past(AwaitingLexical)')
       /\ Rises(Past(AwaitingLLM), Past(AwaitingLLM)')
  BY <1>1, <1>2, <1>11, RisesAt DEF PastBaseline, Past
<1> HIDE DEF AwaitingLLM, AwaitingLexical, AwaitingGate, AwaitingJudge, AwaitingExpansion
<1>14. RankingsBounded'
  <2>1. \A i \in DOMAIN ks : ks[i] \in InKs
    BY KsRise
  <2>2. \A k \in InKs :
          /\ stats.hybridRecall[k] \in Nat /\ stats.hybridPrecision[k] \in Nat
          /\ stats.hybridRecall[k] <= Full(AnswerableCases, at - 1)
          /\ stats.hybridPrecision[k] <= Full(AnswerableCases, at - 1)
    BY <1>11, StatsNumbers DEF IInv, RankingsBounded
  <2>3. \A k \in InKs :
          /\ stats'.hybridRecall[k] <= Full(AnswerableCases, at)
          /\ stats'.hybridPrecision[k] <= Full(AnswerableCases, at)
    BY <1>6, <1>7, <1>8, <1>10, <2>2 DEF CaseCounted
  <2> QED
    BY <1>6, <1>9, <1>11, <1>13, <2>1, <2>3, StatsNumbers
    DEF RankingsBounded, IInv, Rises, Counters, Measures
<1>15. Parts'
  <2>1. /\ stats.evidenceCases \in Nat /\ stats.evidenceBefore \in Nat
        /\ stats.evidenceAfter \in Nat
        /\ stats.evidenceBefore <= stats.evidenceCases * Unit
        /\ stats.evidenceAfter <= stats.evidenceCases * Unit
    BY StatsNumbers DEF IInv, Parts
  <2>2. (stats.evidenceCases + 1) * Unit = stats.evidenceCases * Unit + Unit
    BY <1>8, <2>1
  <2>3. /\ stats'.evidenceBefore <= stats'.evidenceCases * Unit
        /\ stats'.evidenceAfter <= stats'.evidenceCases * Unit
    BY <1>6, <1>8, <2>1, <2>2
  <2> QED
    BY <1>1, <1>6, <1>11, <2>3 DEF Parts, IInv, Counters, Measures
<1>16. Decided'
  BY <1>6, <1>9, <1>13, StatsNumbers DEF Decided, IInv, Rises, Counters, Measures
<1>17. Recalled'
  <2>1. /\ CandidateK \in InKs /\ \A k \in InKs : stats.hybridRecall[k] \in Nat
        /\ stats.rerankRecall \in Nat /\ stats.llmRecall \in Nat
    BY KsRise, StatsNumbers DEF IInv
  <2>2. /\ Pending(AwaitingLexical) = 0 /\ Pending(AwaitingLLM) = 0
        /\ Pending(AwaitingLexical)' \in {0, Recall(candidates)}
        /\ Pending(AwaitingLLM)' \in {0, Recall(candidates)}
        /\ ~Answerable(at) => Pending(AwaitingLexical)' = 0 /\ Pending(AwaitingLLM)' = 0
    BY <1>1, <1>9 DEF Pending, AwaitingExpansion
  <2>3. /\ stats.rerankRecall <= stats.hybridRecall[CandidateK]
        /\ stats.llmRecall <= stats.hybridRecall[CandidateK]
    BY <2>1, <2>2 DEF IInv, Recalled
  <2>4. /\ stats'.rerankRecall = stats.rerankRecall /\ stats'.llmRecall = stats.llmRecall
    BY <1>6 DEF Counters
  <2>5. /\ stats'.rerankRecall + Pending(AwaitingLexical)' <= stats'.hybridRecall[CandidateK]
        /\ stats'.llmRecall + Pending(AwaitingLLM)' <= stats'.hybridRecall[CandidateK]
    <3>1. CASE Answerable(at)
      <4>1. stats'.hybridRecall[CandidateK]
              = stats.hybridRecall[CandidateK] + Recall(hybrid[CandidateK])
        BY <1>6, <2>1, <3>1
      <4> QED
        BY <1>7, <2>1, <2>2, <2>3, <2>4, <4>1
    <3>2. CASE ~Answerable(at)
      BY <1>6, <2>1, <2>2, <2>3, <3>2
    <3> QED
      BY <3>1, <3>2
  <2>6. ASSUME NEW i \in DOMAIN ks, NEW j \in DOMAIN ks, i < j
        PROVE  stats'.hybridRecall[ks[i]] <= stats'.hybridRecall[ks[j]]
    <3>1. ks[i] \in InKs /\ ks[j] \in InKs /\ ks[i] <= ks[j]
      BY <2>6, KsRise
    <3>2. stats.hybridRecall[ks[i]] <= stats.hybridRecall[ks[j]]
      BY <2>6 DEF IInv, Recalled
    <3>3. Recall(hybrid[ks[i]]) <= Recall(hybrid[ks[j]])
      BY <1>7, <3>1
    <3> QED
      BY <1>6, <1>7, <2>1, <3>1, <3>2, <3>3
  <2> QED
    BY <1>1, <1>11, <2>5, <2>6 DEF Recalled
<1>18. StatsTyped'
  <2>1. \A k \in InKs : /\ stats.hybridRecall[k] \in Nat
                        /\ stats.hybridPrecision[k] \in Nat
    BY StatsNumbers DEF IInv
  <2>2. /\ stats'.hybridRecall \in [InKs -> Nat]
        /\ stats'.hybridPrecision \in [InKs -> Nat]
    BY <1>6, <1>7, <2>1 DEF IInv, StatsTyped, Measures
  <2>3. /\ stats'.evidenceBefore \in Nat /\ stats'.evidenceAfter \in Nat
        /\ stats'.evidenceCases \in Nat
    BY <1>6, <1>8, StatsNumbers DEF IInv
  <2>4. \A c \in Counters : stats'[c] \in Nat
    BY <1>6, <2>3 DEF StatsTyped, IInv, Counters
  <2>5. \A c \in Measures : stats'[c] \in [InKs -> Nat]
    BY <1>6, <2>2 DEF StatsTyped, IInv, Measures
  <2> QED
    BY <1>2, <1>6, <2>4, <2>5 DEF StatsTyped
<1>19. Phase'
  BY <1>1, <1>2, KsRise DEF IInv, Phase, AwaitingExpansion, AwaitingLLM,
     AwaitingLexical, AwaitingGate, AwaitingJudge, AfterEvidence, AfterAnswer,
     AfterGate, AfterLexical, Answerable, Case
<1>20. Typed'
  <2>1. rankings' \in Seq(Seq(Rows))
    BY <1>1
  <2> QED
    BY <1>1, <1>11, <2>1 DEF IInv, Typed, AwaitingJudge, AwaitingExpansion
<1> QED
  BY <1>12, <1>14, <1>15, <1>16, <1>17, <1>18, <1>19, <1>20 DEF IInv

------------------------------------------------------------------------------
(* The judges of an answer.                                                  *)

\* A set of numbers up to n has at most n members.
LEMMA NumbersUpTo ==
  ASSUME NEW n \in Nat, NEW S \in SUBSET (1..n)
  PROVE  Cardinality(S) \in 0..n
<1>1. \A m \in Nat : IsFiniteSet(1..m) /\ Cardinality(1..m) = m
  BY FS_Interval
<1>2. IsFiniteSet(1..n) /\ Cardinality(1..n) = n
  BY <1>1
<1>3. IsFiniteSet(S) /\ Cardinality(S) <= n
  BY <1>2, FS_Subset
<1> QED
  BY <1>3, FS_CardinalityType

\* A step within the judging of an answer: the counts of cases stay.
LEMMA JudgingKeeps ==
  ASSUME IInv, UNCHANGED <<dataset, settings, at, kAt, rankings, fused, candidates>>,
         \/ pc = "facts" /\ pc' = "grounded"
         \/ pc = "entail" /\ pc' = "entail",
         \A c \in (Counters \cup Measures)
                    \ {"factsSupported", "factsTotal", "judgedCitations",
                       "entailedCitations"} : stats'[c] = stats[c]
  PROVE  Counted' /\ RankingsBounded' /\ Decided' /\ Recalled'
<1> USE DEF AwaitingLLM, AwaitingLexical, AwaitingGate, AwaitingJudge, AwaitingExpansion
<1>1. /\ AnswerableCases' = AnswerableCases /\ EvidenceCases' = EvidenceCases
      /\ FactCases' = FactCases /\ Answerable(at)' = Answerable(at)
      /\ Recall(candidates)' = Recall(candidates)
  BY SameCases DEF Answerable, Recall, Case
<1>2. /\ Past(AwaitingExpansion)' = Past(AwaitingExpansion)
      /\ Past(AwaitingJudge)' = Past(AwaitingJudge)
      /\ Past(AwaitingGate)' = Past(AwaitingGate)
      /\ Past(AwaitingLexical)' = Past(AwaitingLexical)
      /\ Past(AwaitingLLM)' = Past(AwaitingLLM)
      /\ \A i : PastBaseline(i)' = PastBaseline(i)
  BY DEF Past, PastBaseline
<1>3. /\ Pending(AwaitingLexical)' = Pending(AwaitingLexical)
      /\ Pending(AwaitingLLM)' = Pending(AwaitingLLM)
  BY <1>1 DEF Pending
<1> HIDE DEF AwaitingLLM, AwaitingLexical, AwaitingGate, AwaitingJudge, AwaitingExpansion
<1>4. Counted'
  BY <1>1, <1>2 DEF Counted, IInv, Counters, Measures
<1>5. RankingsBounded'
  BY <1>1, <1>2 DEF RankingsBounded, IInv, Counters, Measures
<1>6. Decided'
  BY <1>1, <1>2 DEF Decided, IInv, Counters, Measures
<1>7. Recalled'
  BY <1>3 DEF Recalled, IInv, Counters, Measures
<1> QED
  BY <1>4, <1>5, <1>6, <1>7

\* A fact is supported once at most.
LEMMA JudgeFactsStep == ASSUME IInv, JudgeFacts PROVE IInv'
<1>1. /\ pc = "facts" /\ pc' = "grounded"
      /\ UNCHANGED <<dataset, settings, at, kAt, rankings, fused, candidates,
                     expanded, cited, claim>>
  BY DEF JudgeFacts, pipeline, answer
<1>2. PICK reply \in FactReplies(Case.facts) :
        /\ InRange(reply, Case.facts)
        /\ stats' = [stats EXCEPT !.factsSupported = @ + parseSupportedFacts(reply),
                                  !.factsTotal = @ + Case.facts]
  BY DEF JudgeFacts
<1>3. Case.facts \in Nat /\ DOMAIN stats = Counters \cup Measures
  <2>1. at \in 1..Len(dataset) /\ dataset \in Datasets
    BY <1>1 DEF IInv, Phase, Typed, AwaitingLLM, AwaitingLexical, AwaitingGate, AwaitingJudge
  <2> QED
    BY <2>1, CaseTyped DEF Case, IInv, StatsTyped
<1>4. parseSupportedFacts(reply) \in 0..Case.facts
  <2>1. {reply[i] : i \in DOMAIN reply} \in SUBSET (1..Case.facts)
    BY <1>2 DEF InRange
  <2> QED
    BY <1>3, <2>1, NumbersUpTo DEF parseSupportedFacts
<1>5. /\ DOMAIN stats' = DOMAIN stats
      /\ \A c \in (Counters \cup Measures) \ {"factsSupported", "factsTotal"} :
           stats'[c] = stats[c]
      /\ stats'.factsSupported = stats.factsSupported + parseSupportedFacts(reply)
      /\ stats'.factsTotal = stats.factsTotal + Case.facts
  BY <1>2, <1>3 DEF Counters, Measures
<1>6. Counted' /\ RankingsBounded' /\ Decided' /\ Recalled'
  BY <1>1, <1>5, JudgingKeeps
<1>7. /\ stats.factsSupported \in Nat /\ stats.factsTotal \in Nat
      /\ stats'.factsSupported \in Nat /\ stats'.factsTotal \in Nat
  BY <1>3, <1>4, <1>5, StatsNumbers DEF IInv
<1>8. Parts'
  BY <1>1, <1>3, <1>4, <1>5, <1>7 DEF Parts, IInv, Counters
<1>9. StatsTyped'
  BY <1>3, <1>5, <1>7 DEF StatsTyped, IInv, Counters, Measures
<1>10. Phase'
  BY <1>1 DEF IInv, Phase, AwaitingExpansion, AwaitingLLM,
     AwaitingLexical, AwaitingGate, AwaitingJudge, Answerable, Case
<1>11. Typed'
  BY <1>1 DEF IInv, Typed, AwaitingJudge, AwaitingExpansion
<1> QED
  BY <1>6, <1>8, <1>9, <1>10, <1>11 DEF IInv

\* A citation is judged once, and its turn is over.
LEMMA JudgeClaimStep == ASSUME IInv, JudgeClaim PROVE IInv'
<1>1. /\ pc = "entail" /\ pc' = "entail" /\ claim' = claim + 1
      /\ claim \in DOMAIN cited
      /\ UNCHANGED <<dataset, settings, at, kAt, rankings, fused, candidates,
                     expanded, cited>>
  BY DEF JudgeClaim, pipeline
<1>2. DOMAIN stats = Counters \cup Measures
  BY DEF IInv, StatsTyped
<1>3. /\ DOMAIN stats' = DOMAIN stats
      /\ \A c \in (Counters \cup Measures) \ {"judgedCitations", "entailedCitations"} :
           stats'[c] = stats[c]
      /\ \/ /\ stats'.judgedCitations = stats.judgedCitations + 1
            /\ stats'.entailedCitations \in {stats.entailedCitations,
                                             stats.entailedCitations + 1}
         \/ /\ stats'.judgedCitations = stats.judgedCitations
            /\ stats'.entailedCitations = stats.entailedCitations
  BY <1>2 DEF JudgeClaim, Counters, Measures
<1>4. Counted' /\ RankingsBounded' /\ Decided' /\ Recalled'
  BY <1>1, <1>3, JudgingKeeps
<1>5. /\ stats.judgedCitations \in Nat /\ stats.entailedCitations \in Nat
      /\ stats.totalCitations \in Nat
      /\ stats'.judgedCitations \in Nat /\ stats'.entailedCitations \in Nat
  BY <1>3, StatsNumbers DEF IInv
<1>6. /\ Len(cited) \in Nat /\ claim \in 1..Len(cited)
  BY <1>1 DEF IInv, Typed
<1>7. Parts'
  <2>1. /\ stats.entailedCitations <= stats.judgedCitations
        /\ stats.judgedCitations + (Len(cited) + 1 - claim) <= stats.totalCitations
    BY <1>1 DEF Parts, IInv
  <2>2. stats'.entailedCitations <= stats'.judgedCitations
    BY <1>3, <1>5, <2>1
  <2>3. stats'.judgedCitations + (Len(cited) + 1 - claim') <= stats.totalCitations
    <3>1. stats'.judgedCitations <= stats.judgedCitations + 1
      BY <1>3, <1>5
    <3>2. \A x, y, l, c, t \in Int :
            y <= x + 1 /\ x + (l + 1 - c) <= t => y + (l + 1 - (c + 1)) <= t
      OBVIOUS
    <3>3. /\ stats'.judgedCitations \in Int /\ stats.judgedCitations \in Int
          /\ stats.totalCitations \in Int /\ Len(cited) \in Int /\ claim \in Int
      BY <1>5, <1>6
    <3>4. stats'.judgedCitations + (Len(cited) + 1 - (claim + 1)) <= stats.totalCitations
      BY <2>1, <3>1, <3>2, <3>3
    <3> QED
      BY <1>1, <3>4
  <2> QED
    BY <1>1, <1>3, <2>2, <2>3 DEF Parts, IInv, Counters
<1>8. StatsTyped'
  BY <1>2, <1>3, <1>5 DEF StatsTyped, IInv, Counters, Measures
<1>9. Phase'
  BY <1>1 DEF IInv, Phase, AwaitingExpansion, AwaitingLLM,
     AwaitingLexical, AwaitingGate, AwaitingJudge, Answerable, Case
<1>10. Typed'
  BY <1>1, <1>6 DEF IInv, Typed, AwaitingJudge, AwaitingExpansion
<1> QED
  BY <1>4, <1>7, <1>8, <1>9, <1>10 DEF IInv

\* The answer of a case with facts is judged, its citations counted.
LEMMA JudgeGroundedStep == ASSUME IInv, JudgeGrounded PROVE IInv'
<1> USE DEF AwaitingLLM, AwaitingLexical, AwaitingGate, AwaitingJudge, AwaitingExpansion
<1> DEFINE Touched == {"answersJudged", "groundedAnswers", "validCitations",
                       "totalCitations"}
<1>1. /\ pc = "grounded" /\ pc' = "entail"
      /\ UNCHANGED <<dataset, settings, at, kAt, rankings, fused, candidates,
                     expanded, cited, claim>>
  BY DEF JudgeGrounded, pipeline, answer
<1>2. /\ DOMAIN stats = Counters \cup Measures /\ at \in Nat \ {0}
      /\ cited \in Seq(Citations) /\ Len(cited) \in Nat /\ claim = 1
      /\ Answerable(at) /\ Case.facts > 0
  BY <1>1, CaseTyped DEF IInv, StatsTyped, Typed, Phase
<1>3. /\ DOMAIN stats' = DOMAIN stats
      /\ \A c \in (Counters \cup Measures) \ Touched : stats'[c] = stats[c]
      /\ stats'.answersJudged = stats.answersJudged + 1
      /\ stats'.groundedAnswers \in {stats.groundedAnswers, stats.groundedAnswers + 1}
      /\ stats'.validCitations = stats.validCitations + Cardinality(ValidCitations)
      /\ stats'.totalCitations = stats.totalCitations + Len(cited)
  BY <1>2 DEF JudgeGrounded, Counters, Measures
<1>4. Cardinality(ValidCitations) \in 0..Len(cited)
  <2>1. ValidCitations \in SUBSET (1..Len(cited))
    BY <1>2 DEF ValidCitations
  <2> QED
    BY <1>2, <2>1, NumbersUpTo
<1>5. /\ AnswerableCases' = AnswerableCases /\ EvidenceCases' = EvidenceCases
      /\ FactCases' = FactCases /\ Answerable(at)' = Answerable(at)
      /\ Recall(candidates)' = Recall(candidates)
  BY <1>1, SameCases DEF Answerable, Recall, Case
<1>6. /\ Past(AwaitingExpansion)' = Past(AwaitingExpansion)
      /\ Past(AwaitingJudge) = at - 1 /\ Past(AwaitingJudge)' = at
      /\ Past(AwaitingGate)' = Past(AwaitingGate)
      /\ Past(AwaitingLexical)' = Past(AwaitingLexical)
      /\ Past(AwaitingLLM)' = Past(AwaitingLLM)
      /\ \A i : PastBaseline(i)' = PastBaseline(i)
  BY <1>1 DEF Past, PastBaseline
<1>7. /\ Pending(AwaitingLexical)' = Pending(AwaitingLexical)
      /\ Pending(AwaitingLLM)' = Pending(AwaitingLLM)
  BY <1>1, <1>5 DEF Pending
<1>8. Count(FactCases, at) = Count(FactCases, at - 1) + 1
  BY <1>2, CaseCounts DEF CaseCounted
<1> HIDE DEF AwaitingLLM, AwaitingLexical, AwaitingGate, AwaitingJudge, AwaitingExpansion
<1>9. Counted'
  BY <1>1, <1>3, <1>5, <1>6, <1>8 DEF Counted, IInv, Counters, Measures
<1>10. RankingsBounded'
  BY <1>3, <1>5, <1>6 DEF RankingsBounded, IInv, Counters, Measures
<1>11. /\ stats.answersJudged \in Nat /\ stats.groundedAnswers \in Nat
       /\ stats.validCitations \in Nat /\ stats.totalCitations \in Nat
       /\ stats.judgedCitations \in Nat
       /\ stats'.answersJudged \in Nat /\ stats'.groundedAnswers \in Nat
       /\ stats'.validCitations \in Nat /\ stats'.totalCitations \in Nat
  <2>1. /\ stats.answersJudged \in Nat /\ stats.groundedAnswers \in Nat
        /\ stats.validCitations \in Nat /\ stats.totalCitations \in Nat
        /\ stats.judgedCitations \in Nat
    BY StatsNumbers DEF IInv
  <2>2. Cardinality(ValidCitations) \in Nat
    BY <1>2, <1>4
  <2>3. stats'.answersJudged \in Nat /\ stats'.groundedAnswers \in Nat
    BY <1>3, <2>1
  <2>4. stats'.validCitations \in Nat
    BY <1>3, <2>1, <2>2
  <2>5. stats'.totalCitations \in Nat
    BY <1>2, <1>3, <2>1
  <2> QED
    BY <2>1, <2>3, <2>4, <2>5
<1>12. Parts'
  BY <1>1, <1>2, <1>3, <1>4, <1>11 DEF Parts, IInv, Counters
<1>13. Decided'
  BY <1>3, <1>5, <1>6 DEF Decided, IInv, Counters, Measures
<1>14. Recalled'
  BY <1>1, <1>3, <1>7 DEF Recalled, IInv, Counters, Measures
<1>15. StatsTyped'
  BY <1>2, <1>3, <1>11 DEF StatsTyped, IInv, Counters, Measures
<1>16. Phase'
  BY <1>1 DEF IInv, Phase, AwaitingExpansion, AwaitingLLM,
     AwaitingLexical, AwaitingGate, AwaitingJudge, Answerable, Case
<1>17. Typed'
  BY <1>1, <1>2 DEF IInv, Typed, AwaitingJudge, AwaitingExpansion
<1> QED
  BY <1>9, <1>10, <1>12, <1>13, <1>14, <1>15, <1>16, <1>17 DEF IInv

------------------------------------------------------------------------------
(* The gate.                                                                 *)

\* The gate decides once for every case.
LEMMA GateStep == ASSUME IInv, CheckAnswerability PROVE IInv'
<1> USE DEF AwaitingLLM, AwaitingLexical, AwaitingGate, AwaitingJudge, AwaitingExpansion
<1> DEFINE Touched == {"correctAccepts", "falseRejects", "correctRejects", "falseAccepts"}
<1>1. /\ pc = "gate" /\ pc' = AfterGate /\ pc' \in {"lexical", "llm", "case"}
      /\ UNCHANGED <<dataset, settings, at, kAt, rankings, fused, candidates,
                     expanded, cited, claim>>
  BY DEF CheckAnswerability, AfterGate, AfterLexical, pipeline, answer
<1>2. DOMAIN stats = Counters \cup Measures /\ at \in Nat \ {0} /\ settings.gate
  BY <1>1, CaseTyped DEF IInv, StatsTyped, Typed, Phase
<1>3. /\ stats.correctAccepts \in Nat /\ stats.falseRejects \in Nat
      /\ stats.correctRejects \in Nat /\ stats.falseAccepts \in Nat
  BY StatsNumbers DEF IInv
<1>4. /\ DOMAIN stats' = DOMAIN stats
      /\ \A c \in (Counters \cup Measures) \ Touched : stats'[c] = stats[c]
  BY <1>2 DEF CheckAnswerability, Counters, Measures
<1>5. /\ stats'.correctAccepts \in Nat /\ stats'.falseRejects \in Nat
      /\ stats'.correctRejects \in Nat /\ stats'.falseAccepts \in Nat
      /\ stats'.correctAccepts + stats'.falseRejects =
           IF Answerable(at) THEN stats.correctAccepts + stats.falseRejects + 1
           ELSE stats.correctAccepts + stats.falseRejects
      /\ stats'.correctRejects + stats'.falseAccepts =
           IF Answerable(at) THEN stats.correctRejects + stats.falseAccepts
           ELSE stats.correctRejects + stats.falseAccepts + 1
  <2>1. PICK predicted \in Decisions :
          stats' =
           IF Answerable(at)
           THEN IF predicted THEN [stats EXCEPT !.correctAccepts = @ + 1]
                ELSE [stats EXCEPT !.falseRejects = @ + 1]
           ELSE IF predicted THEN [stats EXCEPT !.falseAccepts = @ + 1]
                ELSE [stats EXCEPT !.correctRejects = @ + 1]
    BY DEF CheckAnswerability
  <2>2. CASE Answerable(at)
    <3>1. /\ stats'.correctRejects = stats.correctRejects
          /\ stats'.falseAccepts = stats.falseAccepts
          /\ \/ /\ stats'.correctAccepts = stats.correctAccepts + 1
                /\ stats'.falseRejects = stats.falseRejects
             \/ /\ stats'.correctAccepts = stats.correctAccepts
                /\ stats'.falseRejects = stats.falseRejects + 1
      BY <1>2, <2>1, <2>2 DEF Counters
    <3> QED
      BY <1>3, <2>2, <3>1
  <2>3. CASE ~Answerable(at)
    <3>1. /\ stats'.correctAccepts = stats.correctAccepts
          /\ stats'.falseRejects = stats.falseRejects
          /\ \/ /\ stats'.correctRejects = stats.correctRejects + 1
                /\ stats'.falseAccepts = stats.falseAccepts
             \/ /\ stats'.correctRejects = stats.correctRejects
                /\ stats'.falseAccepts = stats.falseAccepts + 1
      BY <1>2, <2>1, <2>3 DEF Counters
    <3> QED
      BY <1>3, <2>3, <3>1
  <2> QED
    BY <2>2, <2>3
<1>6. /\ AnswerableCases' = AnswerableCases /\ EvidenceCases' = EvidenceCases
      /\ FactCases' = FactCases /\ Answerable(at)' = Answerable(at)
      /\ Recall(candidates)' = Recall(candidates)
  BY <1>1, SameCases DEF Answerable, Recall, Case
<1>7. /\ Past(AwaitingExpansion)' = Past(AwaitingExpansion)
      /\ Past(AwaitingJudge)' = Past(AwaitingJudge)
      /\ Past(AwaitingGate) = at - 1 /\ Past(AwaitingGate)' = at
      /\ \A i : PastBaseline(i)' = PastBaseline(i)
  BY <1>1 DEF Past, PastBaseline
<1>8. CaseCounted
  BY <1>2, CaseCounts
<1>9. /\ settings.lexical => Count(AnswerableCases, Past(AwaitingLexical)')
                             = Count(AnswerableCases, Past(AwaitingLexical))
      /\ settings.llm => Count(AnswerableCases, Past(AwaitingLLM)')
                         = Count(AnswerableCases, Past(AwaitingLLM))
  BY <1>1, <1>8 DEF CaseCounted, Past, AfterGate, AfterLexical
<1>10. /\ Rises(Past(AwaitingLexical), Past(AwaitingLexical)')
       /\ Rises(Past(AwaitingLLM), Past(AwaitingLLM)')
  BY <1>1, <1>2, RisesAt DEF Past
<1>11. /\ Pending(AwaitingLexical) = Pending(AwaitingLLM)
       /\ Pending(AwaitingLexical) \in Nat
       /\ Pending(AwaitingLexical)' \in {0, Pending(AwaitingLexical)}
       /\ Pending(AwaitingLLM)' \in {0, Pending(AwaitingLLM)}
  <2>1. Recall(candidates) \in 0..Unit /\ Unit \in Nat
    BY <1>2, MeasuresTyped, EvaluationAssumption DEF IInv, Typed
  <2> QED
    BY <1>1, <1>6, <2>1 DEF Pending
<1> HIDE DEF AwaitingLLM, AwaitingLexical, AwaitingGate, AwaitingJudge, AwaitingExpansion
<1>12. Counted'
  <2>1. /\ stats.correctAccepts + stats.falseRejects = Count(AnswerableCases, at - 1)
        /\ stats.correctRejects + stats.falseAccepts
             = at - 1 - Count(AnswerableCases, at - 1)
    BY <1>1, <1>2, <1>7 DEF IInv, Counted
  <2>2. /\ stats'.correctAccepts + stats'.falseRejects = Count(AnswerableCases, at)
        /\ stats'.correctRejects + stats'.falseAccepts = at - Count(AnswerableCases, at)
    BY <1>2, <1>5, <1>8, <2>1 DEF CaseCounted
  <2> QED
    BY <1>1, <1>4, <1>6, <1>7, <1>9, <2>2 DEF Counted, IInv, Counters, Measures
<1>13. RankingsBounded'
  <2>1. \A i \in DOMAIN ks : ks[i] \in InKs
    BY KsRise
  <2> QED
    BY <1>4, <1>6, <1>7, <1>10, <2>1, StatsNumbers
    DEF RankingsBounded, IInv, Rises, Counters, Measures
<1>14. Parts'
  BY <1>1, <1>4 DEF Parts, IInv, Counters
<1>15. Decided'
  <2>1. /\ stats.correctAccepts + stats.falseRejects <= Count(AnswerableCases, at - 1)
        /\ stats.correctRejects + stats.falseAccepts
             <= at - 1 - Count(AnswerableCases, at - 1)
    BY <1>1, <1>2, <1>7 DEF IInv, Decided
  <2>2. /\ stats'.correctAccepts + stats'.falseRejects <= Count(AnswerableCases, at)
        /\ stats'.correctRejects + stats'.falseAccepts <= at - Count(AnswerableCases, at)
    BY <1>2, <1>3, <1>5, <1>8, <2>1 DEF CaseCounted
  <2> QED
    BY <1>4, <1>6, <1>7, <2>2 DEF Decided, IInv, Counters, Measures
<1>16. Recalled'
  <2>1. /\ stats.rerankRecall \in Nat /\ stats.llmRecall \in Nat
        /\ stats.hybridRecall[CandidateK] \in Nat
    BY KsRise, StatsNumbers DEF IInv
  <2> QED
    BY <1>1, <1>4, <1>11, <2>1 DEF Recalled, IInv, Counters, Measures
<1>17. StatsTyped'
  BY <1>2, <1>4, <1>5 DEF StatsTyped, IInv, Counters, Measures
<1>18. Phase'
  BY <1>1 DEF IInv, Phase, AwaitingExpansion, AwaitingLLM, AwaitingLexical,
     AwaitingGate, AwaitingJudge, AfterGate, AfterLexical, Answerable, Case
<1>19. Typed'
  BY <1>1, <1>2 DEF IInv, Typed, AwaitingJudge, AwaitingExpansion
<1> QED
  BY <1>12, <1>13, <1>14, <1>15, <1>16, <1>17, <1>18, <1>19 DEF IInv

------------------------------------------------------------------------------
(* The rerankers.                                                            *)

\* What a ranking of this case adds is within what the case adds.
LEMMA OneMore ==
  ASSUME CaseCounted, Answerable(at), NEW s \in Nat, NEW r \in 0..Unit,
         s <= Full(AnswerableCases, at - 1)
  PROVE  s + r <= Full(AnswerableCases, at)
<1>1. Unit \in Nat /\ Full(AnswerableCases, at - 1) \in Nat
  BY EvaluationAssumption DEF CaseCounted
<1>2. Full(AnswerableCases, at) = Full(AnswerableCases, at - 1) + Unit
  BY DEF CaseCounted
<1>3. PICK f \in Nat : f = Full(AnswerableCases, at - 1)
  BY <1>1
<1> QED
  BY <1>1, <1>2, <1>3

\* The lexical reranker recalls no more than the candidates.
LEMMA LexicalStep == ASSUME IInv, RerankLexically PROVE IInv'
<1> USE DEF AwaitingLLM, AwaitingLexical, AwaitingGate, AwaitingJudge, AwaitingExpansion
<1> DEFINE Touched == {"lexicalCases", "rerankRecall", "rerankPrecision"}
<1>1. /\ pc = "lexical" /\ pc' = AfterLexical /\ pc' \in {"llm", "case"}
      /\ UNCHANGED <<dataset, settings, at, kAt, rankings, fused, candidates,
                     expanded, cited, claim>>
  BY DEF RerankLexically, AfterLexical, pipeline, answer
<1>2. /\ DOMAIN stats = Counters \cup Measures /\ at \in Nat \ {0} /\ Answerable(at)
      /\ candidates \in Seq(Rows) /\ FinalK \in Nat /\ Unit \in Nat
  BY <1>1, CaseTyped, EvaluationAssumption DEF IInv, StatsTyped, Typed, Phase
<1>3. PICK score \in [Members(candidates) -> Scores] :
        LET top == FirstOf(FinalK, RerankByWords(score, candidates))
        IN  stats' = [stats EXCEPT !.lexicalCases = @ + 1,
                                   !.rerankRecall = @ + Recall(top),
                                   !.rerankPrecision = @ + Precision(top)]
  BY DEF RerankLexically
<1>4. PICK top : top = FirstOf(FinalK, RerankByWords(score, candidates))
  OBVIOUS
<1>5. top \in Seq(Rows) /\ Members(top) \subseteq Members(candidates)
  <2>1. /\ RerankByWords(score, candidates) \in Seq(Rows)
        /\ Members(RerankByWords(score, candidates)) \subseteq Members(candidates)
    BY <1>2, <1>3, ByWordsReorders, ReorderedKeeps
  <2>2. /\ top \in Seq(Rows)
        /\ Members(top) \subseteq Members(RerankByWords(score, candidates))
    BY <1>2, <1>4, <2>1, FirstKeeps
  <2> QED
    BY <2>1, <2>2
<1>6. /\ Recall(top) \in 0..Unit /\ Precision(top) \in 0..Unit
      /\ Recall(top) <= Recall(candidates)
  BY <1>2, <1>5, MeasuresTyped DEF IInv
<1>7. Recall(candidates) \in Nat
  <2>1. Recall(candidates) \in 0..Unit
    BY <1>2, MeasuresTyped DEF IInv
  <2> QED
    BY <1>2, <2>1
<1>8. /\ DOMAIN stats' = DOMAIN stats
      /\ \A c \in (Counters \cup Measures) \ Touched : stats'[c] = stats[c]
      /\ stats'.lexicalCases = stats.lexicalCases + 1
      /\ stats'.rerankRecall = stats.rerankRecall + Recall(top)
      /\ stats'.rerankPrecision = stats.rerankPrecision + Precision(top)
  BY <1>2, <1>3, <1>4 DEF Counters, Measures
<1>9. /\ stats.lexicalCases \in Nat /\ stats.rerankRecall \in Nat
      /\ stats.rerankPrecision \in Nat
  BY StatsNumbers DEF IInv
<1>10. /\ AnswerableCases' = AnswerableCases /\ EvidenceCases' = EvidenceCases
       /\ FactCases' = FactCases /\ Answerable(at)' = Answerable(at)
       /\ Recall(candidates)' = Recall(candidates)
  BY <1>1, SameCases DEF Answerable, Recall, Case
<1>11. /\ Past(AwaitingExpansion)' = Past(AwaitingExpansion)
       /\ Past(AwaitingJudge)' = Past(AwaitingJudge)
       /\ Past(AwaitingGate)' = Past(AwaitingGate)
       /\ Past(AwaitingLexical) = at - 1 /\ Past(AwaitingLexical)' = at
       /\ \A i : PastBaseline(i)' = PastBaseline(i)
  BY <1>1 DEF Past, PastBaseline
<1>12. CaseCounted
  BY <1>2, CaseCounts
<1>13. settings.llm => Count(AnswerableCases, Past(AwaitingLLM)')
                       = Count(AnswerableCases, Past(AwaitingLLM))
  BY <1>1, <1>2 DEF Past, AfterLexical
<1>14. Rises(Past(AwaitingLLM), Past(AwaitingLLM)')
  BY <1>1, <1>2, RisesAt DEF Past
<1>15. /\ Pending(AwaitingLexical) = Recall(candidates)
       /\ Pending(AwaitingLexical)' = 0
       /\ Pending(AwaitingLLM) = Recall(candidates)
       /\ Pending(AwaitingLLM)' \in {0, Recall(candidates)}
  BY <1>1, <1>2, <1>10 DEF Pending
<1> HIDE DEF AwaitingLLM, AwaitingLexical, AwaitingGate, AwaitingJudge, AwaitingExpansion
<1>16. Counted'
  <2>1. settings.lexical => stats'.lexicalCases = Count(AnswerableCases, at)
    BY <1>1, <1>2, <1>8, <1>11, <1>12 DEF CaseCounted, IInv, Counted
  <2> QED
    BY <1>1, <1>8, <1>10, <1>11, <1>13, <2>1 DEF Counted, IInv, Counters, Measures
<1>17. RankingsBounded'
  <2>1. \A i \in DOMAIN ks : ks[i] \in InKs
    BY KsRise
  <2>2. /\ stats.rerankRecall <= Full(AnswerableCases, at - 1)
        /\ stats.rerankPrecision <= Full(AnswerableCases, at - 1)
    BY <1>11 DEF IInv, RankingsBounded
  <2>3. /\ stats'.rerankRecall <= Full(AnswerableCases, at)
        /\ stats'.rerankPrecision <= Full(AnswerableCases, at)
    BY <1>2, <1>6, <1>8, <1>9, <1>12, <2>2, OneMore
  <2> QED
    BY <1>8, <1>10, <1>11, <1>14, <2>1, <2>3, StatsNumbers
    DEF RankingsBounded, IInv, Rises, Counters, Measures
<1>18. Parts'
  BY <1>1, <1>8 DEF Parts, IInv, Counters
<1>19. Decided'
  BY <1>8, <1>10, <1>11 DEF Decided, IInv, Counters, Measures
<1>20. Recalled'
  <2>1. stats.llmRecall \in Nat /\ stats.hybridRecall[CandidateK] \in Nat
    BY KsRise, StatsNumbers DEF IInv
  <2>2. /\ stats.rerankRecall + Recall(candidates) <= stats.hybridRecall[CandidateK]
        /\ stats.llmRecall + Recall(candidates) <= stats.hybridRecall[CandidateK]
    BY <1>15 DEF IInv, Recalled
  <2>3. /\ stats'.rerankRecall + Pending(AwaitingLexical)' <= stats.hybridRecall[CandidateK]
        /\ stats.llmRecall + Pending(AwaitingLLM)' <= stats.hybridRecall[CandidateK]
    BY <1>2, <1>6, <1>7, <1>8, <1>9, <1>15, <2>1, <2>2
  <2> QED
    BY <1>1, <1>8, <2>3 DEF Recalled, IInv, Counters, Measures
<1>21. StatsTyped'
  <2>1. /\ stats'.lexicalCases \in Nat /\ stats'.rerankRecall \in Nat
        /\ stats'.rerankPrecision \in Nat
    BY <1>2, <1>6, <1>8, <1>9
  <2> QED
    BY <1>2, <1>8, <2>1 DEF StatsTyped, IInv, Counters, Measures
<1>22. Phase'
  BY <1>1, <1>2 DEF IInv, Phase, AwaitingExpansion, AwaitingLLM, AwaitingLexical,
     AwaitingGate, AwaitingJudge, AfterLexical, Answerable, Case
<1>23. Typed'
  BY <1>1, <1>2 DEF IInv, Typed, AwaitingJudge, AwaitingExpansion
<1> QED
  BY <1>16, <1>17, <1>18, <1>19, <1>20, <1>21, <1>22, <1>23 DEF IInv

\* Nor does the model's order, or the candidates' own when it fails.
LEMMA ByModelStep == ASSUME IInv, RerankByModel PROVE IInv'
<1> USE DEF AwaitingLLM, AwaitingLexical, AwaitingGate, AwaitingJudge, AwaitingExpansion
<1> DEFINE Touched == {"llmCases", "llmFallbacks", "llmRecall", "llmPrecision"}
<1>1. /\ pc = "llm" /\ pc' = "case"
      /\ UNCHANGED <<dataset, settings, at, kAt, rankings, fused, candidates,
                     expanded, cited, claim>>
  BY DEF RerankByModel, pipeline, answer
<1>2. /\ DOMAIN stats = Counters \cup Measures /\ at \in Nat \ {0} /\ Answerable(at)
      /\ candidates \in Seq(Rows) /\ FinalK \in Nat /\ Unit \in Nat
  BY <1>1, CaseTyped, EvaluationAssumption DEF IInv, StatsTyped, Typed, Phase
<1>3. \E top :
        /\ top \in Seq(Rows) /\ Members(top) \subseteq Members(candidates)
        /\ \E inc \in {0, 1} :
             stats' = [stats EXCEPT
                         !.llmCases = @ + 1,
                         !.llmFallbacks = @ + inc,
                         !.llmRecall = @ + Recall(top),
                         !.llmPrecision = @ + Precision(top)]
  <2>1. PICK order \in Replies(Len(candidates)), fails \in BOOLEAN :
          LET ok  == parseRanking(order, Len(candidates)) /\ ~fails
              top == FirstOf(FinalK, IF ok THEN InOrder(order, candidates)
                                     ELSE candidates)
          IN  stats' = [stats EXCEPT
                          !.llmCases = @ + 1,
                          !.llmFallbacks = IF ok \/ candidates = <<>> THEN @ ELSE @ + 1,
                          !.llmRecall = @ + Recall(top),
                          !.llmPrecision = @ + Precision(top)]
    BY DEF RerankByModel
  <2>2. PICK ok \in BOOLEAN : ok = (parseRanking(order, Len(candidates)) /\ ~fails)
    OBVIOUS
  <2>3. PICK list : list = (IF ok THEN InOrder(order, candidates) ELSE candidates)
    OBVIOUS
  <2>4. list \in Seq(Rows) /\ Members(list) \subseteq Members(candidates)
    BY <1>2, <2>2, <2>3, InOrderReorders, ReorderedKeeps
  <2>5. /\ FirstOf(FinalK, list) \in Seq(Rows)
        /\ Members(FirstOf(FinalK, list)) \subseteq Members(list)
    BY <1>2, <2>4, FirstKeeps
  <2>6. PICK inc \in {0, 1} : inc = (IF ok \/ candidates = <<>> THEN 0 ELSE 1)
    OBVIOUS
  <2>7. stats.llmFallbacks \in Nat
    BY StatsNumbers DEF IInv
  <2>8. (IF ok \/ candidates = <<>> THEN stats.llmFallbacks ELSE stats.llmFallbacks + 1)
        = stats.llmFallbacks + inc
    BY <2>6, <2>7
  <2>9. stats' = [stats EXCEPT
                    !.llmCases = @ + 1,
                    !.llmFallbacks = @ + inc,
                    !.llmRecall = @ + Recall(FirstOf(FinalK, list)),
                    !.llmPrecision = @ + Precision(FirstOf(FinalK, list))]
    BY <2>1, <2>2, <2>3, <2>8
  <2> QED
    BY <2>4, <2>5, <2>9
<1>4. PICK top :
        /\ top \in Seq(Rows) /\ Members(top) \subseteq Members(candidates)
        /\ \E inc \in {0, 1} :
             stats' = [stats EXCEPT
                         !.llmCases = @ + 1,
                         !.llmFallbacks = @ + inc,
                         !.llmRecall = @ + Recall(top),
                         !.llmPrecision = @ + Precision(top)]
  BY <1>3
<1>5. PICK inc \in {0, 1} :
         stats' = [stats EXCEPT
                     !.llmCases = @ + 1,
                     !.llmFallbacks = @ + inc,
                     !.llmRecall = @ + Recall(top),
                     !.llmPrecision = @ + Precision(top)]
  BY <1>4
<1>6. /\ Recall(top) \in 0..Unit /\ Precision(top) \in 0..Unit
      /\ Recall(top) <= Recall(candidates)
  BY <1>2, <1>4, MeasuresTyped DEF IInv
<1>7. Recall(candidates) \in Nat
  <2>1. Recall(candidates) \in 0..Unit
    BY <1>2, MeasuresTyped DEF IInv
  <2> QED
    BY <1>2, <2>1
<1>8. /\ DOMAIN stats' = DOMAIN stats
      /\ \A c \in (Counters \cup Measures) \ Touched : stats'[c] = stats[c]
      /\ stats'.llmCases = stats.llmCases + 1
      /\ stats'.llmFallbacks = stats.llmFallbacks + inc
      /\ stats'.llmRecall = stats.llmRecall + Recall(top)
      /\ stats'.llmPrecision = stats.llmPrecision + Precision(top)
  BY <1>2, <1>5 DEF Counters, Measures
<1>9. /\ stats.llmCases \in Nat /\ stats.llmFallbacks \in Nat
      /\ stats.llmRecall \in Nat /\ stats.llmPrecision \in Nat
  BY StatsNumbers DEF IInv
<1>10. /\ AnswerableCases' = AnswerableCases /\ EvidenceCases' = EvidenceCases
       /\ FactCases' = FactCases
  BY <1>1, SameCases
<1>11. /\ Past(AwaitingExpansion)' = Past(AwaitingExpansion)
       /\ Past(AwaitingJudge)' = Past(AwaitingJudge)
       /\ Past(AwaitingGate)' = Past(AwaitingGate)
       /\ Past(AwaitingLexical)' = Past(AwaitingLexical)
       /\ Past(AwaitingLLM) = at - 1 /\ Past(AwaitingLLM)' = at
       /\ \A i : PastBaseline(i)' = PastBaseline(i)
  BY <1>1 DEF Past, PastBaseline
<1>12. CaseCounted
  BY <1>2, CaseCounts
<1>13. /\ Pending(AwaitingLexical) = 0 /\ Pending(AwaitingLexical)' = 0
       /\ Pending(AwaitingLLM) = Recall(candidates) /\ Pending(AwaitingLLM)' = 0
  BY <1>1, <1>2 DEF Pending
<1> HIDE DEF AwaitingLLM, AwaitingLexical, AwaitingGate, AwaitingJudge, AwaitingExpansion
<1>14. Counted'
  <2>1. settings.llm => stats'.llmCases = Count(AnswerableCases, at)
    BY <1>1, <1>2, <1>8, <1>11, <1>12 DEF CaseCounted, IInv, Counted
  <2> QED
    BY <1>1, <1>8, <1>10, <1>11, <2>1 DEF Counted, IInv, Counters, Measures
<1>15. RankingsBounded'
  <2>1. /\ stats.llmRecall <= Full(AnswerableCases, at - 1)
        /\ stats.llmPrecision <= Full(AnswerableCases, at - 1)
    BY <1>11 DEF IInv, RankingsBounded
  <2>2. /\ stats'.llmRecall <= Full(AnswerableCases, at)
        /\ stats'.llmPrecision <= Full(AnswerableCases, at)
    BY <1>2, <1>6, <1>8, <1>9, <1>12, <2>1, OneMore
  <2> QED
    BY <1>8, <1>10, <1>11, <2>2 DEF RankingsBounded, IInv, Counters, Measures
<1>16. Parts'
  <2>1. stats'.llmFallbacks <= stats'.llmCases
    BY <1>8, <1>9 DEF IInv, Parts
  <2> QED
    BY <1>1, <1>8, <2>1 DEF Parts, IInv, Counters
<1>17. Decided'
  BY <1>8, <1>10, <1>11 DEF Decided, IInv, Counters, Measures
<1>18. Recalled'
  <2>1. stats.llmRecall + Recall(candidates) <= stats.hybridRecall[CandidateK]
    BY <1>13 DEF IInv, Recalled
  <2>2. stats.hybridRecall[CandidateK] \in Nat
    BY KsRise, StatsNumbers DEF IInv
  <2>3. stats'.llmRecall + Pending(AwaitingLLM)' <= stats.hybridRecall[CandidateK]
    <3>1. Recall(top) \in Nat
      BY <1>2, <1>6
    <3>2. \A a, r, c, h \in Nat : a + c <= h /\ r <= c => a + r + 0 <= h
      OBVIOUS
    <3>3. stats.llmRecall + Recall(top) + 0 <= stats.hybridRecall[CandidateK]
      BY <1>6, <1>7, <1>9, <2>1, <2>2, <3>1, <3>2
    <3> QED
      BY <1>8, <1>13, <3>3
  <2> QED
    BY <1>1, <1>8, <1>13, <2>3 DEF Recalled, IInv, Counters, Measures
<1>19. StatsTyped'
  <2>1. Recall(top) \in Nat /\ Precision(top) \in Nat /\ inc \in Nat
    BY <1>2, <1>6
  <2>2. /\ stats'.llmCases \in Nat /\ stats'.llmFallbacks \in Nat
        /\ stats'.llmRecall \in Nat /\ stats'.llmPrecision \in Nat
    BY <1>8, <1>9, <2>1
  <2> QED
    BY <1>2, <1>8, <2>2 DEF StatsTyped, IInv, Counters, Measures
<1>20. Phase'
  BY <1>1, <1>2 DEF IInv, Phase, AwaitingExpansion, AwaitingLLM, AwaitingLexical,
     AwaitingGate, AwaitingJudge
<1>21. Typed'
  BY <1>1, <1>2 DEF IInv, Typed, AwaitingJudge, AwaitingExpansion
<1> QED
  BY <1>14, <1>15, <1>16, <1>17, <1>18, <1>19, <1>20, <1>21 DEF IInv

------------------------------------------------------------------------------
(* The invariant holds.                                                      *)

\* Before the first case nothing is counted.
LEMMA InitIInv == ASSUME Init PROVE IInv
<1>1. /\ pc = "start" /\ at = 0 /\ kAt = 1 /\ rankings = <<>> /\ fused = <<>>
      /\ candidates = <<>> /\ expanded = {} /\ cited = <<>> /\ claim = 1
      /\ dataset \in Datasets /\ settings \in Configurations
  BY DEF Init
<1>2. /\ DOMAIN stats = Counters \cup Measures
      /\ \A c \in Counters : stats[c] = 0
      /\ \A c \in Measures : stats[c] = [k \in InKs |-> 0]
  BY DEF Init, NoStats, Counters, Measures
<1>3. Counters \cap Measures = {}
  BY DEF Counters, Measures
<1>4. StatsTyped
  BY <1>2 DEF StatsTyped
<1>5. \A S : Count(S, 0) = 0 /\ Full(S, 0) = 0
  BY CountNext, FullNext
<1>6. /\ Past(AwaitingExpansion) = 0 /\ Past(AwaitingJudge) = 0
      /\ Past(AwaitingGate) = 0 /\ Past(AwaitingLexical) = 0 /\ Past(AwaitingLLM) = 0
      /\ \A i \in DOMAIN ks : PastBaseline(i) = 0
      /\ Pending(AwaitingLexical) = 0 /\ Pending(AwaitingLLM) = 0
  <2>1. "start" \notin AwaitingLLM /\ "start" \notin AwaitingLexical
    BY DEF AwaitingLLM, AwaitingLexical, AwaitingGate, AwaitingJudge, AwaitingExpansion
  <2>2. /\ Pending(AwaitingLexical) = 0 /\ Pending(AwaitingLLM) = 0
    BY <1>1, <2>1 DEF Pending
  <2>3. \A i \in DOMAIN ks : PastBaseline(i) = 0
    BY <1>1 DEF PastBaseline
  <2>4. /\ Past(AwaitingExpansion) = 0 /\ Past(AwaitingJudge) = 0
        /\ Past(AwaitingGate) = 0 /\ Past(AwaitingLexical) = 0
        /\ Past(AwaitingLLM) = 0
    BY <1>1, <2>1 DEF Past, AwaitingLLM, AwaitingLexical, AwaitingGate, AwaitingJudge
  <2> QED
    BY <2>2, <2>3, <2>4
<1>7. /\ Len(dataset) \in Nat /\ kAt \in DOMAIN ks
      /\ \A i \in DOMAIN ks : ks[i] \in InKs
      /\ CandidateK \in InKs
  BY <1>1, CaseTyped, KsRise
<1>8. Phase
  BY <1>1, <1>7 DEF Phase, AwaitingExpansion, AwaitingLLM, AwaitingLexical,
     AwaitingGate, AwaitingJudge
<1>9. Typed
  <2>1. /\ rankings \in Seq(Seq(Rows)) /\ fused \in Seq(Rows)
        /\ candidates \in Seq(Rows) /\ cited \in Seq(Citations)
    BY <1>1
  <2> QED
    BY <1>1, <2>1 DEF Typed
<1>10. /\ \A k \in InKs : /\ stats.recall[k] = 0 /\ stats.precision[k] = 0
                          /\ stats.hybridRecall[k] = 0 /\ stats.hybridPrecision[k] = 0
  BY <1>2 DEF Measures
<1>11. Counted /\ Decided
  <2>1. Counted
    BY <1>1, <1>2, <1>5, <1>6 DEF Counted, Counters
  <2>2. Decided
    BY <1>1, <1>2, <1>5, <1>6 DEF Decided, Counters
  <2> QED
    BY <2>1, <2>2
<1>12. RankingsBounded
  BY <1>2, <1>5, <1>6, <1>7, <1>10 DEF RankingsBounded, Counters
<1>13. Parts
  <2>1. Unit \in Nat
    BY EvaluationAssumption
  <2> QED
    BY <1>1, <1>2, <2>1 DEF Parts, Counters
<1>14. Recalled
  BY <1>1, <1>2, <1>6, <1>7, <1>10 DEF Recalled, Counters
<1> QED
  BY <1>4, <1>8, <1>9, <1>11, <1>12, <1>13, <1>14 DEF IInv

\* Outside the steps nothing changes.
LEMMA StutterIInv == ASSUME IInv, UNCHANGED vars PROVE IInv'
<1>1. UNCHANGED <<dataset, settings, pc, at, kAt, rankings, fused, candidates,
                  expanded, cited, claim, stats>>
  BY DEF vars, pipeline, answer
<1>2. /\ AnswerableCases' = AnswerableCases /\ EvidenceCases' = EvidenceCases
      /\ FactCases' = FactCases /\ Answerable(at)' = Answerable(at)
      /\ Recall(candidates)' = Recall(candidates) /\ Case' = Case
  BY <1>1, SameCases DEF Answerable, Recall, Case
<1>3. /\ Past(AwaitingExpansion)' = Past(AwaitingExpansion)
      /\ Past(AwaitingJudge)' = Past(AwaitingJudge)
      /\ Past(AwaitingGate)' = Past(AwaitingGate)
      /\ Past(AwaitingLexical)' = Past(AwaitingLexical)
      /\ Past(AwaitingLLM)' = Past(AwaitingLLM)
      /\ \A i : PastBaseline(i)' = PastBaseline(i)
      /\ Pending(AwaitingLexical)' = Pending(AwaitingLexical)
      /\ Pending(AwaitingLLM)' = Pending(AwaitingLLM)
  BY <1>1, <1>2 DEF Past, PastBaseline, Pending
<1>4. Phase' /\ Typed' /\ StatsTyped'
  BY <1>1, <1>2 DEF IInv, Phase, Typed, StatsTyped, Answerable
<1>5. Counted'
  BY <1>1, <1>2, <1>3 DEF IInv, Counted
<1>6. RankingsBounded'
  BY <1>1, <1>2, <1>3 DEF IInv, RankingsBounded
<1>7. Parts' /\ Decided'
  BY <1>1, <1>2, <1>3 DEF IInv, Parts, Decided
<1>8. Recalled'
  BY <1>1, <1>3 DEF IInv, Recalled
<1> QED
  BY <1>4, <1>5, <1>6, <1>7, <1>8 DEF IInv

\* Every step keeps the invariant.
LEMMA NextIInv == ASSUME IInv, [Next]_vars PROVE IInv'
  BY QuietStep, BeginCaseStep, BaselineStep, SearchStep, ExpandStep, JudgeFactsStep,
     JudgeGroundedStep, JudgeClaimStep, GateStep, LexicalStep, ByModelStep, StutterIInv
  DEF Next, Ended

\* The counts and sums of the statistics stand in these relations throughout a
\* run of cmd/eval, whatever is ingested, answered or judged meanwhile.
THEOREM Invariance == Spec => []IInv
  BY InitIInv, NextIInv, PTL DEF Spec

------------------------------------------------------------------------------
(* The properties.                                                           *)

\* What a case's measurement is due for is among the cases so far.
LEMMA PastWithin ==
  ASSUME IInv
  PROVE  /\ at \in Nat /\ Rises(at, at)
         /\ \A awaiting \in SUBSET AwaitingLLM : Rises(Past(awaiting), at)
         /\ \A i : Rises(PastBaseline(i), at)
<1>1. at \in Nat /\ (pc \in AwaitingLLM => at # 0)
  BY CaseTyped DEF IInv, Phase, Typed
<1>2. pc = "baseline" => at # 0
  BY <1>1 DEF AwaitingLLM, AwaitingLexical, AwaitingGate, AwaitingJudge, AwaitingExpansion
<1> QED
  BY <1>1, <1>2, RisesAt DEF Past, PastBaseline

\* No average or ratio of the report exceeds 1.
LEMMA RatesBounded == ASSUME IInv PROVE RatesWithinOne
<1>1. PICK n \in Nat : n = stats.answerable /\ n = Count(AnswerableCases, at)
  BY StatsNumbers DEF IInv, Counted
<1>2. n * Unit = Full(AnswerableCases, at)
  BY <1>1 DEF Full
<1>3. /\ Rises(at, at) /\ at \in Nat
      /\ Rises(Past(AwaitingExpansion), at) /\ Rises(Past(AwaitingGate), at)
      /\ Rises(Past(AwaitingLexical), at) /\ Rises(Past(AwaitingLLM), at)
      /\ \A i : Rises(PastBaseline(i), at)
  BY PastWithin DEF AwaitingLLM, AwaitingLexical, AwaitingGate, AwaitingJudge,
     AwaitingExpansion
<1> DEFINE All == stats.answerable * Unit
<1>4. All = Full(AnswerableCases, at) /\ All \in Nat
  BY <1>1, <1>2, <1>3 DEF Rises
<1>5. Unit \in Nat /\ StatsTyped
  BY EvaluationAssumption DEF IInv
<1> HIDE DEF All
<1>6. \A k \in InKs :
        /\ stats.recall[k] \in 0..All /\ stats.precision[k] \in 0..All
        /\ stats.hybridRecall[k] \in 0..All /\ stats.hybridPrecision[k] \in 0..All
  <2> SUFFICES ASSUME NEW k \in InKs
               PROVE  /\ stats.recall[k] \in 0..All /\ stats.precision[k] \in 0..All
                      /\ stats.hybridRecall[k] \in 0..All
                      /\ stats.hybridPrecision[k] \in 0..All
    OBVIOUS
  <2>1. PICK i \in DOMAIN ks : ks[i] = k
    BY KsRise
  <2>2. /\ stats.recall[k] <= Full(AnswerableCases, PastBaseline(i))
        /\ stats.precision[k] <= Full(AnswerableCases, PastBaseline(i))
        /\ stats.hybridRecall[k] <= Full(AnswerableCases, Past(AwaitingExpansion))
        /\ stats.hybridPrecision[k] <= Full(AnswerableCases, Past(AwaitingExpansion))
    BY <2>1 DEF IInv, RankingsBounded
  <2>3. /\ stats.recall[k] \in Nat /\ stats.precision[k] \in Nat
        /\ stats.hybridRecall[k] \in Nat /\ stats.hybridPrecision[k] \in Nat
    BY <1>5, StatsNumbers
  <2> QED
    BY <1>3, <1>4, <2>2, <2>3 DEF Rises
<1>7. /\ stats.rerankRecall \in 0..All /\ stats.rerankPrecision \in 0..All
      /\ stats.llmRecall \in 0..All /\ stats.llmPrecision \in 0..All
  <2>1. /\ stats.rerankRecall <= Full(AnswerableCases, Past(AwaitingLexical))
        /\ stats.rerankPrecision <= Full(AnswerableCases, Past(AwaitingLexical))
        /\ stats.llmRecall <= Full(AnswerableCases, Past(AwaitingLLM))
        /\ stats.llmPrecision <= Full(AnswerableCases, Past(AwaitingLLM))
    BY DEF IInv, RankingsBounded
  <2>2. /\ stats.rerankRecall \in Nat /\ stats.rerankPrecision \in Nat
        /\ stats.llmRecall \in Nat /\ stats.llmPrecision \in Nat
    BY <1>5, StatsNumbers
  <2> QED
    BY <1>3, <1>4, <2>1, <2>2 DEF Rises
<1>8. /\ stats.evidenceBefore \in 0..(stats.evidenceCases * Unit)
      /\ stats.evidenceAfter \in 0..(stats.evidenceCases * Unit)
      /\ stats.llmFallbacks \in 0..stats.llmCases
      /\ stats.factsSupported \in 0..stats.factsTotal
      /\ stats.groundedAnswers \in 0..stats.answersJudged
      /\ stats.validCitations \in 0..stats.totalCitations
      /\ stats.entailedCitations \in 0..stats.judgedCitations
  <2>1. PICK whole \in Nat : whole = stats.evidenceCases * Unit
    BY <1>5, StatsNumbers
  <2> QED
    BY <1>5, <2>1, StatsNumbers DEF IInv, Parts
<1>9. stats.judgedCitations \in 0..stats.totalCitations
  <2>1. /\ stats.judgedCitations \in Nat /\ stats.totalCitations \in Nat
        /\ Len(cited) \in Nat /\ claim \in Nat
        /\ pc = "entail" => claim <= Len(cited) + 1
    BY <1>5, StatsNumbers DEF IInv, Typed
  <2>2. stats.judgedCitations + (IF pc = "entail" THEN Len(cited) + 1 - claim ELSE 0)
          <= stats.totalCitations
    BY DEF IInv, Parts
  <2> QED
    BY <2>1, <2>2
<1>10. /\ stats.correctAccepts + stats.falseRejects \in 0..stats.answerable
       /\ stats.correctRejects + stats.falseAccepts \in 0..stats.unanswerable
       /\ stats.correctRejections \in 0..stats.unanswerable
  <2>1. /\ stats.answerable = Count(AnswerableCases, at)
        /\ stats.unanswerable = at - Count(AnswerableCases, at)
    BY DEF IInv, Counted
  <2>2. PICK m \in Nat : m = Past(AwaitingGate)
    BY <1>3 DEF Rises
  <2>3. /\ stats.correctAccepts + stats.falseRejects <= Count(AnswerableCases, m)
        /\ stats.correctRejects + stats.falseAccepts <= m - Count(AnswerableCases, m)
    BY <2>2 DEF IInv, Decided
  <2>4. PICK i \in DOMAIN ks : ks[i] = CandidateK
    BY KsRise
  <2>5. stats.correctRejections
          <= PastBaseline(i) - Count(AnswerableCases, PastBaseline(i))
    BY <2>4 DEF IInv, Decided
  <2>6. /\ stats.correctAccepts \in Nat /\ stats.falseRejects \in Nat
        /\ stats.correctRejects \in Nat /\ stats.falseAccepts \in Nat
        /\ stats.correctRejections \in Nat
    BY <1>5, StatsNumbers
  <2>7. /\ stats.correctAccepts + stats.falseRejects \in 0..stats.answerable
        /\ stats.correctRejects + stats.falseAccepts \in 0..stats.unanswerable
    BY <1>3, <2>1, <2>2, <2>3, <2>6 DEF Rises
  <2>8. stats.correctRejections \in 0..stats.unanswerable
    BY <1>3, <2>1, <2>5, <2>6 DEF Rises
  <2> QED
    BY <2>7, <2>8
<1>11. \A part, whole : part \in 0..whole
                          => Rate(part, whole).part \in 0..Rate(part, whole).whole
  BY DEF Rate
<1>12. ASSUME NEW r \in printOverall(stats) PROVE r.part \in 0..r.whole
  <2> DEFINE RatesAt(k) == {Rate(stats.recall[k], All), Rate(stats.precision[k], All),
                            Rate(stats.hybridRecall[k], All),
                            Rate(stats.hybridPrecision[k], All)}
  <2>1. CASE r \in UNION {RatesAt(k) : k \in InKs}
    <3>1. PICK k \in InKs : r \in RatesAt(k)
      BY <2>1
    <3> QED
      BY <1>6, <1>11, <3>1
  <2>2. CASE r \in {Rate(stats.evidenceBefore, stats.evidenceCases * Unit),
                    Rate(stats.evidenceAfter, stats.evidenceCases * Unit),
                    Rate(stats.rerankRecall, All), Rate(stats.rerankPrecision, All),
                    Rate(stats.llmRecall, All), Rate(stats.llmPrecision, All),
                    Rate(stats.llmFallbacks, stats.llmCases)}
    BY <1>7, <1>8, <1>11, <2>2
  <2>3. CASE r \in {Rate(stats.correctAccepts + stats.falseRejects, stats.answerable),
                    Rate(stats.correctRejects + stats.falseAccepts, stats.unanswerable),
                    Rate(stats.factsSupported, stats.factsTotal),
                    Rate(stats.correctRejections, stats.unanswerable),
                    Rate(stats.groundedAnswers, stats.answersJudged),
                    Rate(stats.validCitations, stats.totalCitations),
                    Rate(stats.judgedCitations, stats.totalCitations),
                    Rate(stats.entailedCitations, stats.judgedCitations)}
    BY <1>8, <1>9, <1>10, <1>11, <2>3
  <2> QED
    BY <1>12, <2>1, <2>2, <2>3 DEF printOverall, All
<1> QED
  BY <1>12 DEF RatesWithinOne

\* However often a K value, a fact number or a citation is repeated and whatever
\* is ingested meanwhile, cmd/eval prints no average or ratio above 1.
THEOREM Rates == Spec => []RatesWithinOne
  BY Invariance, RatesBounded, PTL

\* At the report every measurement is past the last case.
LEMMA Measured == ASSUME IInv PROVE EveryCaseMeasured
<1> SUFFICES ASSUME pc = "reported"
             PROVE  LET cases == Len(dataset)
                        answerable == Cardinality(Answerables(cases))
                    IN  /\ stats.answerable = answerable
                        /\ stats.unanswerable = cases - answerable
                        /\ stats.evidenceCases = Cardinality(WithEvidence(cases))
                        /\ settings.gate =>
                             /\ stats.correctAccepts + stats.falseRejects = answerable
                             /\ stats.correctRejects + stats.falseAccepts
                                  = cases - answerable
                        /\ settings.judge =>
                             stats.answersJudged = Cardinality(WithFacts(cases))
                        /\ settings.lexical => stats.lexicalCases = answerable
                        /\ settings.llm => stats.llmCases = answerable
  BY DEF EveryCaseMeasured
<1>1. at = Len(dataset) /\ pc # "failed"
  BY DEF IInv, Phase
<1>2. pc \notin AwaitingLLM
  BY DEF AwaitingLLM, AwaitingLexical, AwaitingGate, AwaitingJudge, AwaitingExpansion
<1>3. /\ Past(AwaitingExpansion) = at /\ Past(AwaitingJudge) = at
      /\ Past(AwaitingGate) = at /\ Past(AwaitingLexical) = at /\ Past(AwaitingLLM) = at
  BY <1>2 DEF Past, AwaitingLLM, AwaitingLexical, AwaitingGate, AwaitingJudge
<1>4. /\ Count(AnswerableCases, at) = Cardinality(Answerables(at))
      /\ Count(EvidenceCases, at) = Cardinality(WithEvidence(at))
      /\ Count(FactCases, at) = Cardinality(WithFacts(at))
  <2>1. {m \in 1..at : m \in AnswerableCases} = Answerables(at)
    BY DEF AnswerableCases, Answerables
  <2>2. {m \in 1..at : m \in EvidenceCases} = WithEvidence(at)
    BY DEF EvidenceCases, AnswerableCases, WithEvidence, Answerables
  <2>3. {m \in 1..at : m \in FactCases} = WithFacts(at)
    BY DEF FactCases, AnswerableCases, WithFacts, Answerables
  <2> QED
    BY <2>1, <2>2, <2>3 DEF Count
<1>5. Counted
  BY DEF IInv
<1> QED
  BY <1>1, <1>3, <1>4, <1>5 DEF Counted

\* The totals of a report of cmd/eval are those of the dataset: every case went
\* through every measurement that the settings ask for, once.
THEOREM CasesMeasured == Spec => []EveryCaseMeasured
  BY Invariance, Measured, PTL

\* A recall still to be added is not negative.
LEMMA RecallsBounded == ASSUME IInv PROVE RecallsAgree
<1>1. /\ Pending(AwaitingLexical) \in Nat /\ Pending(AwaitingLLM) \in Nat
  <2>1. CASE at # 0
    <3>1. Recall(candidates) \in 0..Unit /\ Unit \in Nat
      BY <2>1, MeasuresTyped, EvaluationAssumption DEF IInv, Typed
    <3> QED
      BY <3>1 DEF Pending
  <2>2. CASE at = 0
    <3>1. pc \notin AwaitingLLM /\ pc \notin AwaitingLexical
      BY <2>2 DEF IInv, Phase, AwaitingLLM
    <3> QED
      BY <3>1 DEF Pending
  <2> QED
    BY <2>1, <2>2
<1>2. /\ stats.rerankRecall \in Nat /\ stats.llmRecall \in Nat
      /\ stats.hybridRecall[CandidateK] \in Nat
  BY KsRise, StatsNumbers DEF IInv
<1>3. /\ stats.rerankRecall + Pending(AwaitingLexical) <= stats.hybridRecall[CandidateK]
      /\ stats.llmRecall + Pending(AwaitingLLM) <= stats.hybridRecall[CandidateK]
      /\ \A i, j \in DOMAIN ks :
           i < j => stats.hybridRecall[ks[i]] <= stats.hybridRecall[ks[j]]
  BY DEF IInv, Recalled
<1>4. /\ stats.rerankRecall <= stats.hybridRecall[CandidateK]
      /\ stats.llmRecall <= stats.hybridRecall[CandidateK]
  BY <1>1, <1>2, <1>3
<1> QED
  BY <1>3, <1>4 DEF RecallsAgree

\* The hybrid recall of a report of cmd/eval does not fall with K, and no
\* reranker recalls more than the candidates it was given.
THEOREM Recalls == Spec => []RecallsAgree
  BY Invariance, RecallsBounded, PTL
=============================================================================
