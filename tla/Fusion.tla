-------------------------------- MODULE Fusion --------------------------------
(***************************************************************************)
(* What internal/retrieval computes from rankings: their reciprocal rank    *)
(* fusion and the deduplication of a ranking by section.  A document is a   *)
(* row of the table, identified by its bigserial id: the pair (serial of    *)
(* its ingest, index of the chunk).                                         *)
(*                                                                          *)
(* Scores are compared exactly: the sums of reciprocals the code forms in   *)
(* floating point may differ in their last bit where these are equal, which *)
(* only decides between documents with the same ranks.                      *)
(***************************************************************************)
EXTENDS Integers, Sequences, FiniteSets, FiniteSetsExt

CONSTANT Separated          \* Separated[<<s, t>>]: the string s|t of a pair

------------------------------------------------------------------------------
(* Reciprocal rank fusion (hybrid.go).                                       *)

IdLess(d, e) ==
    d.serial < e.serial \/ (d.serial = e.serial /\ d.index < e.index)

rrfK == 60

\* A common multiple of the denominators: scores in units of 1/Scale.
Scale(lists) ==
    ProductSet({rrfK + rank : rank \in UNION {DOMAIN lists[n] : n \in DOMAIN lists}})

Members(ranking) == {ranking[i] : i \in DOMAIN ranking}

RankIn(d, ranking) == CHOOSE i \in DOMAIN ranking : ranking[i] = d

Ranked(d, lists) == {n \in DOMAIN lists : d \in Members(lists[n])}

Score(d, lists) ==
    MapThenSumSet(LAMBDA n : Scale(lists) \div (rrfK + RankIn(d, lists[n])),
                  Ranked(d, lists))

BestRank(d, lists) == Min({RankIn(d, lists[n]) : n \in Ranked(d, lists)})

\* The order of sort.Slice: score, best rank, id.
Before(d, e, lists) ==
    \/ Score(d, lists) > Score(e, lists)
    \/ /\ Score(d, lists) = Score(e, lists)
       /\ \/ BestRank(d, lists) < BestRank(e, lists)
          \/ /\ BestRank(d, lists) = BestRank(e, lists)
             /\ IdLess(d, e)

\* The union of the rankings in that order, cut at topK.  The order is total:
\* the places are 1, 2 and so on.
FusedUpTo(lists, topK) ==
    LET docs == UNION {Members(lists[n]) : n \in DOMAIN lists}
        place == [d \in docs |->
                     1 + Cardinality({e \in docs : Before(e, d, lists)})]
    IN  [k \in {place[d] : d \in docs} \cap 1..topK |->
            CHOOSE d \in docs : place[d] = k]

\* Faulty variant: the result is not cut at topK.
FuseRankingsUncut(lists, topK) == FusedUpTo(lists, topK + 2)

FuseRankings(lists, topK) == FusedUpTo(lists, topK)

------------------------------------------------------------------------------
(* Sections (retrieval.go).                                                  *)

PairOf(d) == <<d.source, d.section>>

\* The elements of a sequence at a set of its positions, in order.
AtPositions(docs, P) ==
    LET place == [k \in P |-> Cardinality({j \in P : j <= k})]
    IN  [n \in {place[k] : k \in P} |-> docs[CHOOSE k \in P : place[k] = n]]

\* Faulty variant: the last document of a section is the one kept.
DeduplicateSectionsLast(docs) ==
    AtPositions(docs, {k \in DOMAIN docs :
        \A j \in (k + 1)..Len(docs) :
            Separated[PairOf(docs[j])] # Separated[PairOf(docs[k])]})

\* The first document for each key, in order.
DeduplicateSections(docs) ==
    AtPositions(docs, {k \in DOMAIN docs :
        \A j \in 1..(k - 1) :
            Separated[PairOf(docs[j])] # Separated[PairOf(docs[k])]})

SectionKeys(docs) == {PairOf(d) : d \in Members(DeduplicateSections(docs))}
==============================================================================
