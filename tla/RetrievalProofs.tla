--------------------------- MODULE RetrievalProofs ---------------------------
(***************************************************************************)
(* The pipeline of internal/retrieval, for any files, sections, limits and  *)
(* number of ingests: its types, and that fusion respects a consensus of    *)
(* the searches.                                                            *)
(*                                                                          *)
(* cmd/rag searches and expands the table, cmd/retrieval the rows in scope: *)
(* both are steps of Pipeline below, so what is proved of it holds of both. *)
(***************************************************************************)
EXTENDS Retrieval, FusionProofs

\* What a command does to the pipeline and to the table in one step.
Pipeline ==
    \/ \E s \in Sources : Ingest(s)
    \/ \E rows \in SUBSET Table : SearchOver(rows) \/ ExpandOver(rows)
    \/ StatementFails

RetrievalSpec == Init /\ [][Pipeline]_retrievalVars

------------------------------------------------------------------------------
(* The inductive invariant.                                                  *)

\* Serials are given in order, from 1 on.
Serials ==
    /\ \A s \in Sources : \A v \in stored[s] : v.serial <= ingests
    /\ \A d \in Documents(rankings) : d.serial <= ingests

\* An id names one row, among those stored now and those found earlier.
Ids == Identified(Table \cup Documents(rankings))

\* What waits for the expansion is what the searches' rankings fuse to.
FusedFromSearches ==
    step = "expand" => fused = DeduplicateSections(FuseRankings(rankings, FinalK))

PipelineInv == RetrievalTypeOK /\ Serials /\ Ids /\ FusedFromSearches

\* The stored rows are rows.
LEMMA TableRows ==
  ASSUME RetrievalTypeOK, Serials
  PROVE  Table \subseteq Rows /\ \A d \in Table : d.serial <= ingests
<1> SUFFICES ASSUME NEW d \in Table PROVE d \in Rows /\ d.serial <= ingests
  OBVIOUS
<1>s. PICK s \in Sources : d \in RowsOf(s)
  BY DEF Table
<1>1. PICK v \in stored[s] : d \in RowsOfDocument(s, v)
  BY <1>s DEF RowsOf
<1>2. PICK i \in DOMAIN v.layout : d = Row(s, v.serial, i, v.layout[i])
  BY <1>1 DEF RowsOfDocument
<1>3. v.layout \in Seq(Sections) /\ v.serial \in 1..MaxIngests /\ v.serial <= ingests
  <2>1. v \in Stored
    BY DEF RetrievalTypeOK
  <2> QED
    BY <2>1, RetrievalAssumption DEF Stored, Serials
<1>4. i \in Nat \ {0} /\ v.layout[i] \in Sections
  BY <1>2, <1>3
<1>5. d \in Rows
  BY <1>2, <1>3, <1>4 DEF Row, Rows
<1> QED
  BY <1>2, <1>3, <1>5 DEF Row

\* The rankings of the searches can be fused.
LEMMA SearchesFusable ==
  ASSUME PipelineInv
  PROVE  Fusable(rankings, Rows)
<1>1. rankings \in Seq(Seq(Rows))
  BY DEF PipelineInv, RetrievalTypeOK
<1>2. \A d \in Rows : d.serial \in Nat /\ d.index \in Nat
  BY RetrievalAssumption DEF Rows
<1>3. Identified(Documents(rankings))
  BY DEF PipelineInv, Ids, Identified
<1> QED
  BY <1>1, <1>2, <1>3 DEF Fusable

\* The initial states satisfy the invariant.
LEMMA InitPipelineInv == Init => PipelineInv
<1> SUFFICES ASSUME Init PROVE PipelineInv
  OBVIOUS
<1>1. Documents(rankings) = {}
  BY DEF Init, Documents
<1>2. Table = {}
  BY DEF Init, Table, RowsOf
<1>3. RetrievalTypeOK
  BY RetrievalAssumption DEF Init, RetrievalTypeOK
<1>4. Serials
  BY <1>1, RetrievalAssumption DEF Init, Serials
<1> QED
  BY <1>1, <1>2, <1>3, <1>4 DEF Init, PipelineInv, Ids, Identified, FusedFromSearches

\* What the next ingest stores.
Entry(l) == [layout |-> l, serial |-> ingests + 1]

\* An ingest stores its document and leaves some of its source's.
LEMMA IngestStores ==
  ASSUME NEW s \in Sources, Ingest(s)
  PROVE  \E l \in Layouts, beside \in SUBSET stored[s] :
           /\ stored' = [stored EXCEPT ![s] = beside \cup {Entry(l)}]
           /\ overlapped' \in {overlapped, overlapped \cup {s}}
<1>i. PICK seen \in 0..ingests, l \in Layouts :
        LET beside == {v \in stored[s] : v.serial > seen}
        IN  /\ stored' = [stored EXCEPT ![s] = beside \cup {Entry(l)}]
            /\ overlapped' = IF beside = {} THEN overlapped
                             ELSE overlapped \cup {s}
  BY DEF Ingest, Entry
<1>1. {v \in stored[s] : v.serial > seen} \in SUBSET stored[s]
  OBVIOUS
<1> QED
  BY <1>i, <1>1

\* An ingest gives its rows a new serial.
LEMMA PipelineIngest ==
  ASSUME PipelineInv, NEW s \in Sources, Ingest(s)
  PROVE  PipelineInv'
<1>1. PICK l \in Layouts, beside \in SUBSET stored[s] :
        /\ stored' = [stored EXCEPT ![s] = beside \cup {Entry(l)}]
        /\ overlapped' \in {overlapped, overlapped \cup {s}}
  BY IngestStores
<1>2. ingests' = ingests + 1 /\ ingests < MaxIngests /\ UNCHANGED pipeline
  BY DEF Ingest
<1>3. RetrievalTypeOK /\ Serials /\ Ids
  BY DEF PipelineInv
<1>4. ingests \in Nat /\ ingests' \in 0..MaxIngests /\ MaxIngests \in Nat
  BY <1>2, <1>3, RetrievalAssumption DEF RetrievalTypeOK
<1>5. stored' \in [Sources -> SUBSET Stored] /\ overlapped' \subseteq Sources
  <2>1. Entry(l) \in Stored
    BY <1>2, <1>4 DEF Entry, Stored
  <2>2. stored \in [Sources -> SUBSET Stored] /\ overlapped \subseteq Sources
    BY <1>3 DEF RetrievalTypeOK
  <2> QED
    BY <2>1, <2>2, <1>1
<1>6. RetrievalTypeOK'
  BY <1>2, <1>3, <1>4, <1>5 DEF RetrievalTypeOK, pipeline
<1>7. Documents(rankings)' = Documents(rankings)
  BY <1>2 DEF Documents, pipeline
<1> DEFINE new == RowsOfDocument(s, Entry(l))
<1>8. stored \in [Sources -> SUBSET Stored]
  BY <1>3 DEF RetrievalTypeOK
<1>9. \A d \in new : d.serial = ingests + 1
  BY DEF RowsOfDocument, Row, Entry
<1>10. \A d, e \in new : d.index = e.index => d = e
  BY DEF RowsOfDocument, Row
<1>11. \A d \in Table \cup Documents(rankings) :
         d.serial \in Nat /\ d.serial <= ingests
  <2>1. \A d \in Documents(rankings) : d \in Rows
    BY <1>3, DocumentsFinite DEF RetrievalTypeOK
  <2>2. \A d \in Rows : d.serial \in Nat
    BY <1>4 DEF Rows
  <2> QED
    BY <1>3, <2>1, <2>2, TableRows DEF Serials
<1>12. \A d \in Table' : d \in new \/ d \in Table
  <2> SUFFICES ASSUME NEW d \in Table' PROVE d \in new \/ d \in Table
    OBVIOUS
  <2>t. PICK t \in Sources : d \in UNION {RowsOfDocument(t, v) : v \in stored'[t]}
    BY DEF Table, RowsOf, RowsOfDocument, Row
  <2>1. PICK v \in stored'[t] : d \in RowsOfDocument(t, v)
    BY <2>t
  <2>2. (t = s /\ v = Entry(l)) \/ v \in stored[t]
    BY <1>1, <1>8
  <2> QED
    BY <2>1, <2>2 DEF Table, RowsOf, RowsOfDocument
<1> HIDE DEF new
<1>13. Ids'
  <2> SUFFICES ASSUME NEW d \in Table' \cup Documents(rankings),
                      NEW e \in Table' \cup Documents(rankings),
                      d.serial = e.serial, d.index = e.index
               PROVE  d = e
    BY <1>7 DEF Ids, Identified
  <2>1. d \in new \/ d \in Table \cup Documents(rankings)
    BY <1>12
  <2>2. e \in new \/ e \in Table \cup Documents(rankings)
    BY <1>12
  <2>3. CASE d \in new /\ e \in new
    BY <2>3, <1>10
  <2>4. CASE d \in Table \cup Documents(rankings) /\ e \in Table \cup Documents(rankings)
    BY <2>4, <1>3 DEF Ids, Identified
  <2>5. CASE d \in new /\ e \in Table \cup Documents(rankings)
    BY <2>5, <1>4, <1>9, <1>11
  <2>6. CASE d \in Table \cup Documents(rankings) /\ e \in new
    BY <2>6, <1>4, <1>9, <1>11
  <2> QED
    BY <2>1, <2>2, <2>3, <2>4, <2>5, <2>6
<1>14. Serials'
  <2>1. ASSUME NEW t \in Sources, NEW v \in stored'[t]
        PROVE  v.serial <= ingests'
    <3>1. v = Entry(l) \/ v \in stored[t]
      BY <1>1, <1>8
    <3>2. CASE v = Entry(l)
      BY <3>2, <1>2, <1>4 DEF Entry
    <3>3. CASE v \in stored[t]
      <4>1. v.serial \in Nat /\ v.serial <= ingests
        BY <3>3, <1>3, <1>4, <1>8 DEF Serials, Stored
      <4> QED
        BY <4>1, <1>2, <1>4
    <3> QED
      BY <3>1, <3>2, <3>3
  <2>2. \A d \in Documents(rankings)' : d.serial <= ingests'
    BY <1>2, <1>4, <1>7, <1>11
  <2> QED
    BY <2>1, <2>2 DEF Serials
<1>15. FusedFromSearches'
  BY <1>2 DEF PipelineInv, FusedFromSearches, pipeline
<1> QED
  BY <1>6, <1>13, <1>14, <1>15 DEF PipelineInv

\* A search finds each row once, in some order.
LEMMA FoundRows ==
  ASSUME NEW S, NEW rows \in SUBSET S, NEW r \in RankingsOf(rows)
  PROVE  r \in Seq(S) /\ Members(r) \subseteq rows
<1>1. PICK n \in 0..CandidateK : r \in [1..n -> rows]
  BY DEF RankingsOf
<1>2. n \in Nat
  BY <1>1, RetrievalAssumption
<1> QED
  BY <1>1, <1>2 DEF Members

\* What is found adds to the documents to fuse.
LEMMA DocumentsAfter ==
  ASSUME NEW S, NEW lists \in Seq(Seq(S)), NEW r \in Seq(S)
  PROVE  /\ Append(lists, r) \in Seq(Seq(S))
         /\ Documents(Append(lists, r)) = Documents(lists) \cup Members(r)
<1>1. Append(lists, r) \in Seq(Seq(S))
  OBVIOUS
<1>2. /\ DOMAIN Append(lists, r) = DOMAIN lists \cup {Len(lists) + 1}
      /\ \A n \in DOMAIN lists : Append(lists, r)[n] = lists[n]
      /\ Append(lists, r)[Len(lists) + 1] = r
  OBVIOUS
<1> DEFINE longer == Append(lists, r)
           last == Len(lists) + 1
<1> HIDE DEF longer, last
<1>3. /\ DOMAIN longer = DOMAIN lists \cup {last}
      /\ \A n \in DOMAIN lists : longer[n] = lists[n]
      /\ longer[last] = r
  BY <1>2 DEF longer, last
<1>4. Documents(longer) = Documents(lists) \cup Members(r)
  BY <1>3 DEF Documents
<1> QED
  BY <1>1, <1>4 DEF longer

\* Fused and deduplicated, the rankings are rows again, and no more of them.
LEMMA FusedRows ==
  ASSUME NEW S, NEW lists, Fusable(lists, S), NEW topK \in Nat
  PROVE  /\ DeduplicateSections(FuseRankings(lists, topK)) \in Seq(S)
         /\ Len(DeduplicateSections(FuseRankings(lists, topK))) <= topK
<1>1. PICK docs \in Seq(S) : docs = FuseRankings(lists, topK) /\ Len(docs) <= topK
  BY FusedRanking
<1>2. DeduplicateSections(docs) \in Seq(S) /\ Len(DeduplicateSections(docs)) <= Len(docs)
  BY DeduplicatedRanking
<1>3. /\ Len(docs) \in Nat /\ Len(DeduplicateSections(docs)) \in Nat
  BY <1>2
<1>4. Len(DeduplicateSections(docs)) <= topK
  BY <1>1, <1>2, <1>3
<1> QED
  BY <1>1, <1>2, <1>4

\* A search adds its rows' ranking; the last one's are fused at once.
LEMMA PipelineSearch ==
  ASSUME PipelineInv, NEW rows \in SUBSET Table, SearchOver(rows)
  PROVE  PipelineInv'
<1>1. PICK r \in RankingsOf(rows) :
        /\ rankings' = Append(rankings, r)
        /\ \/ Fuse(Append(rankings, r))
           \/ UNCHANGED <<step, candidates, fused>>
  BY DEF SearchOver
<1>2. UNCHANGED <<stored, ingests, overlapped, queries, expanded>> /\ step = "search"
  BY DEF SearchOver, table
<1>3. RetrievalTypeOK /\ Serials /\ Ids
  BY DEF PipelineInv
<1>4. Table \subseteq Rows /\ \A d \in Table : d.serial <= ingests
  BY <1>3, TableRows
<1>5. r \in Seq(Rows) /\ Members(r) \subseteq Table
  BY <1>4, FoundRows
<1>6. rankings \in Seq(Seq(Rows))
  BY <1>3 DEF RetrievalTypeOK
<1>7. /\ rankings' \in Seq(Seq(Rows))
      /\ Documents(rankings') = Documents(rankings) \cup Members(r)
  BY <1>1, <1>5, <1>6, DocumentsAfter
<1>8. Documents(rankings)' = Documents(rankings')
  BY DEF Documents
<1>9. Table' = Table
  BY <1>2 DEF Table, RowsOf, RowsOfDocument
<1>10. Ids'
  BY <1>3, <1>5, <1>7, <1>8, <1>9 DEF Ids, Identified
<1>11. Serials'
  BY <1>2, <1>3, <1>4, <1>5, <1>7, <1>8 DEF Serials
<1>12. Fusable(rankings', Rows)
  <2>1. \A d \in Rows : d.serial \in Nat /\ d.index \in Nat
    BY RetrievalAssumption DEF Rows
  <2>2. Identified(Documents(rankings'))
    BY <1>8, <1>10 DEF Ids, Identified
  <2> QED
    BY <1>7, <2>1, <2>2 DEF Fusable
<1>13. CASE Fuse(Append(rankings, r))
  <2>1. /\ fused' = DeduplicateSections(FuseRankings(rankings', FinalK))
        /\ candidates' = DeduplicateSections(FuseRankings(rankings', CandidateK))
        /\ step' = "expand"
    BY <1>1, <1>13 DEF Fuse
  <2>2. fused' \in Seq(Rows) /\ Len(fused') <= FinalK
    BY <1>12, <2>1, RetrievalAssumption, FusedRows
  <2>3. candidates' \in Seq(Rows) /\ Len(candidates') <= CandidateK
    BY <1>12, <2>1, RetrievalAssumption, FusedRows
  <2>4. RetrievalTypeOK'
    BY <1>2, <1>3, <1>7, <2>1, <2>2, <2>3 DEF RetrievalTypeOK
  <2>5. FusedFromSearches'
    BY <2>1 DEF FusedFromSearches
  <2> QED
    BY <1>10, <1>11, <2>4, <2>5 DEF PipelineInv
<1>14. CASE UNCHANGED <<step, candidates, fused>>
  <2>1. RetrievalTypeOK'
    BY <1>2, <1>3, <1>7, <1>14 DEF RetrievalTypeOK
  <2>2. FusedFromSearches'
    BY <1>2, <1>14 DEF FusedFromSearches
  <2> QED
    BY <1>10, <1>11, <2>1, <2>2 DEF PipelineInv
<1> QED
  BY <1>1, <1>13, <1>14

\* The expansion reads rows, and forgets the rankings.
LEMMA PipelineExpand ==
  ASSUME PipelineInv, NEW rows \in SUBSET Table, ExpandOver(rows)
  PROVE  PipelineInv'
<1>1. /\ UNCHANGED <<stored, ingests, overlapped, queries, candidates, fused>>
      /\ step' = "done" /\ rankings' = <<>>
      /\ expanded' \in SectionChunks(rows, SectionKeys(fused))
  BY DEF ExpandOver, table
<1>2. RetrievalTypeOK /\ Serials /\ Ids
  BY DEF PipelineInv
<1>3. expanded' \subseteq Rows
  BY <1>1, <1>2, TableRows DEF SectionChunks
<1>4. RetrievalTypeOK'
  BY <1>1, <1>2, <1>3 DEF RetrievalTypeOK
<1>5. Documents(rankings)' = {} /\ Table' = Table
  BY <1>1 DEF Documents, Table, RowsOf
<1>6. Serials' /\ Ids'
  BY <1>1, <1>2, <1>5 DEF Serials, Ids, Identified
<1> QED
  BY <1>1, <1>4, <1>6 DEF PipelineInv, FusedFromSearches

\* A failure leaves everything as it was.
LEMMA PipelineFails ==
  ASSUME PipelineInv, StatementFails
  PROVE  PipelineInv'
<1>1. /\ UNCHANGED <<stored, ingests, overlapped, queries, rankings, candidates, fused, expanded>>
      /\ step' = "failed"
  BY DEF StatementFails, table
<1>2. Documents(rankings)' = Documents(rankings) /\ Table' = Table
  BY <1>1 DEF Documents, Table, RowsOf
<1> QED
  BY <1>1, <1>2
  DEF PipelineInv, RetrievalTypeOK, Serials, Ids, Identified, FusedFromSearches

\* No step of the pipeline breaks the invariant.
LEMMA PipelineStep ==
  ASSUME PipelineInv, [Pipeline]_retrievalVars
  PROVE  PipelineInv'
<1>1. ASSUME NEW s \in Sources, Ingest(s) PROVE PipelineInv'
  BY <1>1, PipelineIngest
<1>2. ASSUME NEW rows \in SUBSET Table, SearchOver(rows) PROVE PipelineInv'
  BY <1>2, PipelineSearch
<1>3. ASSUME NEW rows \in SUBSET Table, ExpandOver(rows) PROVE PipelineInv'
  BY <1>3, PipelineExpand
<1>4. CASE StatementFails
  BY <1>4, PipelineFails
<1>5. CASE UNCHANGED retrievalVars
  <2>1. UNCHANGED <<stored, ingests, overlapped, queries, step, rankings, candidates, fused, expanded>>
    BY <1>5 DEF retrievalVars, table, pipeline
  <2>2. Documents(rankings)' = Documents(rankings) /\ Table' = Table
    BY <2>1 DEF Documents, Table, RowsOf
  <2> QED
    BY <2>1, <2>2
    DEF PipelineInv, RetrievalTypeOK, Serials, Ids, Identified, FusedFromSearches
<1> QED
  BY <1>1, <1>2, <1>3, <1>4, <1>5 DEF Pipeline

\* The invariant holds throughout.
THEOREM PipelineInvariance == RetrievalSpec => []PipelineInv
<1>1. Init => PipelineInv
  BY InitPipelineInv
<1>2. PipelineInv /\ [Pipeline]_retrievalVars => PipelineInv'
  BY PipelineStep
<1> QED
  BY <1>1, <1>2, PTL DEF RetrievalSpec

\* The rankings, the candidates and the expansion are rows throughout, and no
\* fused ranking is longer than asked.
THEOREM RetrievalTyped == RetrievalSpec => []RetrievalTypeOK
<1>1. PipelineInv => RetrievalTypeOK
  BY DEF PipelineInv
<1> QED
  BY <1>1, PipelineInvariance, PTL

\* Where the searches agree that d is above e, fusion and deduplication keep
\* d's section before they keep e.
LEMMA ConsensusKept == PipelineInv => FusionRespectsConsensus
<1> SUFFICES ASSUME PipelineInv, step = "expand",
                    NEW k \in DOMAIN fused, NEW d \in Documents(rankings),
                    \A n \in Ranked(fused[k], rankings) : Ahead(d, fused[k], rankings[n])
             PROVE  \E j \in 1..(k - 1) : KeyOf(fused[j]) = KeyOf(d)
  BY DEF FusionRespectsConsensus, Documents, KeyOf
<1>1. Fusable(rankings, Rows)
  BY SearchesFusable
<1>2. rankings \in Seq(Seq(Rows)) /\ FinalK \in Nat
  BY <1>1, RetrievalAssumption DEF Fusable
<1>3. fused = DeduplicateSections(FuseRankings(rankings, FinalK))
  BY DEF PipelineInv, FusedFromSearches
<1>4. PICK docs : docs = FuseRankings(rankings, FinalK)
  OBVIOUS
<1>5. docs \in Seq(Documents(rankings))
  BY <1>1, <1>2, <1>4, FusedRanking
<1>6. PICK p \in DOMAIN docs :
        /\ fused[k] = docs[p]
        /\ \A j \in 1..(p - 1) : \E m \in 1..(k - 1) : KeyOf(fused[m]) = KeyOf(docs[j])
  <2>1. k \in DOMAIN DeduplicateSections(docs)
    BY <1>3, <1>4
  <2>2. \E p \in DOMAIN docs :
          /\ DeduplicateSections(docs)[k] = docs[p]
          /\ \A j \in 1..(p - 1) : \E m \in 1..(k - 1) :
               KeyOf(DeduplicateSections(docs)[m]) = KeyOf(docs[j])
    BY <1>5, <2>1, DeduplicatedAbove
  <2> QED
    BY <1>3, <1>4, <2>2
<1>7. docs[p] \in Documents(rankings)
  BY <1>5
<1>8. \A n \in Ranked(docs[p], rankings) :
        /\ d \in Members(rankings[n])
        /\ RankIn(d, rankings[n]) < RankIn(docs[p], rankings[n])
  BY <1>6 DEF Ahead, Ranked
<1>9. Before(d, docs[p], rankings)
  BY <1>2, <1>7, <1>8, ConsensusBefore
<1>10. \E j \in 1..(p - 1) : docs[j] = d
  <2>1. /\ p \in DOMAIN FuseRankings(rankings, FinalK)
        /\ Before(d, FuseRankings(rankings, FinalK)[p], rankings)
    BY <1>4, <1>9
  <2>2. \E j \in 1..(p - 1) : FuseRankings(rankings, FinalK)[j] = d
    BY <1>1, <1>2, <2>1, FusedAbove
  <2> QED
    BY <1>4, <2>2
<1> QED
  BY <1>6, <1>10

\* Fusion respects the consensus of the searches, whatever is ingested between
\* them and whatever the limits are.
THEOREM ConsensusRespected == RetrievalSpec => []FusionRespectsConsensus
  BY ConsensusKept, PipelineInvariance, PTL
==============================================================================
