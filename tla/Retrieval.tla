------------------------------ MODULE Retrieval ------------------------------
(***************************************************************************)
(* internal/retrieval: the pipeline behind cmd/rag and cmd/eval,            *)
(* HybridRetrieve for one query and MultiQueryRetrieve for the original and *)
(* the rewritten one.  Each search and the final expansion are SQL          *)
(* statements of their own, outside any transaction, so ingests may commit  *)
(* between any two of them.  What they store is Ingestion's: whole          *)
(* documents, and of one source more than one when its ingests overlap.     *)
(*                                                                          *)
(* Distances and text ranks are abstracted: a search returns any ranking of *)
(* the rows that are stored when it runs.                                   *)
(***************************************************************************)
EXTENDS Fusion

CONSTANTS Sources,          \* canonical source names
          Sections,         \* section titles
          Layouts,          \* the documents: each chunk's section, in order
          MaxIngests,       \* bound: ingests committed during a behaviour
          QueryCounts,      \* 1: the question; 2: the question and its rewrite
          CandidateK,       \* TOP_K
          FinalK,           \* FINAL_K
          ExpandLimit       \* EXPAND_LIMIT; cmd/retrieval passes 0

Pairs == Sources \X Sections

ASSUME RetrievalAssumption ==
    /\ Layouts \subseteq Seq(Sections)
    /\ Pairs \subseteq DOMAIN Separated
    /\ MaxIngests \in Nat
    /\ QueryCounts \subseteq {1, 2}
    /\ CandidateK \in Nat \ {0}
    /\ FinalK \in Nat \ {0}
    /\ ExpandLimit \in Nat

VARIABLES stored,           \* each source's documents, each with its ingest's serial
          ingests,          \* serials given so far
          overlapped,       \* history: the sources of which two ingests overlapped
          queries,          \* the number of queries of this retrieval
          step,             \* "search", "expand", "done", "failed"
          rankings,         \* the results of the searches so far
          candidates,       \* the fused ranking at CandidateK, by section
          fused,            \* the fused ranking at FinalK, by section
          expanded          \* the rows of the expanded sections

table == <<stored, ingests, overlapped>>
pipeline == <<queries, step, rankings, candidates, fused, expanded>>
retrievalVars == <<table, pipeline>>

------------------------------------------------------------------------------
(* The table.                                                                *)

Row(s, n, i, t) == [source |-> s, serial |-> n, index |-> i, section |-> t]

RowsOfDocument(s, v) ==
    {Row(s, v.serial, i, v.layout[i]) : i \in DOMAIN v.layout}

RowsOf(s) == UNION {RowsOfDocument(s, v) : v \in stored[s]}

Table == UNION {RowsOf(s) : s \in Sources}

\* What a search may return: at most CandidateK rows, best first.
RankingsOf(rows) ==
    {r \in UNION {[1..n -> rows] : n \in 0..CandidateK} :
        \A i, j \in DOMAIN r : r[i] = r[j] => i = j}

------------------------------------------------------------------------------
(* Sections (retrieval.go).                                                  *)

\* Faulty variant: a section's share may be zero.
PerSectionFloor(keys) == ExpandLimit \div Cardinality(keys)

PerSection(keys) == Max({1, ExpandLimit \div Cardinality(keys)})

\* T is what ROW_NUMBER() puts first of a section's rows, n of them if there are
\* so many: the lowest indexes, in any order where two versions have the same.
FirstRows(T, rows, n) ==
    /\ Cardinality(T) <= n
    /\ Cardinality(T) = n \/ T = rows
    /\ \A d \in T, e \in rows \ T : d.index <= e.index

InSection(rows, p) == {d \in rows : PairOf(d) = p}

\* SectionChunks: the first chunks of each section, as many for each.
SectionChunks(rows, keys) ==
    {T \in SUBSET {d \in rows : PairOf(d) \in keys} :
        \A p \in keys :
            FirstRows(InSection(T, p), InSection(rows, p), PerSection(keys))}

------------------------------------------------------------------------------
Init ==
    /\ stored = [s \in Sources |-> {}]
    /\ ingests = 0
    /\ overlapped = {}
    /\ queries \in QueryCounts
    /\ step = "search"
    /\ rankings = <<>>
    /\ candidates = <<>>
    /\ fused = <<>>
    /\ expanded = {}

\* An ingest commits.  Its DELETE, which ran earlier, has seen the first `seen`
\* ingests and removed what they stored; a document of its source that was
\* committed since stays beside its own.
Ingest(s) ==
    /\ ingests < MaxIngests
    /\ ingests' = ingests + 1
    /\ \E seen \in 0..ingests, l \in Layouts :
          LET beside == {v \in stored[s] : v.serial > seen}
          IN  /\ stored' = [stored EXCEPT ![s] =
                              beside \cup {[layout |-> l, serial |-> ingests + 1]}]
              /\ overlapped' = IF beside = {} THEN overlapped
                               ELSE overlapped \cup {s}
    /\ UNCHANGED pipeline

\* The rankings are fused twice, for the expansion and for the reranker.
Fuse(lists) ==
    /\ fused' = DeduplicateSections(FuseRankings(lists, FinalK))
    /\ candidates' = DeduplicateSections(FuseRankings(lists, CandidateK))
    /\ step' = "expand"

\* The next statement of searchOne: the vector search, cut at the similarity
\* floor, or the keyword search, for each query in turn.  The last one's rows
\* are fused with the others at once.
SearchOver(rows) ==
    /\ step = "search"
    /\ \E r \in RankingsOf(rows) :
          /\ rankings' = Append(rankings, r)
          /\ \/ /\ Len(rankings) + 1 = 2 * queries
                /\ Fuse(Append(rankings, r))
             \/ /\ Len(rankings) + 1 < 2 * queries
                /\ UNCHANGED <<step, candidates, fused>>
    /\ UNCHANGED <<table, queries, expanded>>

\* Without a filter every stored row takes part.
Search == SearchOver(Table)

\* Faulty variant: the matched chunks are added to their sections' chunks.
ExpandWithMatches ==
    /\ step = "expand"
    /\ \E chunks \in SectionChunks(Table, SectionKeys(fused)) :
          expanded' = chunks \cup Members(fused)
    /\ step' = "done"
    /\ rankings' = <<>>
    /\ UNCHANGED <<table, queries, candidates, fused>>

\* The expansion statement, skipped when there is no section to expand.  The
\* rankings are only printed after it.
ExpandOver(rows) ==
    /\ step = "expand"
    /\ expanded' \in SectionChunks(rows, SectionKeys(fused))
    /\ step' = "done"
    /\ rankings' = <<>>
    /\ UNCHANGED <<table, queries, candidates, fused>>

Expand == ExpandOver(Table)

\* A statement fails or its context ends: the pipeline returns the error.
StatementFails ==
    /\ step = "search" \/ (step = "expand" /\ fused # <<>>)
    /\ step' = "failed"
    /\ UNCHANGED <<table, queries, rankings, candidates, fused, expanded>>

------------------------------------------------------------------------------
(* Properties.                                                               *)

Rows == [source : Sources, serial : 1..MaxIngests, index : Nat \ {0},
         section : Sections]

\* What an ingest stores.
Stored == [layout : Layouts, serial : 1..MaxIngests]

\* The variables keep their types, and no fused ranking is longer than asked.
RetrievalTypeOK ==
    /\ stored \in [Sources -> SUBSET Stored]
    /\ ingests \in 0..MaxIngests
    /\ overlapped \subseteq Sources
    /\ queries \in QueryCounts
    /\ step \in {"search", "expand", "done", "failed"}
    /\ rankings \in Seq(Seq(Rows))
    /\ candidates \in Seq(Rows) /\ Len(candidates) <= CandidateK
    /\ fused \in Seq(Rows) /\ Len(fused) <= FinalK
    /\ expanded \subseteq Rows

\* One version of each file, unless two ingests of it were under way at once.
Unmixed(docs) ==
    \A d, e \in docs :
        d.source = e.source /\ d.source \notin overlapped => d.serial = e.serial

\* A ranking's verdict on two documents: d is ahead of e.
Ahead(d, e, ranking) ==
    /\ d \in Members(ranking)
    /\ e \in Members(ranking) => RankIn(d, ranking) < RankIn(e, ranking)

\* Fusion respects a consensus: when every search that finds e ranks d above
\* it, d's section is kept before e, or e is not kept.
FusionRespectsConsensus ==
    step = "expand" =>
        \A k \in DOMAIN fused :
            \A d \in UNION {Members(rankings[n]) : n \in DOMAIN rankings} :
                (\A n \in Ranked(fused[k], rankings) :
                    Ahead(d, fused[k], rankings[n]))
                => \E j \in 1..(k - 1) :
                       Separated[PairOf(fused[j])] = Separated[PairOf(d)]
==============================================================================
