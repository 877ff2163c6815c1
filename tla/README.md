# Verification of the RAG service

This directory holds TLA+ modules for the Go program in `src/`: a retrieval
augmented question answering system on PostgreSQL/pgvector and Ollama. The
modules are translated from the code. TLC checks small instances of them, and
TLAPS proves the most important properties for every value of the constants.

Contents: [inventory](#inventory) · [modules](#modules-and-their-correspondence-with-the-code) ·
[runs](#runs) · [fairness](#fairness) · [proofs](#proofs) · [findings](#findings) ·
[limits](#what-is-not-modelled) · [plan](#plan)

## Inventory

The program is a set of commands that share one table (`documents`) and one
model server. There is no daemon: every command is one process with one
deadline (`REQUEST_TIMEOUT`), and processes meet only in the table and in files.

| component | code | state | operations | hard behaviour | correct when |
|---|---|---|---|---|---|
| Embedding worker pool | `internal/ingestion/concurrency.go` | semaphore, WaitGroup, first error, child context, result slots | launch, embed, retry with back-off, fail, release, return | launcher/worker interleavings, two contexts, a provider that never answers | at most `workers` calls at once, the error is the cause, nothing happens after the return, it ends |
| Ingestion command and document store | `cmd/ingest`, `internal/ingestion` | the file, the table, one transaction per invocation | load, dimension check, fingerprint, IsUpToDate, embed, DELETE, batched INSERT, COMMIT | concurrent invocations and edits, kills and deadlines in mid-transaction, lost commit answers | readers see whole documents; a success (or a skip) means the table holds the current file |
| Context budget | `internal/contextbudget` | groups per section, remaining budget, selection | group, round-robin passes, keep in input order | oversize chunks, sections of different length, boundary costs | the selection fits, nothing that fits is left out, sections are served fairly |
| Question answering command | `cmd/rag`, `internal/rag` | question, candidates, context, draft, answer | rewrite, retrieve, rerank, expand, budget, check, judge, generate, repair, strip | many optional stages, each failing in its own way; ingests committing between two statements | the context checked is the context sent; refusals and errors never reach the model; a validated answer has only valid citations |
| Retrieval | `internal/retrieval` | rankings, fused ranking, sections | vector and keyword search, similarity floor, fusion, deduplication, expansion, filters | ties, limits, statements that see different snapshots | what the searches agree on is not reordered, the expansion misses no section that is still stored |
| Reranking | `internal/reranking` | ranking, failure class | prompt, guarded call, parse, reorder; the lexical order | its timeout racing the request's | never aborts the request, never loses or repeats a document, names the cause of a fallback |
| Citations | `internal/citations` | spans of the answer | extract, match, validate, strip | separators inside names, adjacent spans, unclosed brackets | a stripped answer cites only its context |
| Answerability | `internal/answerability` | - | four judges and their parsers | free-form model answers | a refusal only on an explicit verdict, what was judged is what is sent |
| Chunking | `internal/chunking` | word windows, one index for all sections | split, overlap, size limits | the last window, equal headings, refused settings | every word is in a chunk, windows overlap as configured, the indexes read in order |
| Retrieval service command | `cmd/retrieval` | request, corpus, deadline, status | validate, authorize, embed, retrieve, respond | a file changes its corpus between two statements; failures at the deadline | a response shows rows in scope only, and there always is one |
| Bilingual experiment | `cmd/expbilingual` | the query cache and its file, arms, repeats, cases | load, generate variant, retrieve, fuse, guard, save | the dataset or the model changes between runs; the file is lost or cut short | a query fits the question and variant it is used for, and the model unless its file recorded none; arms share their queries |
| Evaluation command | `cmd/eval` | counters of every measurement | run cases, judge, rerank, report | free-form judges, repeated answers, ingests between the searches | every case is measured once, ratios stay within 1, the reports of one run agree |
| Configuration | `internal/config` | environment | parse, validate | settings that contradict each other | a window always advances |
| Loaders | `internal/loader`, `internal/document` | - | dispatch by extension, Markdown sections, PDF text | a page without text, a text before the first heading | a document is loaded whole or refused |
| Providers | `internal/provider`, `ollama`, `embedding`, `generation` | - | HTTP calls | hang, failure, malformed answer | a call answers, fails or ends with its context |
| Observability | `internal/observability` | timings | record | - | - |
| Migrations, scripts | `migrations`, `scripts` | - | - | - | - |

How they interact:

- `cmd/ingest` calls the loader and the chunker, then `IsUpToDate` on the table,
  then `ReplaceDocumentWithProvenance`, which first embeds every chunk through
  the pool (`mapOrdered`) and only then opens its transaction.
- `cmd/rag`, `cmd/retrieval` and `cmd/eval` read the table through
  `internal/retrieval`; they take no lock and open no transaction, so each of
  their statements sees its own snapshot while ingests commit.
- `cmd/rag` passes the retrieved chunks through reranking, the context budget,
  the answerability gate and the citation validator, calling the model server
  from most of these.

`PROJECT.json` lists the hazards of this code at the line where each one bites,
with the properties that cover it.

## Modules and their correspondence with the code

### EmbedContract, EmbedPool

`EmbedPool` is `mapOrdered` running `retryEmbed` for each chunk. One action is
one step another goroutine can observe.

| code | model |
|---|---|
| the launcher's `select` | `Skip` (`<-ctx.Done()`) and `Launch` (`sem <- struct{}{}`); both may be enabled, as in Go |
| `embed(ctx, text)` returns | `EmbedOK`, `EmbedErr` |
| `ctx.Err() != nil`, `attempt == retries` | `CheckErr`, a step of its own: the context may end between the failure and the test |
| `sleepContext` | `Wake`, `SleepAborted` |
| `errOnce.Do(...)` with `cancel()` | `Fail` |
| deferred token release, deferred `wg.Done()` | `Release`, `Exit`, in the order deferred calls run |
| `wg.Wait()` and the return | `Return` |
| the caller's deadline | `ParentEnds` |

The child context is done when it was cancelled or its parent is. `EmbedContract`
states what a caller may rely on in three variables: results appear one by one,
nothing changes after the return, and a return without an error that misses
an input happens only after the caller's context ended.

### DocumentStore, Ingestion

`Ingestion` is `cmd/ingest`'s `run` with `CheckEmbeddingDim`, `IsUpToDate` and
`ReplaceDocumentWithProvenance`, executed again and again by several shells.
A row of the table remembers its source, the invocation that wrote it, the
chunk index, the file version its content comes from, the fingerprint stored
with it, the chunker configuration and model (`key`) and whether it has a vector.
PostgreSQL is modelled from how the code uses it: `READ COMMITTED`, each statement
sees what was committed when it starts, a `DELETE` waits for the row locks of
other transactions and passes over rows that have gone meanwhile (`Delete`,
`Deleted`), an uncommitted transaction leaves nothing. `Committed` may end in
"failed": the server has committed and the client lost the answer. The pool
enters through its contract (`EmbedAll`), which `EmbedPool` is shown to implement.

`DocumentStore` says what readers of the table are promised: for every source
nothing or one whole document, replaced in one step.

### ContextBudget

`Build`'s loops, one action per branch: grouping by section, the round-robin
passes with skip, take and next pass, and the collection in input order. The
properties do not mention the loop variables: they speak of the documents, the
budget and the documents kept.

### Fusion, Retrieval

`Fusion` holds what the retrieval package computes from rankings, without
variables; `Retrieval`, `Evaluation` and `BilingualExperiment` use it.

`Retrieval` is `HybridRetrieve` (one query) and `MultiQueryRetrieve` (the question
and its rewrite) over a table that changes: the part `cmd/rag` and `cmd/retrieval` have in
common. It has actions and no specification of its own; `RagRequest` and
`RetrievalService` EXTEND it and give its actions their place in a request.
A row's id is the pair (serial of its ingest, chunk index), so ids grow in commit order; in the
table, two overlapping ingests may take them in the other order, which only matters where
score and rank are equal.

| code | model |
|---|---|
| one SQL search of `searchOne`, vector or keyword | `SearchOver`: any ranking of at most `TOP_K` of the rows it may see, stored when it runs; the last one also fuses |
| `FuseRankings` | `Score` (in units of a common multiple of the denominators), `Before` (score, best rank, id), `FusedUpTo` |
| `fuseAndExpand` | twice: cut at `FINAL_K` for the expansion, at `TOP_K` for the reranker |
| `DeduplicateSections`, `SectionKeys` | the same names; `Separated` is the joined key `source\|section` |
| `SectionChunksFiltered` | `ExpandOver` with `SectionChunks`, `PerSection`, `FirstRows`: the lowest indexes of a section, and any of the rows with the same index, which two versions of a file have |
| a statement's error | `StatementFails` |
| an ingest commits in between | `Ingest`: its `DELETE` has seen the first `seen` of the ingests before it. If no other ingest of its source committed since, the source's document is replaced by another whole one, which is what `DocumentStore` promises; if one did, its document stays beside the new one, as `ingest_duplicates` shows, and the source is in `overlapped` |

### RetrievalService

`cmd/retrieval`'s `run` over the same table, whose rows carry the corpus,
language and time of their ingest: `labels` is what each serial was stored under. Every
statement has the filters in its `WHERE`, so the pipeline is `Retrieval`'s over `Scope`.

| code | model |
|---|---|
| read, size limit, JSON, schema, in the code's order | `Checks`, `Refuse` |
| the allowlist | `Authorize`; the deadline's context starts there |
| `config.Load`, the provider, `Connect`, `Embed` | `Load`, `Prepare`, `PrepareFails` |
| `filterFragment` | `Matches`: a `NULL` matches no criterion, an unset or unparsable instant is no criterion |
| the searches, the expansion, the response | `SearchStep`, `ExpandAndAnswer`; the expanded rows are used only when nothing was fused |
| a failed statement and the `ctx.Err()` read after it | `RetrievalFails`, then `Classify` |
| `deadline_ms` or 30 seconds | `Deadline` |

`eligible` is a history variable: the serials stored when the request passed the allowlist,
and those of the ingests after it.

A corpus is what `TrimSpace` leaves of it. `response.Truncated` is left out: with a limit of
`top_k` on the fused list it cannot become true.

### RagRequest, Reranking

`RagRequest` is `cmd/rag`'s `run`, composed with `Retrieval` (its `SearchStep` and
`ExpandStep` are `Retrieval`'s actions) and with `Reranking`, which holds what a
model's ranking is worth (`parseRanking`, `InOrder`), the names of the fallbacks, and the
lexical order `cmd/eval` compares with (`RerankByWords`).

| code | model |
|---|---|
| `CheckQuestion`, connection, dimension check, embedding, rewrite and its embedding | `CheckQuestion`, `Prepare` (one step for each stage of `AfterPreparing`) |
| `retrieveDocuments` | `SearchStep`, `ExpandStep` |
| `RerankLLMWithTimeout`, its model answering | `Rerank`: any reply; the order is taken only when every candidate is in it once |
| the guard's context ends, the call fails | `GuardExpires`, `RerankFails` |
| `classifyGeneratorError` | `Classify`, `Attribute`: the error and then the guard's context are read at two moments, and the guard may expire in between |
| `rerankAndExpand`'s second expansion | `ReExpand` |
| `contextbudget.Build`, `CheckContext`, `isAnswerable`'s early answers | `Budget` (any part of the documents; `ContextBudget` says which) |
| `answerability.IsAnswerable` | `Judge` |
| `AnswerValidated`, `finishOutcome` | `Answer`, `Repair`, `RepairFallsBack`, `Finish` |
| an error that `run` returns | `Fails` |
| `REQUEST_TIMEOUT` | `Deadline`; a call succeeds only while `ctxDone` is false |

An answer is the set of (source, section) pairs it cites; `settings` are the
optional stages, all combinations.

### Citations

`ParseSpans`, `parseCitation`, `Valid` and `Strip` on an answer that is a
sequence of tokens: `[`, `]`, separators, names, pages, words.

| code | model |
|---|---|
| an iteration of `ParseSpans`, its end | `ScanBracket`, `EndScan` |
| `parseCitation` with `parsePageSegment` | `parseCitation`, `ClaimsPage` on tokens |
| a citation `Strip` keeps, one it removes, the rest | `KeepSpan`, `RemoveSpan`, `Finish` |
| `needsSeparator`, `isWordByte` | `needsSeparator`, `Words` |
| the builder | `kept`, the positions written, and `spaced`, those with a space behind them |

The properties do not mention the loops. `IsWritten` says what a citation is to who
writes one: a `[` and a `]` with a separator and no bracket between them; `CitationsFound` says
which of those are extracted. `BracketIn` says which brackets `ParseSpans` would read in some
tokens, which is what a consumer of the stripped answer sees (`ResultCitationsValid`);
`AnswerCitations` are those of the whole answer. The two differ behind an unclosed `[`,
which hides the citation behind it ([findings](#findings)).

### Chunking

From the settings to the chunks `cmd/ingest` embeds: `Load`'s validation of
`CHUNK_SIZE` and `CHUNK_OVERLAP` (`LoadConfig`, `ConfigFails`), the registry and the three
loaders (`LoadFile`, `LoadFails`), and `FromSections` with `splitWords`, one action per
section skipped (`SkipSection`), kept whole (`WholeSection`) or window (`Window`). A
file is the sequence of its parts (what precedes the first heading and the headings, or
the pages, or all of it), each a title and a number of words; a chunk names the
positions of its words. The properties compare the chunks with the file, not
with the loops.

### Evaluation

`cmd/eval`'s `run`: one action per measurement of a case, in the code's order,
with the switches that leave one out (`AfterEvidence`, `AfterAnswer`, `AfterGate`,
`AfterLexical`), and every counter of `stats`. Searches return any ranking, judges answer
anything their parsers accept; a reply that does not parse ends the run, as in the code.
`printOverall` is the set of ratios the report prints.

### BilingualExperiment

`cmd/expbilingual`'s `run`, executed again with other arms, another chat model or an
edited dataset. `file` is the query cache on disk, `cache` the run's copy. A file may be there from
before; `Legacy` are those that record no model, whose texts are of `NoModel`.

| code | model |
|---|---|
| `loadCache` | `loadCache`: a file that records another model, or is unreadable, is empty; one that records no model is used whole, under any model |
| `generate` | `generateFromCache`, `generateFromModel` with `Cached` and `Store`; a blank answer is used and stored, but not taken from the cache |
| the arms' searches and lists | `SearchOriginal`, `Measure`: `Rankings` (the hits an arm fuses), `Lists` (their searches, in the code's order), `GuardOK`, `baselineFirst` |
| the loops over arms, repeats, cases | `NextCase` |
| `saveCache` after the last case | `saveCache`: written under the run's model, unchanged, or cut short, without an error |
| a failed call, an interrupt | `RunFails`: nothing is saved |

The searches of one case read and change nothing else, so they are one step. `fusedAll` looks
the fused list up in a table of all combinations of hits (`fusions`), which TLC computes once;
its entries are `Fused`, the code's fusion and deduplication.

## Runs

| run | checks | shows |
|---|---|---|
| `embed_pool` | `PoolTypeOK`, `WorkerBound`, `ErrorIsRootCause`, `ImplementsContract`, `Termination`, `ErrorStopsPool` | all interleavings of launcher, three chunk workers, retries, failures, cancellation and deadline; the pool ends once the deadline passes or a chunk fails for good, although no call is obliged to answer |
| `ingest_shared` | `TypeOK`, `WholeDocuments`, `InvocationsEnd` | two shells on one file that is edited at any time: what is stored was stored whole, and every invocation ends, whatever hangs or is locked |
| `ingest_own` | `SuccessMeansCurrent`, `ImplementsStore` | a shell per source, two configurations: success means current, the table implements `DocumentStore` |
| `ingest_duplicates` | `NoDuplicates` (violated) | two concurrent ingests of a source store it twice |
| `ingest_stale` | `ChangedFileReplaced` (violated) | an edit between the two reads of the file is lost for good |
| `context_budget` | `TypeOK`, `WithinBudget`, `Maximal`, `NoEnvy` | every list of up to four documents, five budgets |
| `rag_request` | `TypeOK`, `AnsweredFromOneVersion`, `AnsweredFromJudged`, `CitedFromContext`, `DraftNeverLost`, `FallbackHonest`, `RequestEnds` | one request, with and without its rewrite, every combination of rerank, its guard, gate and validation, failures, both deadlines and ingests anywhere, overlapping or not: the context is of one version of each file whose ingests did not overlap and judged as it is sent, an answer is never lost, a fallback names its cause, the request ends |
| `retrieval_service` | `ServiceTypeOK`, `EvidenceInScope`, `FusionRespectsConsensus`, `ExpansionCoversScope`, `RequestAnswered` | ten requests, while ingests move two files between corpora: the evidence is in scope and was stored during the request, fusion keeps what the searches agree on, no section of the scope is missed, a response is always written |
| `citations` | `TypeOK`, `CitationsFound`, `OnlyInvalidRemoved`, `ResultCitationsValid` | every answer of up to four pieces: a citation is found exactly when no `[` is left open in front of it, only invalid ones are removed and none is left |
| `chunking` | `NothingLost`, `WindowsOverlap`, `ReadsInOrder` | every file of up to three parts, every format, every sort of setting: a document is ingested whole or not at all, windows overlap as configured, the indexes count from 0 and read in the order of the document |
| `evaluation` | `RatesWithinOne`, `EveryCaseMeasured`, `RecallsAgree` | whatever the searches, the model and the judges answer: ratios stay within 1, every case is measured once, the hybrid recall does not fall with K and no reranker recalls more than its candidates |
| `bilingual` | `QueriesMatch`, `ArmsShareQueries`, `BaselineKept` | two runs with failures and a cache file that may be lost, cut short or record no model: queries fit what they are used for, arms share them, D2 keeps the baseline |

Bounds, and why they are enough:

- `EmbedPool`: three chunks, two workers, one retry. Two run while one waits for
  a slot; a waiting one can be passed over after a cancellation; a back-off and
  its exhaustion both occur. The theorems carry the safety properties to every number.
- `Ingestion`: `MaxRuns` 2 or 3 invocations over 1 or 2 shells, so that two overlap
  and a third meets what they left; `MaxVersion` 2 or 3 versions of 3, 2, 1 and 0
  chunks with a batch of 1 or 2, so that a document is exactly one batch, more
  than one, or empty. `Size`, `BatchSize` and the keys are constants.
- `ContextBudget`: `MaxDocuments` 4 over three sections, lengths 1, 10, 30 and
  budgets that disable the builder, fit one document exactly, miss two by a
  byte, or fit some of four.
- `RetrievalService`: two files whose versions have two sections of one chunk or one
  section of two, `MaxIngests` 2, so that a file can be replaced or moved to another corpus
  between two statements; four labels (two corpora, none; two languages and none; two
  times), ten requests (each filter alone, a corpus that is not allowed or not set, each
  defect and pairs of them). `CandidateK` is 2 and up to four rows match, so that `LIMIT` cuts.
- `RagRequest`: one file and `MaxIngests` 2, so that the searches, the expansion and the
  re-expansion can each meet another version, or two at once when the second ingest has not
  seen the first. A version is one chunk, of either section: a question then meets none, one or
  both sections. One or two queries, hence two or four rankings, `TOP_K` 2 and `FINAL_K` 1, so that the
  reranker has a choice (of rows found before and after an ingest, or stored side by side) and its reply
  can be too short, too long, repeated or out of range. Documents of several chunks go through
  the same pipeline in `retrieval_service`, with one query; the theorems cover every layout.
- `Citations`: up to `MCPieceCount` 4 of ten pieces, among them single brackets, so
  that brackets can be nested, unclosed in front of a citation, adjacent, or be made of what stands on both
  sides of a removal. The theorems carry the properties to every answer.
- `Chunking`: `MaxParts` 3, so that a heading can be repeated with another one in
  between; parts of 0, 2 and 5 words and sizes 1, 2, 3, 4, so that a part is empty,
  smaller than a window, exactly one, or several with and without a short last one; overlaps
  0, 1, 2 and those that are refused.
- `Evaluation`: two chunks, each a section; a case that can be answered and one that cannot,
  in both orders; `TOP_K` 2, which is also one of the fixed K values, and `FINAL_K` 1, so that
  a reranker has a choice. The five settings turn every measurement on at least once;
  no optional measurement reads a variable that another one writes.
- `BilingualExperiment`: `MaxRuns` 2, the least in which a file is written and read; before the
  first run there is no file, or one of no model with two of an entry's three texts; four
  settings with two models and two questions under one id and five of the six arms (C lists what
  E does without its guard); three hits over five sections, so that D2's list of four is cut; two
  answers to one prompt, and a blank one.
- The deadlock check is off in the ingestion and bilingual runs only: when every
  invocation the bound allows has ended, nothing is left to do. The others have an
  explicit step for "returned".

Every property has a mutant in `PROJECT.json`: the definition it replaces stands
next to the operator with the mistake (marked "Faulty variant"), and the run finds the
property violated.

## Fairness

- `EmbedPool`: the Go scheduler runs every goroutine that can run, and timers
  fire (`WF` of the launcher and of each worker's own steps). An embed call is
  only obliged to return once its context is done, because the HTTP request
  carries that context. Nothing obliges the deadline to pass: `Termination` says
  what follows once it has, `ErrorStopsPool` does without it.
- `Ingestion`: reading a local file ends, the deadline fires, and a call that
  waits returns when its context is done. Nothing is assumed of the provider,
  the network, the database or the holder of a lock.

- `RagRequest`: the command's own computations take place (`Computes`), the timers
  of the request's context and of the reranker's guard fire (`Deadline`, `GuardExpires`), and a call whose context is done
  returns an error (`DoneCallReturns`): pgx and `net/http` watch the context each call
  is given. Nothing obliges the model server or the database to answer. An ingest
  need not commit.
- `RetrievalService`: the same three, with the deadline of the request.
- `Evaluation` and `BilingualExperiment` state no fairness: `cmd/eval` and
  `cmd/expbilingual` run on `context.Background()`. Only some of their model calls have a
  timeout of their own, and a statement or an embedding that hangs hangs them, so no
  liveness can be claimed.

## Proofs

| module | theorem | statement |
|---|---|---|
| `IngestionProofs` | `PoolTyped`, `BoundedWorkers`, `RootCause`, `Refinement` | the pool: types, worker bound, root cause, implementation of `EmbedContract`, for every number of chunks, workers and retries (zero and negative arguments included) |
| `IngestionProofs` | `Overlap`, `ReadBack`, `Whole` | the chunks, for any file of any number of parts and words, and any settings |
| `IngestionProofs` | `TypeCorrect`, `StoredWhole` | the table, for any shells, sources, versions and batch size, with shared sources and edits at any time |
| `IngestionProofs` | `StoreRefinement`, `SuccessIsCurrent` | when no two shells share a source; `SuccessIsCurrent` also when no file is edited during an invocation |
| `BudgetAndBilingualProofs` | `TypeCorrect`, `SpendsAll`, `SpendsFairly`, `KeptWithinBudget` | the budget, for any documents, lengths and budget |
| `BudgetAndBilingualProofs` | `Matching`, `Sharing`, `BaselineHolds` | the experiment, for any arms, models, datasets of distinct ids, hits, answers, fates of the cache file and number of runs |
| `FusionProofs` | - | lemmas on sums, positions in an order, fusion and deduplication, for any rankings |
| `RetrievalProofs` | `RetrievalTyped`, `ConsensusRespected` | the pipeline both commands run, for any files, sections, limits and number of ingests |
| `RetrievalServiceProofs` | `Isolation`, `Coverage`, `ServiceConsensus`, `ServiceTyped` | for any labels, requests, allowlist, sources, limits and number of ingests |
| `RagRequestProofs` | `TypeCorrect`, `OneVersion`, `JudgedContext`, `CitationsResolve`, `DraftKept`, `FallbackTold` | for any sources, layouts, limits, settings and number of ingests |
| `EvaluationProofs` | `Rates`, `CasesMeasured`, `Recalls`, `RerankersReorder` | for any rows, datasets of any length, settings, answers and replies, K and failures; the last is about the operators of `Reranking`, which `RagRequest` uses too |
| `CitationsProofs` | `TypeCorrect`, `ScanExact`, `StripExact`, `StripSound` | for any answer and context |

Every invariant a passing run checks is a theorem, and so are the two refinements. Two modules
hold the proofs of several components. `IngestionProofs` is about the three parts
of `cmd/ingest`; `BudgetAndBilingualProofs` about two that only share the lemmas on sums and rankings.

Assumptions: `PoolAssumption`, `IngestionAssumption`, `BudgetAssumption`,
`RetrievalAssumption`, `RagAssumption`,
`ServiceAssumption`, `CitationsAssumption`, `ChunkingAssumption`, `EvaluationAssumption` and
`BilingualAssumption`, which TLC evaluates, and the hypotheses the theorems name. Those
that are more than types: an answer cites one of finitely many pairs (`RagAssumption`, answers
being finite texts); the ids of two rows differ (`EvaluationAssumption`, `BilingualAssumption`:
`id` is the table's `bigserial` primary key); the ids of the cases of a dataset differ, and
what a cache file that records no model holds stands under its question and variant
(`BilingualAssumption`: such files were written by `generate` too).

The arguments:

- `EmbedPool`. The inductive invariant counts: the semaphore equals the number of
  workers that hold a token, the WaitGroup the number that has not exited, a
  chunk the launcher has not reached is idle, a chunk passed over or failed
  means the context is done, and a recorded error comes with the cancellation.
  `WorkerBound` follows because callers hold tokens; `ErrorIsRootCause` because
  `errOnce` records before it cancels, so the first error cannot be the
  cancellation's consequence. `Return` waits for a WaitGroup of zero, which
  gives the refinement.
- `Ingestion`. The rows a transaction holds in `inserted` are a prefix of its document,
  cut at `sent`; a transaction whose vectors are incomplete has a done context and
  cannot pass `Begin`; every row a transaction deletes belongs to a whole document
  that it deletes entirely, because its snapshot of whole documents is a set of
  whole documents. With one shell per source the snapshot is all there is, so a
  commit replaces the source's document by one whole document.
- `ContextBudget`. Grouping builds, for every section, the increasing sequence
  of its documents; a cursor (pass, group) separates the documents that were
  offered from those that were not; each document offered and not taken was larger
  than the remaining budget then, which only shrinks (`Maximal`), and the
  round-robin order of the cursor is `Precedes` (`NoEnvy`). `WithinBudget` sums the
  documents kept once more, by a fold over the list: `Paid` says that the remaining budget and
  the cost of what is selected add up to the budget, and that the list collected so far costs what
  the selected positions before the cursor do, so no document is paid for twice or not at all.
- Sums (`FusionProofs`). The library's sums are recursive functions, about which nothing is known
  before a solution of the recursion is shown to exist. `FoldExists` does that, by
  induction over the subsets of a finite set (`SubsetSteps`, itself from the least element of
  a set of naturals, since the provers cannot instantiate an induction theorem over a
  predicate). From there sums are `Total`: one element more adds its term, larger terms
  give no smaller sum, and two sums over sets that correspond are equal.
- Fusion. A rank is a positive integer, so each term of `Score` is positive and smaller for a
  lower rank; hence `Before` is a total order of the documents found (`id` decides last), the fused
  list is its first k in order, and a higher position of a document in every ranking that
  has the other puts it before the other (`ConsensusBefore`). Deduplication keeps the first row of
  each section, so an order of documents becomes an order of sections.
- `Retrieval`. `cmd/rag` and `cmd/retrieval` both take steps of `Pipeline`, whose
  invariant says that serials are given in order, that an id names one row among those stored
  now and those found earlier, and that the fused list is the fusion of the rankings
  (`PipelineInv`). `ServesPipeline` shows that a request is such a run, which carries
  `ConsensusRespected` over to `cmd/retrieval`.
- `RagRequest`. A source whose ingests never overlapped has one document stored (`OneStored`):
  each of its ingests has seen, and deletes, what was there. So what one expansion statement
  returns has one version of it, a source that has overlapped stays so (`OverlappedGrows`), and the context is always part of
  one statement's result: the re-expansion replaces the first one. From the budget on
  the context does not change: `judged` and `sent` are it. `Strip` leaves pairs of
  the context only, whichever answer it is applied to. A timeout is
  recorded only where the guard was seen expired, which never reverts, and a fallback leaves
  the documents of the fused expansion (`FallbackTold`).
- `RetrievalService`. A row is *found* when its serial's label matches the request and the
  serial was stored when the request passed the allowlist, or came later (`eligible`). Labels never
  change and `eligible` does not after that, so a row that was found stays found whatever is
  ingested. Every document stored at a later moment has an eligible serial (`StoredEligible`), so
  every row in scope then is found, and the rankings, the fused list and the
  expansion hold found rows only, in whichever order their statements ran (`Isolated`).
  `Coverage` follows from `FirstRows`: of a section that has rows the statement returns all, or as
  many as its share, which is at least 1, also when the limit divides to 0. That the division is by a positive number needs the fused list to be finite, which `FusionProofs` shows.
- `Chunking`. `at` and `start` split the words of the sections into those behind the cursor, which
  are in a chunk (`Covered`), and those ahead, which are in none (`Ahead`). The last chunk of a
  section under way ends exactly `overlap` words behind the next window's start (`Underway`),
  which gives the overlap of neighbours; the index is the number of chunks made (`Indexed`),
  and the chunks are ordered by (part, first word) (`Ordered`), so that the indexes of one
  title read in order, headings repeated or not. That `overlap < chunkSize` is checked before
  (`WindowAdvances`) is what makes `Covered` survive a window.
- `Citations`. The invariant of the scan: the spans are the citations `ParseSpans` reads
  (`BracketIn`) among the brackets that close up to the offset, and behind the offset no bracket is
  open, so the next one found is the next one to be read. `ScanExact` adds what that means for
  citations as they are written: the first `[` that is left open in front of one, or its own,
  begins a bracket that ends with it. The invariant of the
  copying: up to the cursor exactly the removed citations are missing. That
  the removal makes no new citation needs an argument about the nearest bracket:
  if a `]` between the ends of a result's bracket had been removed, the first such one
  would close a removed citation that opens inside the bracket, and a reader of the
  answer would have read that citation's `[` only after an earlier `]`, which is
  earlier than the first. `Least` (a minimum exists, from the library's
  well-foundedness of `<` on naturals) makes this an argument by minimal
  counterexample.
- `BilingualExperiment`. What a cache holds was made for the variant it is under, the question
  of its entry, and by the model that the cache is used with or by an unknown one (`Made`), whether it
  was read, replaced or cut short: a file of another recorded model is dropped, and one of no
  model has texts of no known model only (`LegacyMade`). A
  non-blank query used for a case of this run is still the one its entry holds (`UsedKept`): the ids
  of a dataset differ, so only another question's entry is ever replaced, and a variant that is
  held is not generated again. `BaselineKept` is about one result (`Results`: there is none but
  between a measurement and the next case): fusing the original query alone at 1 and at the full
  length begins with the same document, and skipping the pinned section's documents keeps the order
  of the others, so the first three sections of the translated list are among the four kept.
- `Evaluation`. A case goes through its measurements one at a time, so a counter
  can not be compared with the number of cases begun. The invariant compares each with the cases
  that are past its own measurement: `Past` of the places a case may be in before it, by which
  `Counted` says how often each measurement was taken, `RankingsBounded` that each recall adds at
  most 1 per answerable case, `Decided` that the gate decides once per case. A run that failed
  keeps the bounds and not the equalities. `Parts` includes the citations of the answer
  under judgement that are still to come, without which `judgedCitations` could pass `totalCitations`.
  For `RecallsAgree`, the recall of the candidates is added to the hybrid sum when they are
  expanded and to a reranker's several steps later: `Pending` is what a reranker may
  still add, and each of its sums plus that stays below the hybrid one. That recall does not fall
  with K follows from `FusedUpTo` at a smaller K being a prefix of that at a larger one, that the reranked
  documents recall no more than the candidates from both rerankers giving back their list
  in another order (`RerankersReorder`: n numbers in range, none twice, leave out none).

Only model-checked: the liveness properties (`Termination`, `ErrorStopsPool`,
`InvocationsEnd`, `RequestEnds`, `RequestAnswered`), which the prover cannot handle: they rest on
fairness, hence on `ENABLED`.

## Findings

- `ingest_duplicates`: "the store never accumulates duplicates"
  (`docs/guides/usage.md:60-61`), but two concurrent ingests of one file both
  insert, and the next ingest finds all rows up to date and skips.
- `ingest_stale`: "re-running a changed file replaces that file's stored chunks"
  (`cmd/ingest/main.go:2-3`), but the file is read twice; a save between the reads
  stores old chunks under the new fingerprint, and later runs skip the file.

Seen while modelling, without a run of their own:

- "A bracket that is unclosed ... is not a citation and is skipped", and `ParseSpans` "extracts every
  citation" (`internal/citations/citations.go:58-61`, `72`), but an unclosed `[` reaches to the next `]`
  (line 91): in `see [note [a.md - Fees]` the source read is `note [a.md`, so the valid citation is not
  found, the longer bracket counts as an invalid one, and `Strip` removes both. `CitationsFound` says exactly
  which citations are hidden in this way, and that no others are.

- The query cache is "keyed by chat model + case id" (`docs/rq-006-decision-record.md:95`), but
  `loadCache` uses a file that records no model under any model (`cmd/expbilingual/main.go:401`), and
  `saveCache` then records the run's model for texts that model did not make. `cmd/expbilingual` itself
  never writes such a file.
- `DeduplicateSections` joins source and section with a `|` (`retrieval.go:216`): where either contains
  one, two sections may count as one and the later is dropped. `Separated` models the joined key.

- "DefaultExpandLimit caps how many section chunks cmd/rag sends as context"
  (`internal/config/config.go:120`), but every section gets at least one chunk
  (`retrieval.go:425`), so more sections than the limit exceed it.
- "words are not fused" (`internal/citations/citations.go:209`), but `foo[x.md - A][y.md - B]bar`
  with two invalid citations becomes `foobar`: the first removal has a `[` behind it, the
  second nothing in front of it (line 234), so neither sees two words.
- The prompt asks to copy source and section "exactly as they appear" (`internal/rag/answer.go:56`);
  `NormalizeCitation` then turns the dashes of the citation into hyphens and `Valid` compares
  it with the section as stored (`citations.go:45-46`, `171`), so a title with an en or em dash
  has no citation that resolves.
- `mapOrdered` returns results with empty slots and no error when its caller's context ends
  while the launcher waits (`concurrency.go:48`). `EmbedContract` states what is left of the
  promise, and `WholeDocuments` shows that the caller cannot store the hole, because its next
  call, `conn.Begin(ctx)`, fails on the same context.
- A page behind a section title that itself contains " - " is read as part of the title
  (`citations.go:133` cuts at the first separator); the citation is then invalid, never wrong.
- `cmd/retrieval` ignores a time filter it cannot parse instead of refusing the request, and
  a `deadline_ms` that overflows a duration expires at once.
- `cmd/eval` asks the entailment judge about a citation whose page is wrong, although the
  validity count has it as invalid; one judge reply that does not parse ends the whole
  evaluation without a report; and its vector recall, unlike the hybrid one (`RecallsAgree`), need
  not grow with K while ingests commit, because every K is a search of its own.
- `cmd/expbilingual` saves its cache only after the last case and ignores the write's error, so
  a failure loses every generated query; a query that came back blank is generated again by
  the next arm; two runs at once overwrite each other's file.

## What is not modelled

Vectors and distances, texts and prompts, the wording of errors, the length of
a back-off, and the pacing of timers are abstracted: none of the properties is
about them. In `Ingestion`, a source is a model value (path resolution is a
function of the path) and the check of the table's vector width is one step that
passes or fails. The corpus and language an ingest stores are in
`RetrievalService`; `Ingestion` leaves them out, because `IsUpToDate` compares neither: a file
ingested again unchanged under another corpus keeps its old label, which is listed as a
hazard.
Ties of fused scores are exact in the model; the code adds a few floating-point
reciprocals, whose last bit only decides between documents with the same
ranks. In `RagRequest` the HTTP client's own timeout and the final
`conn.Close(context.Background())` are left out, and printing takes no time. `Evaluation`
leaves out wall times and the pre-filter dump, which only prints; `BilingualExperiment` leaves
out the printed recall of evidence and assumes that the ids of a dataset differ (equal ids
would evict each other's queries).

Not modelled at all, because they hold no state the program's logic depends on:

- Providers: HTTP calls to the model server. The modules use them as a call that
  answers, fails or ends with its context.
- Observability: writes timings and usage counts that nothing reads back.
- Configuration, apart from the chunk settings: each setting is read once and checked
  on its own; the modules take the values as constants or as any choice.
- PDF text extraction is a library; migrations are SQL applied by hand, and the table is
  modelled from how the code uses it; scripts drive evaluation sweeps.

## Plan

Done: the pool, the ingestion with its store, the context budget, retrieval
with both commands that use it, reranking, citations, chunking with its loaders, the
evaluation and the bilingual experiment, with a proof of every safety property of each.
Left: the labels of `Ingestion` (corpus and language), so that the stale label of an unchanged
file is a run of its own; the request's contract as an abstract specification that
`RagRequest` implements; and properties for the hazards that have none yet.

Runs are kept to one per question: a module that another one composes is checked in
the composition (`Fusion`, `Retrieval` and `Reranking` have no run of their own).
