----------------------------- MODULE RagRequest -----------------------------
(***************************************************************************)
(* cmd/rag run(): one question, from the command line to its answer, with   *)
(* the optional stages its settings switch on, while ingests commit.        *)
(* Retrieval's actions are the pipeline steps; this module adds what        *)
(* happens before them (checks, connection, embedding, query rewrite) and   *)
(* after them (rerank and re-expansion, context budget, input limit,        *)
(* answerability gate, answer, citation validation and repair).             *)
(*                                                                          *)
(* A call to the model server or the database can succeed while the request *)
(* context is alive, and can fail at any time.  An answer is the set of     *)
(* (source, section) pairs it cites: its text matters to no property.  The  *)
(* two size limits are checks that pass or fail, and a context budget keeps *)
(* any part of the expanded rows (ContextBudget says which); switched off   *)
(* they pass and keep everything, which is among these outcomes.            *)
(***************************************************************************)
EXTENDS Retrieval, Reranking

\* The pairs are those that ever occur in a document or in an answer, and each
\* of these is a text.
ASSUME RagAssumption == IsFiniteSet(Pairs)

VARIABLES settings,         \* which optional stages are on
          pc,               \* the stage of the request
          ctxDone,          \* REQUEST_TIMEOUT has elapsed
          documents,        \* the context: rerankAndExpand's, then Build's
          guardExpired,     \* RERANK_TIMEOUT has elapsed during the model's rerank
          rerankErr,        \* what the reranker's call failed with, till classified
          reranked,         \* the reranker's choice of the candidates, till expanded
          fallback,         \* why the reranker fell back, as it reports
          judged,           \* the context the answerability judge was shown
          sent,             \* the context the answer prompt contained
          draft,            \* what the model cited in its first answer
          answer,           \* what the returned answer cites
          outcome,          \* AnswerValidated's Outcome
          result            \* how the request ended

rerankVars == <<guardExpired, rerankErr, reranked, fallback>>
ragVars == <<settings, pc, ctxDone, documents, rerankVars, judged, sent, draft,
             answer, outcome, result>>
vars == <<retrievalVars, ragVars>>

\* rerank: with and without a latency guard, or switched off.
Settings == [rerank : {"off", "unguarded", "guarded"}, gate : BOOLEAN,
             validate : BOOLEAN]

NoOutcome == [enabled |-> FALSE, repaired |-> FALSE, stripped |-> 0,
              valid |-> 0, total |-> 0]

\* Faulty variant: the judge is called with context.Background().
WaitingUnjudged == {"connect", "dimension", "embed", "rewrite",
                    "embedRewritten", "retrieve", "rerank", "reexpand",
                    "answer", "repair"}

\* The stages that wait for the model server or the database with the
\* request's context.
Waiting == {"connect", "dimension", "embed", "rewrite", "embedRewritten",
            "retrieve", "rerank", "reexpand", "judge", "answer", "repair"}

\* The waiting stages whose failure is the request's failure.  The reranker
\* and the repair have their fallbacks.
Fatal == Waiting \ {"rerank", "repair"}

RagInit ==
    /\ Init
    /\ settings \in Settings
    /\ pc = "question"
    /\ ctxDone = FALSE
    /\ documents = {}
    /\ guardExpired = FALSE
    /\ rerankErr = "none"
    /\ reranked = <<>>
    /\ fallback = FallbackNone
    /\ judged = {}
    /\ sent = {}
    /\ draft = {}
    /\ answer = {}
    /\ outcome = NoOutcome
    /\ result = "none"

Goto(stage) == pc' = stage /\ UNCHANGED result

End(how) == pc' = "end" /\ result' = how

------------------------------------------------------------------------------
(* Before retrieval.                                                         *)

\* The deadline of the request's context, which starts after CheckQuestion.
Deadline ==
    /\ pc \notin {"question", "end"}
    /\ ~ctxDone
    /\ ctxDone' = TRUE
    /\ UNCHANGED <<retrievalVars, settings, pc, documents, rerankVars, judged,
                   sent, draft, answer, outcome, result>>

\* CheckQuestion, and the provider registry: the settings decide alone.
CheckQuestion ==
    /\ pc = "question"
    /\ Goto("connect") \/ End("failed")
    /\ UNCHANGED <<retrievalVars, settings, ctxDone, rerankVars, documents,
                   judged, sent, draft, answer, outcome>>

\* Connect, CheckEmbeddingDim, the question's embedding and, when the question
\* is rewritten, the rewrite and its embedding.
AfterPreparing ==
    [connect        |-> "dimension",
     dimension      |-> "embed",
     embed          |-> IF queries = 2 THEN "rewrite" ELSE "retrieve",
     rewrite        |-> "embedRewritten",
     embedRewritten |-> "retrieve"]

Prepare ==
    /\ pc \in DOMAIN AfterPreparing
    /\ ~ctxDone
    /\ Goto(AfterPreparing[pc])
    /\ UNCHANGED <<retrievalVars, settings, ctxDone, rerankVars, documents,
                   judged, sent, draft, answer, outcome>>

------------------------------------------------------------------------------
(* Retrieval.                                                                *)

SearchStep ==
    /\ pc = "retrieve"
    /\ ~ctxDone
    /\ Search
    /\ UNCHANGED ragVars

\* Without a key no statement is sent.  The reranker is not called without a
\* candidate.
ExpandStep ==
    /\ pc = "retrieve"
    /\ fused = <<>> \/ ~ctxDone
    /\ Expand
    /\ documents' = expanded'
    /\ Goto(IF settings.rerank # "off" /\ candidates # <<>> THEN "rerank" ELSE "budget")
    /\ UNCHANGED <<settings, ctxDone, rerankVars, judged, sent, draft, answer,
                   outcome>>

(* RerankLLMWithTimeout.  Its call waits with a child of the request's context *)
(* that ends with the guard, or with its parent.                             *)

\* The guard's timer, which runs until the reranker returns.
GuardExpires ==
    /\ pc \in {"rerank", "classify", "attribute"}
    /\ settings.rerank = "guarded"
    /\ ~guardExpired
    /\ guardExpired' = TRUE
    /\ UNCHANGED <<retrievalVars, settings, pc, ctxDone, documents, rerankErr,
                   reranked, fallback, judged, sent, draft, answer, outcome,
                   result>>

GuardCtxDone == guardExpired \/ ctxDone

\* The model's reply.  Of a ranking the first FinalK candidates are expanded by
\* another statement; with any other reply the fused expansion is the context.
Rerank ==
    /\ pc = "rerank"
    /\ ~GuardCtxDone
    /\ \E reply \in Replies(Len(candidates)) :
          IF parseRanking(reply, Len(candidates))
            THEN /\ reranked' = FirstOf(FinalK, InOrder(reply, candidates))
                 /\ Goto("reexpand")
                 /\ UNCHANGED fallback
            ELSE /\ fallback' = FallbackParse
                 /\ Goto("budget")
                 /\ UNCHANGED reranked
    /\ UNCHANGED <<retrievalVars, settings, ctxDone, documents, guardExpired,
                   rerankErr, judged, sent, draft, answer, outcome>>

\* The call fails, by a context or not: net/http's own timeout looks like one.
RerankFails ==
    /\ pc = "rerank"
    /\ rerankErr' \in {"deadline", "other"}
    /\ Goto("classify")
    /\ UNCHANGED <<retrievalVars, settings, ctxDone, documents, guardExpired,
                   reranked, fallback, judged, sent, draft, answer, outcome>>

\* classifyGeneratorError reads the error and the guard's context first ...
Classify ==
    /\ pc = "classify"
    /\ IF settings.rerank = "guarded" /\ rerankErr = "deadline" /\ GuardCtxDone
         THEN Goto("attribute") /\ UNCHANGED fallback
         ELSE Goto("budget") /\ fallback' = FallbackGeneratorError
    /\ rerankErr' = "none"
    /\ UNCHANGED <<retrievalVars, settings, ctxDone, documents, guardExpired,
                   reranked, judged, sent, draft, answer, outcome>>

\* Faulty variant: the caller's context is not read.
AttributeGuard ==
    /\ pc = "attribute"
    /\ fallback' = FallbackTimeout
    /\ Goto("budget")
    /\ UNCHANGED <<retrievalVars, settings, ctxDone, documents, guardExpired,
                   rerankErr, reranked, judged, sent, draft, answer, outcome>>

\* ... and the request's context last.
Attribute ==
    /\ pc = "attribute"
    /\ fallback' = IF ctxDone THEN FallbackGeneratorError ELSE FallbackTimeout
    /\ Goto("budget")
    /\ UNCHANGED <<retrievalVars, settings, ctxDone, documents, guardExpired,
                   rerankErr, reranked, judged, sent, draft, answer, outcome>>

ReExpand ==
    /\ pc = "reexpand"
    /\ ~ctxDone
    /\ documents' \in SectionChunks(Table, SectionKeys(reranked))
    /\ reranked' = <<>>
    /\ Goto("budget")
    /\ UNCHANGED <<retrievalVars, settings, ctxDone, guardExpired, rerankErr,
                   fallback, judged, sent, draft, answer, outcome>>

------------------------------------------------------------------------------
(* The context and its checks.                                               *)

\* Where the checked context goes: isAnswerable without the judge.
AfterChecks(docs) ==
    \/ docs = {} /\ End("insufficient")
    \/ docs # {} /\ settings.gate /\ Goto("judge")
    \/ docs # {} /\ ~settings.gate /\ Goto("answer")

\* contextbudget.Build, CheckContext, and isAnswerable's early answers.
Budget ==
    /\ pc = "budget"
    /\ \E kept \in SUBSET documents :
          /\ documents' = kept
          /\ AfterChecks(kept) \/ (kept # {} /\ End("failed"))
    /\ UNCHANGED <<retrievalVars, settings, ctxDone, rerankVars, judged, sent,
                   draft, answer, outcome>>

\* Faulty variant: the judge is shown the context before the budget's cut.
JudgeUncut ==
    /\ pc = "judge"
    /\ ~ctxDone
    /\ judged' = expanded
    /\ Goto("answer") \/ End("insufficient")
    /\ UNCHANGED <<retrievalVars, settings, ctxDone, rerankVars, documents,
                   sent, draft, answer, outcome>>

\* The judge's verdict.  An answer it cannot parse is a failure.
Judge ==
    /\ pc = "judge"
    /\ ~ctxDone
    /\ judged' = documents
    /\ Goto("answer") \/ End("insufficient")
    /\ UNCHANGED <<retrievalVars, settings, ctxDone, rerankVars, documents,
                   sent, draft, answer, outcome>>

------------------------------------------------------------------------------
(* AnswerValidated.                                                          *)

Valid(pair) == \E d \in documents : PairOf(d) = pair

Strip(cited) == {pair \in cited : Valid(pair)}

Clean(cited) == cited # {} /\ Strip(cited) = cited

\* finishOutcome: the counts are those of the answer that is returned.
Finish(cited, repaired, stripped) ==
    /\ answer' = cited
    /\ outcome' = [enabled |-> TRUE, repaired |-> repaired,
                   stripped |-> Cardinality(stripped),
                   valid |-> Cardinality(Strip(cited)),
                   total |-> Cardinality(cited)]
    /\ End("answered")

\* The model's answer: returned as it is, clean, or to be repaired.
Answer ==
    /\ pc = "answer"
    /\ ~ctxDone
    /\ sent' = documents
    /\ \E cited \in SUBSET Pairs :
          /\ draft' = cited
          /\ \/ /\ ~settings.validate
                /\ answer' = cited
                /\ End("answered")
                /\ UNCHANGED outcome
             \/ /\ settings.validate /\ Clean(cited)
                /\ Finish(cited, FALSE, {})
             \/ /\ settings.validate /\ ~Clean(cited)
                /\ Goto("repair")
                /\ UNCHANGED <<answer, outcome>>
    /\ UNCHANGED <<retrievalVars, settings, ctxDone, rerankVars, documents,
                   judged>>

\* Faulty variant: the repaired answer is trusted and not stripped.
RepairUnstripped ==
    /\ pc = "repair"
    /\ ~ctxDone
    /\ \E cited \in SUBSET Pairs : Finish(cited, TRUE, {})
    /\ UNCHANGED <<retrievalVars, settings, ctxDone, rerankVars, documents,
                   judged, sent, draft>>

\* The second answer, stripped of what still does not resolve.
Repair ==
    /\ pc = "repair"
    /\ ~ctxDone
    /\ \E cited \in SUBSET Pairs :
          Finish(Strip(cited), TRUE, cited \ Strip(cited))
    /\ UNCHANGED <<retrievalVars, settings, ctxDone, rerankVars, documents,
                   judged, sent, draft>>

\* Faulty variant: a failed repair is returned as the request's error.
RepairFailsRequest ==
    /\ pc = "repair"
    /\ End("failed")
    /\ UNCHANGED <<retrievalVars, settings, ctxDone, rerankVars, documents,
                   judged, sent, draft, answer, outcome>>

\* The repair failed or came back blank: the draft is stripped instead.
RepairFallsBack ==
    /\ pc = "repair"
    /\ Finish(Strip(draft), TRUE, draft \ Strip(draft))
    /\ UNCHANGED <<retrievalVars, settings, ctxDone, rerankVars, documents,
                   judged, sent, draft>>

------------------------------------------------------------------------------
\* A call fails: run() returns the error.  A retrieval's statement fails in the
\* pipeline.
Fails ==
    /\ pc \in Fatal
    /\ IF pc = "retrieve" THEN StatementFails ELSE UNCHANGED retrievalVars
    /\ End("failed")
    /\ UNCHANGED <<settings, ctxDone, rerankVars, documents, judged, sent,
                   draft, answer, outcome>>

IngestCommits == (\E s \in Sources : Ingest(s)) /\ UNCHANGED ragVars

Ended == pc = "end" /\ UNCHANGED vars

Request ==
    \/ CheckQuestion \/ Prepare \/ SearchStep \/ ExpandStep
    \/ Rerank \/ RerankFails \/ Classify \/ Attribute \/ ReExpand
    \/ Budget \/ Judge
    \/ Answer \/ Repair \/ RepairFallsBack \/ Fails

Next == Request \/ Deadline \/ GuardExpires \/ IngestCommits \/ Ended

Spec == RagInit /\ [][Next]_vars

(* The command's own computations take place, its timer fires, and a call    *)
(* whose context is done returns an error.  Nothing obliges the model server *)
(* or the database to answer.                                                *)
DoneCallReturns ==
    \/ ctxDone /\ pc \in Waiting /\ (Fails \/ RepairFallsBack)
    \/ GuardCtxDone /\ RerankFails

\* Retrieval's expansion of no section at all is one of the computations.
Computes ==
    \/ CheckQuestion
    \/ step = "expand" /\ fused = <<>> /\ ExpandStep
    \/ Classify \/ Attribute \/ Budget

FairSpec ==
    /\ Spec
    /\ WF_vars(Computes)
    /\ WF_vars(Deadline) /\ WF_vars(GuardExpires)
    /\ WF_vars(DoneCallReturns)

------------------------------------------------------------------------------
(* Properties.                                                               *)

Stages == Waiting \cup {"question", "classify", "attribute", "budget", "end"}

\* The variables keep their types; what is stripped is part of one answer.
TypeOK ==
    /\ RetrievalTypeOK
    /\ settings \in Settings
    /\ pc \in Stages
    /\ ctxDone \in BOOLEAN
    /\ documents \subseteq Rows /\ judged \subseteq Rows /\ sent \subseteq Rows
    /\ guardExpired \in BOOLEAN /\ rerankErr \in {"none", "deadline", "other"}
    /\ reranked \in Seq(Rows) /\ Len(reranked) <= FinalK
    /\ fallback \in FallbackReasons
    /\ draft \subseteq Pairs /\ answer \subseteq Pairs
    /\ outcome.valid \in Nat /\ outcome.total \in Nat
    /\ outcome.stripped \in 0..Cardinality(Pairs)
    /\ result \in {"none", "failed", "insufficient", "answered"}

\* The prompt shows the model two versions of one file only if two ingests of
\* that file overlapped and left both in the table: never because the reranked
\* context is read after the fused one, and both after the searches, with ingests
\* in between.
AnsweredFromOneVersion == Unmixed(sent)

\* "The budgeted set is the one the answerability gate judges, the one printed,
\* and the one the model answers from" (cmd/rag/main.go:198-200): an answer
\* comes from a context that is not empty and, with the gate on, from exactly
\* the one the judge accepted.
AnsweredFromJudged ==
    result = "answered" =>
        /\ sent # {} /\ sent = documents
        /\ settings.gate => judged = sent

\* "no invalid citation is ever returned as if valid" (validate.go:61): with
\* validation on every citation of the returned answer names a section of the
\* context the model was given, whichever of draft, repair and fallback it is,
\* and the outcome reported is that answer's.
CitedFromContext ==
    result = "answered" /\ settings.validate =>
        /\ \A pair \in answer : \E d \in sent : PairOf(d) = pair
        /\ outcome.valid = outcome.total /\ outcome.total = Cardinality(answer)
        /\ outcome.repaired \/ (answer = draft /\ answer # {})

\* "A repair error therefore never fails the request" (validate.go:64-65): a
\* request that has an answer ends with an answer, also when its deadline
\* passes while it repairs it.
DraftNeverLost == sent # {} => result \in {"none", "answered"}

\* "a deadline or cancellation inherited from the caller's context ... is
\* reported as a generator error" (llm.go:186-188): a timeout is reported only
\* when the guard itself expired, although both contexts may end at any moment
\* of the classification; and after a fallback the context is the fused one.
FallbackHonest ==
    /\ fallback = FallbackTimeout => guardExpired
    /\ fallback # FallbackNone => documents \subseteq expanded

\* Every request ends, whatever hangs.
RequestEnds == <>(result # "none")
==============================================================================
