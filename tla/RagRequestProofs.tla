-------------------------- MODULE RagRequestProofs --------------------------
(***************************************************************************)
(* Safety of cmd/rag's request for any files, sections, limits, settings    *)
(* and number of ingests: what the model is shown, what it is judged on and *)
(* what its citations name, and the types of all that.                      *)
(***************************************************************************)
EXTENDS RagRequest, RetrievalProofs

------------------------------------------------------------------------------
(* The table and its sections.                                               *)

\* The table holds one version of every file of which no two ingests overlapped.
OneStored ==
    /\ DOMAIN stored = Sources
    /\ \A s \in Sources \ overlapped :
          \A v, w \in stored[s] : v.serial = w.serial

LEMMA TableUnmixed == OneStored => Unmixed(Table)
<1> SUFFICES ASSUME OneStored, NEW d \in Table, NEW e \in Table,
                    d.source = e.source, d.source \notin overlapped
             PROVE  d.serial = e.serial
  BY DEF Unmixed
<1>1. ASSUME NEW f \in Table
      PROVE  f.source \in Sources /\ \E v \in stored[f.source] : f.serial = v.serial
  BY DEF Table, RowsOf, RowsOfDocument, Row
<1> QED
  BY <1>1 DEF OneStored

\* An ingest that leaves another document beside its own is recorded.
LEMMA OneStoredIngest ==
  ASSUME OneStored, NEW s \in Sources, Ingest(s)
  PROVE  OneStored'
<1>1. PICK seen \in 0..ingests, l \in Layouts :
        LET beside == {v \in stored[s] : v.serial > seen}
        IN  /\ stored' = [stored EXCEPT ![s] = beside \cup {Entry(l)}]
            /\ overlapped' = IF beside = {} THEN overlapped
                             ELSE overlapped \cup {s}
  BY DEF Ingest, Entry
<1>2. PICK beside :
        /\ stored' = [stored EXCEPT ![s] = beside \cup {Entry(l)}]
        /\ overlapped' = IF beside = {} THEN overlapped ELSE overlapped \cup {s}
  BY <1>1
<1>3. DOMAIN stored' = Sources
  BY <1>2 DEF OneStored
<1>4. ASSUME NEW t \in Sources \ overlapped'
      PROVE  \A v, w \in stored'[t] : v.serial = w.serial
  <2>1. CASE t = s
    <3>1. stored'[t] = {Entry(l)}
      BY <2>1, <1>2, <1>4 DEF OneStored
    <3> QED
      BY <3>1
  <2>2. CASE t # s
    <3>1. stored'[t] = stored[t] /\ t \notin overlapped
      BY <2>2, <1>2, <1>4 DEF OneStored
    <3> QED
      BY <3>1 DEF OneStored
  <2> QED
    BY <2>1, <2>2
<1> QED
  BY <1>3, <1>4 DEF OneStored

\* What overlapped stays recorded.
LEMMA OverlappedGrows ==
  ASSUME NEW s \in Sources, Ingest(s)
  PROVE  overlapped \subseteq overlapped'
  BY DEF Ingest

\* Expansion only selects rows.
LEMMA ChunksAreRows ==
  ASSUME NEW rows, NEW keys, NEW chunks \in SectionChunks(rows, keys)
  PROVE  chunks \subseteq rows
  BY DEF SectionChunks

\* A part of an unmixed context is unmixed.
LEMMA UnmixedPart ==
  ASSUME NEW docs, NEW part, part \subseteq docs, Unmixed(docs)
  PROVE  Unmixed(part)
  BY DEF Unmixed

------------------------------------------------------------------------------
(* The inductive invariant.                                                  *)

\* Every context in hand comes from one statement.
OneStatement ==
    OneStored /\ Unmixed(expanded) /\ Unmixed(documents) /\ Unmixed(sent)

\* Where the request stands tells what has been checked.
Progress ==
    /\ pc = "end" <=> result # "none"
    /\ result \in {"none", "failed", "insufficient", "answered"}
    /\ pc \notin {"repair", "end"} => sent = {}
    /\ pc = "judge" => documents # {}
    /\ pc \in {"answer", "repair"} =>
          documents # {} /\ (settings.gate => judged = documents)
    /\ pc = "repair" => settings.validate /\ sent = documents /\ ~Clean(draft)
    /\ pc = "end" /\ sent # {} => result = "answered"

\* A returned answer has been validated.
Validated ==
    result = "answered" =>
        /\ sent # {} /\ sent = documents
        /\ settings.gate => judged = sent
        /\ settings.validate =>
              /\ Strip(answer) = answer
              /\ outcome.valid = Cardinality(Strip(answer))
              /\ outcome.total = Cardinality(answer)
              /\ outcome.repaired \/ (answer = draft /\ answer # {})

IInv == OneStatement /\ Progress /\ Validated

\* Stripping twice changes nothing more.
LEMMA StripAgain ==
  ASSUME NEW cited PROVE Strip(Strip(cited)) = Strip(cited)
  BY DEF Strip

\* The initial states satisfy the invariant.
LEMMA InitIInv == RagInit => IInv
  BY DEF RagInit, Init, IInv, OneStatement, OneStored, Progress, Validated, Unmixed

\* Contexts stay unmixed.
LEMMA OneStatementStep == IInv /\ [Next]_vars => OneStatement'
<1> SUFFICES ASSUME IInv, [Next]_vars PROVE OneStatement'
  OBVIOUS
<1>a. OneStatement
  BY DEF IInv
<1>b. ASSUME NEW keys, NEW chunks \in SectionChunks(Table, keys) PROVE Unmixed(chunks)
  BY <1>a, TableUnmixed, ChunksAreRows, UnmixedPart DEF OneStatement
<1>1. CASE ExpandStep
  <2>1. /\ expanded' \in SectionChunks(Table, SectionKeys(fused))
        /\ documents' = expanded' /\ UNCHANGED <<sent, table>>
    BY <1>1 DEF ExpandStep, Expand, ExpandOver
  <2>2. Unmixed(expanded') /\ Unmixed(documents')
    BY <2>1, <1>b
  <2> QED
    BY <2>1, <2>2, <1>a DEF OneStatement, OneStored, Unmixed, table
<1>2. CASE ReExpand
  <2>1. documents' \in SectionChunks(Table, SectionKeys(reranked))
    BY <1>2 DEF ReExpand
  <2>2. UNCHANGED <<expanded, sent, table>>
    BY <1>2 DEF ReExpand, retrievalVars, pipeline
  <2>3. Unmixed(documents')
    BY <2>1, <1>b
  <2> QED
    BY <2>2, <2>3, <1>a DEF OneStatement, OneStored, Unmixed, table
<1>3. CASE Budget
  <2>1. documents' \subseteq documents /\ UNCHANGED <<expanded, sent, table>>
    BY <1>3 DEF Budget, retrievalVars, pipeline
  <2> QED
    BY <2>1, <1>a DEF OneStatement, OneStored, Unmixed, table
<1>4. CASE Answer
  <2>1. sent' = documents /\ UNCHANGED <<expanded, documents, table>>
    BY <1>4 DEF Answer, retrievalVars, pipeline
  <2> QED
    BY <2>1, <1>a DEF OneStatement, OneStored, Unmixed, table
<1>5. CASE IngestCommits
  <2>1. PICK s \in Sources : Ingest(s)
    BY <1>5 DEF IngestCommits
  <2>2. OneStored' /\ overlapped \subseteq overlapped'
    BY <2>1, <1>a, OneStoredIngest, OverlappedGrows DEF OneStatement
  <2>3. UNCHANGED <<expanded, documents, sent>>
    BY <1>5, <2>1 DEF IngestCommits, Ingest, pipeline, ragVars
  <2> QED
    BY <2>2, <2>3, <1>a DEF OneStatement, Unmixed
<1>6. CASE ~(ExpandStep \/ ReExpand \/ Budget \/ Answer \/ IngestCommits)
  <2>1. UNCHANGED <<expanded, documents, sent, table>>
    BY <1>6 DEF Next, Request, Deadline, Ended, CheckQuestion,
       Prepare, SearchStep, Rerank, RerankFails, Classify, Attribute,
       GuardExpires, Judge, Repair, RepairFallsBack, Fails, StatementFails, Search,
       SearchOver, Fuse, vars, ragVars, retrievalVars, pipeline, Finish
  <2> QED
    BY <2>1, <1>a DEF OneStatement, OneStored, Unmixed, table
<1> QED
  BY <1>1, <1>2, <1>3, <1>4, <1>5, <1>6

\* What an early step does to the checks.
LEMMA EarlyStep ==
  ASSUME IInv,
         CheckQuestion \/ Prepare \/ SearchStep \/ ExpandStep
         \/ Rerank \/ RerankFails \/ Classify \/ Attribute \/ ReExpand
  PROVE  /\ UNCHANGED <<settings, judged, sent, draft, answer, outcome>>
         /\ pc \notin {"repair", "end"}
         /\ pc' \notin {"judge", "answer", "repair"}
         /\ pc' = "end" <=> result' # "none"
         /\ result' \in {"none", "failed"}
<1>1. result \in {"none"} \/ pc = "end"
  BY DEF IInv, Progress
<1>2. CASE Prepare
  BY <1>1, <1>2 DEF Prepare, AfterPreparing, Goto
<1>3. CASE CheckQuestion
  BY <1>1, <1>3 DEF CheckQuestion, Goto, End
<1>4. CASE SearchStep
  BY <1>1, <1>4 DEF SearchStep, ragVars
<1>5. CASE ExpandStep
  BY <1>1, <1>5 DEF ExpandStep, Goto
<1>6. CASE Rerank \/ RerankFails \/ Classify \/ Attribute \/ ReExpand
  BY <1>1, <1>6 DEF Rerank, RerankFails, Classify, Attribute, ReExpand, Goto
<1> QED
  BY <1>2, <1>3, <1>4, <1>5, <1>6

\* Each step keeps what the stage tells about the checks, and an answer that is
\* returned has been validated.
LEMMA ProgressStep == IInv /\ [Next]_vars => Progress' /\ Validated'
<1> SUFFICES ASSUME IInv, [Next]_vars PROVE Progress' /\ Validated'
  OBVIOUS
<1>a. Progress /\ Validated
  BY DEF IInv
<1>1. CASE CheckQuestion \/ Prepare \/ SearchStep \/ ExpandStep
           \/ Rerank \/ RerankFails \/ Classify \/ Attribute \/ ReExpand
  <2>1. /\ UNCHANGED <<settings, judged, sent, draft, answer, outcome>>
        /\ pc \notin {"repair", "end"}
        /\ pc' \notin {"judge", "answer", "repair"}
        /\ pc' = "end" <=> result' # "none"
        /\ result' \in {"none", "failed"}
    BY <1>1, EarlyStep
  <2> QED
    BY <2>1, <1>a DEF Progress, Validated
<1>2. CASE Budget
  <2>1. PICK kept \in SUBSET documents :
          /\ documents' = kept
          /\ AfterChecks(kept) \/ (kept # {} /\ End("failed"))
    BY <1>2 DEF Budget
  <2>2. pc = "budget" /\ UNCHANGED <<settings, judged, sent, draft, answer, outcome>>
    BY <1>2 DEF Budget
  <2>3. result = "none" /\ sent = {}
    BY <2>2, <1>a DEF Progress
  <2>4. \/ kept = {} /\ End("insufficient")
        \/ kept # {} /\ settings.gate /\ Goto("judge")
        \/ kept # {} /\ ~settings.gate /\ Goto("answer")
        \/ End("failed")
    BY <2>1 DEF AfterChecks
  <2> QED
    BY <2>1, <2>2, <2>3, <2>4 DEF Progress, Validated, Goto, End
<1>3. CASE Judge
  BY <1>3, <1>a DEF Judge, Progress, Validated, Goto, End
<1>4. CASE Answer
  <2>1. /\ pc = "answer" /\ sent' = documents
        /\ UNCHANGED <<settings, documents, judged>>
    BY <1>4 DEF Answer
  <2>2. documents # {} /\ result = "none" /\ (settings.gate => judged = documents)
    BY <2>1, <1>a DEF Progress
  <2>3. PICK cited \in SUBSET Pairs :
          /\ draft' = cited
          /\ \/ ~settings.validate /\ answer' = cited /\ End("answered")
             \/ settings.validate /\ Clean(cited) /\ Finish(cited, FALSE, {})
             \/ settings.validate /\ ~Clean(cited) /\ Goto("repair")
    BY <1>4 DEF Answer
  <2>4. ASSUME NEW c PROVE Strip(c)' = Strip(c')
    BY <2>1 DEF Strip, Valid
  <2>5. CASE ~settings.validate /\ answer' = cited /\ End("answered")
    BY <2>1, <2>2, <2>5 DEF Progress, Validated, End
  <2>6. CASE settings.validate /\ Clean(cited) /\ Finish(cited, FALSE, {})
    <3>1. /\ answer' = cited /\ draft' = cited /\ cited # {}
          /\ Strip(cited) = cited
          /\ outcome'.valid = Cardinality(Strip(cited))
          /\ outcome'.total = Cardinality(cited)
          /\ End("answered")
      BY <2>3, <2>6 DEF Finish, Clean
    <3>2. (Strip(answer))' = answer'
      BY <3>1, <2>1 DEF Strip, Valid
    <3> QED
      BY <3>1, <3>2, <2>1, <2>2 DEF Progress, Validated, End
  <2>7. CASE settings.validate /\ ~Clean(cited) /\ Goto("repair")
    <3>1. (~Clean(draft))'
      BY <2>3, <2>7, <2>1 DEF Clean, Strip, Valid
    <3> QED
      BY <3>1, <2>7, <2>1, <2>2 DEF Progress, Validated, Goto
  <2> QED
    BY <2>3, <2>5, <2>6, <2>7
<1>5. CASE Repair \/ RepairFallsBack
  <2>1. /\ pc = "repair"
        /\ UNCHANGED <<settings, documents, judged, sent, draft>>
    BY <1>5 DEF Repair, RepairFallsBack
  <2>2. /\ documents # {} /\ sent = documents
        /\ settings.gate => judged = documents
    BY <2>1, <1>a DEF Progress
  <2>3. \E cited : Finish(Strip(cited), TRUE, cited \ Strip(cited))
    BY <1>5 DEF Repair, RepairFallsBack
  <2>4. PICK cited : Finish(Strip(cited), TRUE, cited \ Strip(cited))
    BY <2>3
  <2>5. /\ answer' = Strip(cited)
        /\ outcome'.valid = Cardinality(Strip(Strip(cited)))
        /\ outcome'.total = Cardinality(Strip(cited))
        /\ outcome'.repaired
        /\ End("answered")
    BY <2>4 DEF Finish
  <2>6. (Strip(answer))' = answer'
    BY <2>5, <2>1 DEF Strip, Valid
  <2> QED
    BY <2>1, <2>2, <2>5, <2>6, StripAgain DEF Progress, Validated, End
<1>6. CASE Fails
  <2>1. /\ pc \in Fatal /\ End("failed")
        /\ UNCHANGED <<settings, documents, judged, sent, draft, answer, outcome>>
    BY <1>6 DEF Fails
  <2>2. sent = {}
    BY <2>1, <1>a DEF Progress, Fatal, Waiting
  <2> QED
    BY <2>1, <2>2 DEF Progress, Validated, End
<1>7. CASE Deadline \/ GuardExpires \/ IngestCommits \/ Ended \/ UNCHANGED vars
  <2>1. UNCHANGED <<settings, pc, documents, judged, sent, draft, answer,
                    outcome, result>>
    BY <1>7 DEF Deadline, GuardExpires, IngestCommits, Ended, vars, ragVars
  <2>2. (Clean(draft) <=> Clean(draft)') /\ Strip(answer)' = Strip(answer)
    BY <2>1 DEF Clean, Strip, Valid
  <2> QED
    BY <2>1, <2>2, <1>a DEF Progress, Validated
<1> QED
  BY <1>1, <1>2, <1>3, <1>4, <1>5, <1>6, <1>7 DEF Next, Request

\* The invariant holds in every state.
THEOREM Invariance == Spec => []IInv
<1>1. RagInit => IInv
  BY InitIInv
<1>2. IInv /\ [Next]_vars => IInv'
  BY OneStatementStep, ProgressStep DEF IInv
<1> QED
  BY <1>1, <1>2, PTL DEF Spec

\* The prompt shows the model two versions of one file only if two ingests of
\* that file have overlapped.
THEOREM OneVersion == Spec => []AnsweredFromOneVersion
<1>1. IInv => AnsweredFromOneVersion
  BY DEF IInv, OneStatement, AnsweredFromOneVersion
<1> QED
  BY <1>1, Invariance, PTL

\* An answer comes from a context that is not empty and that was judged.
THEOREM JudgedContext == Spec => []AnsweredFromJudged
<1>1. IInv => AnsweredFromJudged
  BY DEF IInv, Validated, AnsweredFromJudged
<1> QED
  BY <1>1, Invariance, PTL

\* With validation on every citation returned names a section of the context.
THEOREM CitationsResolve == Spec => []CitedFromContext
<1>1. IInv => CitedFromContext
  <2> SUFFICES ASSUME IInv, result = "answered", settings.validate
               PROVE  CitedFromContext
    BY DEF CitedFromContext
  <2>1. /\ sent = documents /\ Strip(answer) = answer
        /\ outcome.valid = Cardinality(Strip(answer))
        /\ outcome.total = Cardinality(answer)
        /\ outcome.repaired \/ (answer = draft /\ answer # {})
    BY DEF IInv, Validated
  <2>2. \A pair \in answer : \E d \in sent : PairOf(d) = pair
    BY <2>1 DEF Strip, Valid
  <2> QED
    BY <2>1, <2>2 DEF CitedFromContext
<1> QED
  BY <1>1, Invariance, PTL

\* A request that has an answer never ends with an error.
THEOREM DraftKept == Spec => []DraftNeverLost
<1>1. IInv => DraftNeverLost
  BY DEF IInv, Progress, DraftNeverLost
<1> QED
  BY <1>1, Invariance, PTL

------------------------------------------------------------------------------
(* The reranker's fallback.                                                  *)

\* Where the request stands tells whether the reranker has fallen back, and
\* what the context is then.
RerankInv ==
    /\ pc \in {"rerank", "classify", "attribute"} => documents = expanded
    /\ fallback # FallbackNone =>
          /\ pc \in {"budget", "judge", "answer", "repair", "end"}
          /\ documents \subseteq expanded
    /\ pc = "attribute" => GuardCtxDone
    /\ fallback = FallbackTimeout => guardExpired

\* A step of the reranker keeps it.
LEMMA RerankerStep ==
  ASSUME RerankInv,
         Rerank \/ RerankFails \/ Classify \/ Attribute \/ GuardExpires
  PROVE  RerankInv'
<1>1. UNCHANGED <<expanded, documents, ctxDone>> /\ (guardExpired => guardExpired')
  BY DEF Rerank, RerankFails, Classify, Attribute, GuardExpires, retrievalVars,
     pipeline
<1>2. CASE Rerank
  <2>1. /\ pc = "rerank" /\ UNCHANGED guardExpired
        /\ \/ pc' = "reexpand" /\ UNCHANGED fallback
           \/ pc' = "budget" /\ fallback' = FallbackParse
    BY <1>2 DEF Rerank, Goto
  <2> QED
    BY <2>1, <1>1 DEF RerankInv, FallbackParse, FallbackTimeout, FallbackNone
<1>3. CASE RerankFails
  BY <1>1, <1>3 DEF RerankFails, Goto, RerankInv
<1>4. CASE Classify
  BY <1>1, <1>4 DEF Classify, Goto, RerankInv, GuardCtxDone,
     FallbackGeneratorError, FallbackTimeout, FallbackNone
<1>5. CASE Attribute
  BY <1>1, <1>5 DEF Attribute, Goto, RerankInv, GuardCtxDone,
     FallbackGeneratorError, FallbackTimeout, FallbackNone
<1>6. CASE GuardExpires
  BY <1>1, <1>6 DEF GuardExpires, RerankInv, GuardCtxDone
<1> QED
  BY <1>2, <1>3, <1>4, <1>5, <1>6

\* Every step keeps it.
LEMMA RerankInvStep == RerankInv /\ [Next]_vars => RerankInv'
<1> SUFFICES ASSUME RerankInv, [Next]_vars PROVE RerankInv'
  OBVIOUS
<1>1. CASE ExpandStep
  BY <1>1 DEF ExpandStep, Goto, RerankInv, rerankVars
<1>2. CASE ReExpand
  BY <1>2 DEF ReExpand, Goto, RerankInv
<1>3. CASE Budget
  <2>1. PICK kept \in SUBSET documents :
          /\ documents' = kept
          /\ AfterChecks(kept) \/ (kept # {} /\ End("failed"))
    BY <1>3 DEF Budget
  <2>2. pc' \in {"judge", "answer", "end"}
    BY <2>1 DEF AfterChecks, Goto, End
  <2>3. UNCHANGED <<expanded, rerankVars>> /\ pc = "budget"
    BY <1>3 DEF Budget, retrievalVars, pipeline
  <2> QED
    BY <2>1, <2>2, <2>3 DEF RerankInv, rerankVars
<1>4. CASE Rerank \/ RerankFails \/ Classify \/ Attribute \/ GuardExpires
  BY <1>4, RerankerStep
<1>5. CASE CheckQuestion \/ Prepare \/ SearchStep \/ Fails
  <2>1. /\ UNCHANGED <<documents, rerankVars>>
        /\ pc' \notin {"rerank", "classify", "attribute"}
        /\ pc \notin {"rerank", "classify", "attribute", "budget", "repair", "end"}
    BY <1>5 DEF CheckQuestion, Prepare, AfterPreparing, SearchStep, Fails, Goto,
       End, ragVars, Fatal, Waiting
  <2>2. UNCHANGED expanded /\ (UNCHANGED pc \/ pc' = "end" \/ pc \notin {"judge", "answer"})
    BY <1>5 DEF CheckQuestion, Prepare, AfterPreparing, SearchStep, SearchOver,
       Search, Fails, End, StatementFails, ragVars, retrievalVars, pipeline
  <2> QED
    BY <2>1, <2>2 DEF RerankInv, rerankVars
<1>6. CASE Judge \/ Answer \/ Repair \/ RepairFallsBack
  <2>1. /\ UNCHANGED <<expanded, documents, rerankVars>>
        /\ pc' \in {"answer", "repair", "end"}
    BY <1>6 DEF Judge, Answer, Repair, RepairFallsBack, Finish, Goto, End,
       retrievalVars, pipeline
  <2> QED
    BY <2>1 DEF RerankInv, rerankVars
<1>7. CASE Deadline \/ IngestCommits \/ Ended \/ UNCHANGED vars
  <2>1. /\ UNCHANGED <<expanded, documents, rerankVars, pc>>
        /\ ctxDone => ctxDone'
    BY <1>7 DEF Deadline, IngestCommits, Ingest, Ended, vars, ragVars,
       retrievalVars, pipeline
  <2> QED
    BY <2>1 DEF RerankInv, rerankVars, GuardCtxDone
<1> QED
  BY <1>1, <1>2, <1>3, <1>4, <1>5, <1>6, <1>7 DEF Next, Request

\* A timeout is the guard's, and after a fallback the context is the fused one.
THEOREM FallbackTold == Spec => []FallbackHonest
<1>1. RagInit => RerankInv
  BY DEF RagInit, RerankInv, FallbackTimeout, FallbackNone
<1>2. RerankInv => FallbackHonest
  BY DEF RerankInv, FallbackHonest
<1> QED
  BY <1>1, <1>2, RerankInvStep, PTL DEF Spec

------------------------------------------------------------------------------
(* Types.                                                                    *)

\* Each step of the request is a step of the pipeline over the whole table, or
\* none of its steps.
LEMMA RequestPipeline == Spec => RetrievalSpec
<1>1. RagInit => Init
  BY DEF RagInit
<1>2. ASSUME [Next]_vars PROVE [Pipeline]_retrievalVars
  <2>1. CASE SearchStep
    BY <2>1 DEF SearchStep, Search, Pipeline
  <2>2. CASE ExpandStep
    BY <2>2 DEF ExpandStep, Expand, Pipeline
  <2>3. CASE Fails
    BY <2>3 DEF Fails, Pipeline
  <2>4. CASE IngestCommits
    BY <2>4 DEF IngestCommits, Pipeline
  <2>5. CASE \/ CheckQuestion \/ Prepare \/ Rerank \/ RerankFails \/ Classify
            \/ Attribute \/ ReExpand \/ Budget \/ Judge \/ Answer \/ Repair
            \/ RepairFallsBack \/ Deadline \/ GuardExpires \/ Ended
            \/ UNCHANGED vars
    BY <2>5 DEF CheckQuestion, Prepare, Rerank, RerankFails, Classify, Attribute,
       ReExpand, Budget, Judge, Answer, Repair, RepairFallsBack, Deadline,
       GuardExpires, Ended, vars
  <2> QED
    BY <1>2, <2>1, <2>2, <2>3, <2>4, <2>5 DEF Next, Request
<1> QED
  BY <1>1, <1>2, PTL DEF Spec, RetrievalSpec

\* Where the request is, and what it has been told.
Control ==
    /\ settings \in Settings
    /\ pc \in Stages
    /\ ctxDone \in BOOLEAN /\ guardExpired \in BOOLEAN
    /\ rerankErr \in {"none", "deadline", "other"}
    /\ fallback \in FallbackReasons
    /\ result \in {"none", "failed", "insufficient", "answered"}

\* The rows in its hands.
Contexts ==
    /\ documents \subseteq Rows /\ judged \subseteq Rows /\ sent \subseteq Rows
    /\ reranked \in Seq(Rows) /\ Len(reranked) <= FinalK

\* What its answers cite.
Cited ==
    /\ draft \subseteq Pairs /\ answer \subseteq Pairs
    /\ outcome.valid \in Nat /\ outcome.total \in Nat
    /\ outcome.stripped \in 0..Cardinality(Pairs)

\* A step leads from stage to stage.
LEMMA ControlStep == Control /\ [Next]_vars => Control'
<1> SUFFICES ASSUME Control, [Next]_vars PROVE Control'
  OBVIOUS
<1>1. CASE CheckQuestion \/ Prepare
  BY <1>1 DEF CheckQuestion, Prepare, AfterPreparing, Control, Stages, Waiting, Goto, End,
     rerankVars
<1>2. CASE ExpandStep \/ ReExpand
  BY <1>2 DEF ExpandStep, ReExpand, Control, Stages, Waiting, Goto, rerankVars
<1>3. CASE Rerank
  <2>1. /\ pc' \in {"reexpand", "budget"}
        /\ fallback' \in {fallback, FallbackParse}
        /\ UNCHANGED <<settings, ctxDone, guardExpired, rerankErr, result>>
    BY <1>3 DEF Rerank, Goto
  <2> QED
    BY <2>1 DEF Control, Stages, Waiting, FallbackReasons
<1>4. CASE RerankFails \/ Classify \/ Attribute
  <2>1. /\ pc' \in {"classify", "attribute", "budget"}
        /\ fallback' \in FallbackReasons
        /\ rerankErr' \in {"none", "deadline", "other"}
        /\ UNCHANGED <<settings, ctxDone, guardExpired, result>>
    BY <1>4 DEF RerankFails, Classify, Attribute, Goto, FallbackReasons, Control
  <2> QED
    BY <2>1 DEF Control, Stages, Waiting
<1>5. CASE Budget
  <2>1. /\ pc' \in {"judge", "answer", "end"}
        /\ result' \in {result, "insufficient", "failed"}
        /\ UNCHANGED <<settings, ctxDone, rerankVars>>
    BY <1>5 DEF Budget, AfterChecks, Goto, End
  <2> QED
    BY <2>1 DEF Control, Stages, Waiting, rerankVars
<1>6. CASE Judge \/ Answer \/ Repair \/ RepairFallsBack \/ Fails
  <2>1. /\ pc' \in {"answer", "repair", "end"}
        /\ result' \in {result, "insufficient", "answered", "failed"}
        /\ UNCHANGED <<settings, ctxDone, rerankVars>>
    BY <1>6 DEF Judge, Answer, Repair, RepairFallsBack, Fails, Finish, Goto, End
  <2> QED
    BY <2>1 DEF Control, Stages, Waiting, rerankVars
<1>7. CASE Deadline \/ GuardExpires
  BY <1>7 DEF Deadline, GuardExpires, Control, rerankVars
<1>8. CASE SearchStep \/ IngestCommits \/ Ended \/ UNCHANGED vars
  BY <1>8 DEF SearchStep, IngestCommits, Ended, vars, ragVars, rerankVars, Control
<1> QED
  BY <1>1, <1>2, <1>3, <1>4, <1>5, <1>6, <1>7, <1>8 DEF Next, Request

\* An accepted ranking orders the candidates, and its first ones are kept.
LEMMA RankingApplied ==
  ASSUME NEW S, NEW docs \in Seq(S), NEW k \in Nat, NEW reply \in Replies(Len(docs)),
         parseRanking(reply, Len(docs))
  PROVE  /\ FirstOf(k, InOrder(reply, docs)) \in Seq(S)
         /\ Len(FirstOf(k, InOrder(reply, docs))) <= k
<1>1. PICK n \in Nat : n = Len(docs)
  OBVIOUS
<1>2. PICK m \in 0..(n + 1) : reply \in [1..m -> -1..n]
  BY <1>1 DEF Replies
<1>3. m = n /\ \A i \in 1..n : reply[i] \in 0..(n - 1)
  BY <1>1, <1>2 DEF parseRanking
<1>4. \A i \in 1..n : docs[reply[i] + 1] \in S
  BY <1>1, <1>3
<1>5. PICK ordered : ordered = InOrder(reply, docs)
  OBVIOUS
<1>6. ordered \in Seq(S)
  <2>1. ordered = [i \in 1..n |-> docs[reply[i] + 1]]
    BY <1>2, <1>3, <1>5 DEF InOrder
  <2> QED
    BY <1>4, <2>1
<1>7. PICK cut \in Nat : cut = (IF k < Len(ordered) THEN k ELSE Len(ordered))
  BY <1>6
<1>8. cut <= k /\ cut <= Len(ordered)
  BY <1>6, <1>7
<1>9. /\ SubSeq(ordered, 1, cut) \in Seq(S)
      /\ Len(SubSeq(ordered, 1, cut)) = cut
  BY <1>6, <1>8
<1> QED
  BY <1>5, <1>7, <1>8, <1>9 DEF FirstOf

\* Every context consists of rows.
LEMMA ContextsStep == Contexts /\ PipelineInv /\ PipelineInv' /\ [Next]_vars => Contexts'
<1> SUFFICES ASSUME Contexts, PipelineInv, PipelineInv', [Next]_vars PROVE Contexts'
  OBVIOUS
<1>1. CASE ExpandStep
  <2>1. documents' = expanded' /\ expanded' \subseteq Rows
    BY <1>1 DEF ExpandStep, PipelineInv, RetrievalTypeOK, Rows
  <2> QED
    BY <1>1, <2>1 DEF ExpandStep, Contexts, Rows, rerankVars
<1>2. CASE Rerank
  <2>1. candidates \in Seq(Rows) /\ FinalK \in Nat
    BY RetrievalAssumption DEF PipelineInv, RetrievalTypeOK
  <2>2. \/ UNCHANGED reranked
        \/ \E reply \in Replies(Len(candidates)) :
             /\ parseRanking(reply, Len(candidates))
             /\ reranked' = FirstOf(FinalK, InOrder(reply, candidates))
    BY <1>2 DEF Rerank
  <2>3. reranked' \in Seq(Rows) /\ Len(reranked') <= FinalK
    BY <2>1, <2>2, RankingApplied DEF Contexts
  <2> QED
    BY <1>2, <2>3 DEF Rerank, Contexts, Rows
<1>3. CASE ReExpand
  <2>1. documents' \subseteq Table /\ reranked' = <<>>
    BY <1>3, ChunksAreRows DEF ReExpand
  <2>2. Table \subseteq Rows
    BY TableRows DEF PipelineInv
  <2>3. reranked' \in Seq(Rows) /\ Len(reranked') <= FinalK
    BY <2>1, RetrievalAssumption
  <2> QED
    BY <1>3, <2>1, <2>2, <2>3 DEF ReExpand, Contexts, Rows
<1>4. CASE Budget
  <2>1. documents' \subseteq documents /\ UNCHANGED <<judged, sent, rerankVars>>
    BY <1>4 DEF Budget
  <2> QED
    BY <2>1 DEF Contexts, Rows, rerankVars
<1>5. CASE Judge
  BY <1>5 DEF Judge, Contexts, Rows, rerankVars
<1>6. CASE Answer
  BY <1>6 DEF Answer, Contexts, Rows, rerankVars
<1>7. CASE \/ CheckQuestion \/ Prepare \/ SearchStep \/ RerankFails \/ Classify
          \/ Attribute \/ Repair \/ RepairFallsBack \/ Fails \/ Deadline
          \/ GuardExpires \/ IngestCommits \/ Ended \/ UNCHANGED vars
  <2>1. UNCHANGED <<documents, judged, sent, reranked>>
    BY <1>7 DEF CheckQuestion, Prepare, SearchStep, RerankFails, Classify,
       Attribute, Repair, RepairFallsBack, Fails, Deadline, GuardExpires,
       IngestCommits, Ended, vars, ragVars, rerankVars
  <2> QED
    BY <2>1 DEF Contexts, Rows
<1> QED
  BY <1>1, <1>2, <1>3, <1>4, <1>5, <1>6, <1>7 DEF Next, Request

\* The counts of an outcome are those of sets of pairs.
LEMMA FinishCounts ==
  ASSUME NEW cited \in SUBSET Pairs, NEW repaired, NEW stripped \in SUBSET Pairs,
         Finish(cited, repaired, stripped)
  PROVE  /\ answer' \subseteq Pairs
         /\ outcome'.valid \in Nat /\ outcome'.total \in Nat
         /\ outcome'.stripped \in 0..Cardinality(Pairs)
<1>1. Strip(cited) \in SUBSET Pairs
  BY DEF Strip
<1>2. ASSUME NEW part \in SUBSET Pairs
      PROVE  Cardinality(part) \in Nat /\ Cardinality(part) <= Cardinality(Pairs)
  BY RagAssumption, FS_Subset, FS_CardinalityType
<1>3. Cardinality(Pairs) \in Nat
  BY RagAssumption, FS_CardinalityType
<1>4. /\ answer' = cited
      /\ outcome'.stripped = Cardinality(stripped)
      /\ outcome'.valid = Cardinality(Strip(cited))
      /\ outcome'.total = Cardinality(cited)
  BY DEF Finish
<1> QED
  BY <1>1, <1>2, <1>3, <1>4

\* Answers cite pairs, and what is stripped is part of one answer.
LEMMA CitedStep == Cited /\ [Next]_vars => Cited'
<1> SUFFICES ASSUME Cited, [Next]_vars PROVE Cited'
  OBVIOUS
<1>1. CASE Answer
  <2>1. PICK cited \in SUBSET Pairs :
          /\ draft' = cited
          /\ \/ answer' = cited /\ UNCHANGED outcome
             \/ Finish(cited, FALSE, {})
             \/ UNCHANGED <<answer, outcome>>
    BY <1>1 DEF Answer
  <2>2. CASE Finish(cited, FALSE, {})
    BY <2>1, <2>2, FinishCounts DEF Cited, Pairs
  <2>3. CASE ~Finish(cited, FALSE, {})
    BY <2>1, <2>3 DEF Cited, Pairs
  <2> QED
    BY <2>2, <2>3
<1>2. CASE Repair \/ RepairFallsBack
  <2>1. \E cited \in SUBSET Pairs : Finish(Strip(cited), TRUE, cited \ Strip(cited))
    BY <1>2 DEF Repair, RepairFallsBack, Cited
  <2>2. PICK cited \in SUBSET Pairs : Finish(Strip(cited), TRUE, cited \ Strip(cited))
    BY <2>1
  <2>3. Strip(cited) \in SUBSET Pairs /\ cited \ Strip(cited) \in SUBSET Pairs
    BY DEF Strip
  <2>4. UNCHANGED draft
    BY <1>2 DEF Repair, RepairFallsBack
  <2> QED
    BY <2>2, <2>3, <2>4, FinishCounts DEF Cited, Pairs
<1>3. CASE ~(Answer \/ Repair \/ RepairFallsBack)
  <2>1. UNCHANGED <<draft, answer, outcome>>
    BY <1>3 DEF Next, Request, CheckQuestion, Prepare, SearchStep, ExpandStep,
       Rerank, RerankFails, Classify, Attribute, ReExpand, Budget, Judge, Fails,
       Deadline, GuardExpires, IngestCommits, Ended, vars, ragVars
  <2> QED
    BY <2>1 DEF Cited, Pairs
<1> QED
  BY <1>1, <1>2, <1>3

\* Type correctness of the request: its contexts are rows of the table, the
\* reranked choice no longer than asked, and its counts those of answers.
THEOREM TypeCorrect == Spec => []TypeOK
<1>1. RagInit => Control /\ Contexts /\ Cited
  <2>1. ASSUME RagInit PROVE Control
    BY <2>1 DEF RagInit, Control, Stages, Waiting, FallbackReasons
  <2>2. <<>> \in Seq(Rows) /\ Len(<<>>) <= FinalK
    BY RetrievalAssumption
  <2>3. ASSUME RagInit PROVE Contexts
    BY <2>2, <2>3 DEF RagInit, Contexts
  <2>4. Cardinality(Pairs) \in Nat
    BY RagAssumption, FS_CardinalityType
  <2>5. ASSUME RagInit PROVE Cited
    <3>1. NoOutcome.stripped = 0 /\ NoOutcome.valid = 0 /\ NoOutcome.total = 0
      BY DEF NoOutcome
    <3>2. outcome = NoOutcome /\ draft = {} /\ answer = {}
      BY <2>5 DEF RagInit
    <3> QED
      BY <2>4, <3>1, <3>2 DEF Cited
  <2> QED
    BY <2>1, <2>3, <2>5
<1>2. Spec => []PipelineInv
  BY RequestPipeline, PipelineInvariance, PTL
<1>3. Spec => [](Control /\ Contexts /\ Cited)
  BY <1>1, <1>2, ControlStep, ContextsStep, CitedStep, PTL DEF Spec
<1>4. PipelineInv /\ Control /\ Contexts /\ Cited => TypeOK
  BY DEF PipelineInv, Control, Contexts, Cited, TypeOK
<1> QED
  BY <1>2, <1>3, <1>4, PTL
=============================================================================
