------------------------ MODULE RetrievalServiceProofs ------------------------
(***************************************************************************)
(* Isolation of cmd/retrieval's corpora, the coverage of its expansion, its *)
(* types and the consensus of its searches, for any files, labels,          *)
(* requests, limits and number of ingests.                                  *)
(***************************************************************************)
EXTENDS RetrievalService, RetrievalProofs

------------------------------------------------------------------------------
(* The pipeline only selects rows it was given.                              *)

\* A fused ranking holds documents of the rankings.
LEMMA FusedFromRankings ==
  ASSUME NEW lists, NEW topK
  PROVE  Members(FuseRankings(lists, topK))
         \subseteq UNION {Members(lists[n]) : n \in DOMAIN lists}
<1> DEFINE docs == UNION {Members(lists[n]) : n \in DOMAIN lists}
           place == [d \in docs |-> 1 + Cardinality({e \in docs : Before(e, d, lists)})]
           f == [k \in {place[d] : d \in docs} \cap 1..topK |->
                    CHOOSE d \in docs : place[d] = k]
<1>1. FuseRankings(lists, topK) = f
  BY DEF FuseRankings, FusedUpTo
<1>2. ASSUME NEW k \in DOMAIN f PROVE f[k] \in docs
  <2>1. \E d \in docs : place[d] = k
    <3> HIDE DEF place, docs
    <3> QED OBVIOUS
  <2> HIDE DEF place, docs
  <2> QED
    BY <2>1
<1> HIDE DEF f, docs
<1>3. Members(f) \subseteq docs
  BY <1>2 DEF Members
<1> QED
  BY <1>1, <1>3 DEF docs

\* What is taken at positions of a ranking is in it.
LEMMA PositionsMembers ==
  ASSUME NEW docs, NEW P, P \subseteq DOMAIN docs
  PROVE  Members(AtPositions(docs, P)) \subseteq Members(docs)
<1> DEFINE place == [k \in P |-> Cardinality({j \in P : j <= k})]
           f == [n \in {place[k] : k \in P} |-> docs[CHOOSE k \in P : place[k] = n]]
<1>1. AtPositions(docs, P) = f
  BY DEF AtPositions
<1>2. ASSUME NEW n \in DOMAIN f PROVE f[n] \in Members(docs)
  <2> HIDE DEF place
  <2>1. \E k \in P : place[k] = n
    OBVIOUS
  <2>2. PICK k \in P : k = (CHOOSE i \in P : place[i] = n)
    BY <2>1
  <2> QED
    BY <2>2 DEF Members
<1> HIDE DEF f
<1>3. Members(f) \subseteq Members(docs)
  BY <1>2 DEF Members
<1> QED
  BY <1>1, <1>3

\* Deduplication keeps documents of the ranking.
LEMMA DeduplicatedMembers ==
  ASSUME NEW docs
  PROVE  Members(DeduplicateSections(docs)) \subseteq Members(docs)
  BY PositionsMembers DEF DeduplicateSections

------------------------------------------------------------------------------
(* The inductive invariant.                                                  *)

AllRows == [source : Sources, serial : Nat, index : Nat, section : Sections]

\* Every stored serial has a label, and was stored when the request passed or
\* later, as every serial to come will be.
StoredEligible ==
    /\ labels \in Seq([source : Sources, label : Labels])
    /\ Len(labels) = ingests
    /\ ingests \in 0..MaxIngests
    /\ stored \in [Sources -> SUBSET [layout : Seq(Sections), serial : 1..ingests]]
    /\ \A s \in Sources : \A v \in stored[s] : v.serial \in eligible
    /\ (ingests + 1)..MaxIngests \subseteq eligible
    /\ eligible \subseteq 1..MaxIngests

\* A row that was stored, in scope, at some moment of the request.
Found(d) ==
    /\ d.serial \in 1..ingests
    /\ InScope(d)
    /\ d.serial \in eligible

\* Everything the request holds is such a row, and only an authorized request
\* holds anything.
Isolated ==
    /\ stage \in {"load", "connect", "embed", "retrieve"} => request.corpus \in Allowed
    /\ stage \in {"read", "load", "connect", "embed"} => rankings = <<>> /\ fused = <<>>
    /\ rankings \in Seq(Seq(AllRows))
    /\ \A n \in DOMAIN rankings : \A d \in Members(rankings[n]) : Found(d)
    /\ \A d \in Members(fused) : Found(d)
    /\ stage # "end" => response.evidence = <<>>
    /\ \A d \in Members(response.evidence) : Found(d) /\ request.corpus \in Allowed

IInv == StoredEligible /\ Isolated

\* The initial states satisfy the invariant.
LEMMA InitIInv == ServiceInit => IInv
<1> SUFFICES ASSUME ServiceInit PROVE IInv
  OBVIOUS
<1>1. StoredEligible
  BY RetrievalAssumption DEF ServiceInit, Init, StoredEligible
<1>2. Members(<<>>) = {}
  BY DEF Members
<1>3. Isolated
  BY <1>2 DEF ServiceInit, Init, Isolated, NoResponse
<1> QED
  BY <1>1, <1>3 DEF IInv

\* The rows in scope are rows, and found.
LEMMA ScopeFound ==
  ASSUME StoredEligible
  PROVE  Scope \subseteq AllRows /\ \A d \in Scope : Found(d)
<1> SUFFICES ASSUME NEW d \in Scope PROVE d \in AllRows /\ Found(d)
  OBVIOUS
<1>1. d \in Table /\ InScope(d)
  BY DEF Scope
<1>2. PICK s \in Sources : d \in RowsOf(s)
  BY <1>1 DEF Table
<1>3. PICK v \in stored[s] : d \in RowsOfDocument(s, v)
  BY <1>2 DEF RowsOf
<1>4. PICK i \in DOMAIN v.layout : d = Row(s, v.serial, i, v.layout[i])
  BY <1>3 DEF RowsOfDocument
<1>5. /\ v \in [layout : Seq(Sections), serial : 1..ingests]
      /\ v.serial \in eligible /\ ingests \in Nat
  BY RetrievalAssumption DEF StoredEligible
<1>6. i \in Nat /\ v.layout[i] \in Sections /\ v.serial \in 1..ingests
  BY <1>4, <1>5
<1>7. d.serial = v.serial /\ d \in AllRows
  BY <1>4, <1>5, <1>6 DEF Row, AllRows
<1> QED
  BY <1>1, <1>5, <1>6, <1>7 DEF Found

\* Steps that touch neither the table nor what Found reads.
LEMMA FoundKept ==
  ASSUME UNCHANGED <<ingests, labels, request, eligible>>, NEW d, Found(d)
  PROVE  Found(d)'
  BY DEF Found, InScope

\* A search keeps the invariant.
LEMMA SearchIsolated == IInv /\ SearchStep => IInv'
<1> SUFFICES ASSUME IInv, SearchStep PROVE IInv'
  OBVIOUS
<1>0. StoredEligible /\ Isolated
  BY DEF IInv
<1>1. /\ stage = "retrieve"
      /\ UNCHANGED <<table, labels, request, stage, expired, eligible, response>>
  BY DEF SearchStep, SearchOver, serviceVars
<1>2. PICK r \in RankingsOf(Scope) :
        /\ rankings' = Append(rankings, r)
        /\ \/ Fuse(Append(rankings, r))
           \/ UNCHANGED fused
  BY DEF SearchStep, SearchOver
<1>3. Scope \subseteq AllRows /\ \A d \in Scope : Found(d)
  BY <1>0, ScopeFound
<1>4. PICK size \in Nat : r \in [1..size -> Scope]
  BY <1>2, RetrievalAssumption DEF RankingsOf
<1>5. r \in Seq(AllRows) /\ Members(r) \subseteq Scope
  BY <1>3, <1>4 DEF Members
<1>6. rankings' \in Seq(Seq(AllRows))
  BY <1>0, <1>2, <1>5 DEF Isolated
<1>7. ASSUME NEW n \in DOMAIN rankings', NEW d \in Members(rankings'[n])
      PROVE  Found(d)
  <2>1. rankings \in Seq(Seq(AllRows))
    BY <1>0 DEF Isolated
  <2>2. CASE n \in DOMAIN rankings
    BY <2>1, <2>2, <1>0, <1>2, <1>7 DEF Isolated
  <2>3. CASE n \notin DOMAIN rankings
    <3>1. rankings'[n] = r
      BY <2>1, <2>3, <1>2
    <3> QED
      BY <3>1, <1>3, <1>5
  <2> QED
    BY <2>2, <2>3
<1>8. ASSUME NEW d \in Members(fused') PROVE Found(d)
  <2>1. CASE UNCHANGED fused
    BY <2>1, <1>0 DEF Isolated
  <2>2. CASE Fuse(Append(rankings, r))
    <3>1. fused' = DeduplicateSections(FuseRankings(rankings', FinalK))
      BY <2>2, <1>2 DEF Fuse
    <3>2. d \in UNION {Members(rankings'[n]) : n \in DOMAIN rankings'}
      BY <3>1, DeduplicatedMembers, FusedFromRankings
    <3> QED
      BY <3>2, <1>7
  <2> QED
    BY <1>2, <2>1, <2>2
<1>9. UNCHANGED <<ingests, labels, request, eligible, stored>>
  BY <1>1 DEF table
<1>10. \A d : Found(d) => Found(d)'
  BY <1>9, FoundKept
<1>11. StoredEligible'
  BY <1>0, <1>9 DEF StoredEligible
<1>12. Isolated'
  BY <1>0, <1>1, <1>6, <1>7, <1>8, <1>10 DEF Isolated
<1> QED
  BY <1>11, <1>12 DEF IInv

\* An ingest keeps the invariant: it labels its own serial only.
LEMMA IngestIsolated ==
  ASSUME IInv, NEW s \in Sources, IngestLabelled(s) PROVE IInv'
<1>0. StoredEligible /\ Isolated
  BY DEF IInv
<1>1. PICK l \in Labels : labels' = Append(labels, [source |-> s, label |-> l])
  BY DEF IngestLabelled
<1>2. /\ ingests' = ingests + 1 /\ ingests < MaxIngests
      /\ UNCHANGED <<queries, step, rankings, candidates, fused, expanded>>
      /\ UNCHANGED <<request, stage, expired, eligible, response>>
  BY DEF IngestLabelled, Ingest, pipeline
<1>3. /\ labels \in Seq([source : Sources, label : Labels])
      /\ Len(labels) = ingests /\ ingests \in Nat
      /\ ingests \in 0..MaxIngests /\ MaxIngests \in Nat
      /\ stored \in [Sources -> SUBSET [layout : Seq(Sections), serial : 1..ingests]]
  BY <1>0, RetrievalAssumption DEF StoredEligible
<1>4. /\ labels' \in Seq([source : Sources, label : Labels])
      /\ Len(labels') = ingests'
      /\ \A n \in 1..ingests : labels'[n] = labels[n]
  BY <1>1, <1>2, <1>3
<1>5. PICK y \in Layouts, beside \in SUBSET stored[s] :
        stored' = [stored EXCEPT ![s] = beside \cup {Entry(y)}]
  BY IngestStores DEF IngestLabelled
<1>6. ASSUME NEW t \in Sources, NEW v \in stored'[t]
      PROVE  /\ v \in [layout : Seq(Sections), serial : 1..ingests']
             /\ v.serial \in eligible'
  <2>1. v = Entry(y) \/ v \in stored[t]
    BY <1>3, <1>5
  <2>2. CASE v = Entry(y)
    <3>1. ingests + 1 \in (ingests + 1)..MaxIngests /\ ingests + 1 \in 1..ingests'
      BY <1>2, <1>3
    <3>2. y \in Seq(Sections)
      BY RetrievalAssumption
    <3> QED
      BY <2>2, <3>1, <3>2, <1>0, <1>2 DEF Entry, StoredEligible
  <2>3. CASE v \in stored[t]
    <3>1. v \in [layout : Seq(Sections), serial : 1..ingests]
      BY <2>3, <1>3
    <3>2. 1..ingests \subseteq 1..ingests'
      BY <1>2, <1>3
    <3> QED
      BY <2>3, <3>1, <3>2, <1>0, <1>2 DEF StoredEligible
  <2> QED
    BY <2>1, <2>2, <2>3
<1>7. StoredEligible'
  <2>1. DOMAIN stored' = Sources /\ stored' = [t \in Sources |-> stored'[t]]
    BY <1>3, <1>5
  <2>2. stored' \in [Sources -> SUBSET [layout : Seq(Sections), serial : 1..ingests']]
    BY <2>1, <1>6
  <2>3. ingests' \in 0..MaxIngests
    BY <1>2, <1>3
  <2>4. (ingests' + 1)..MaxIngests \subseteq (ingests + 1)..MaxIngests
    BY <1>2, <1>3
  <2> QED
    BY <2>2, <2>3, <2>4, <1>0, <1>2, <1>4, <1>6 DEF StoredEligible
<1>8. ASSUME NEW d, Found(d) PROVE Found(d)'
  <2>1. d.serial \in 1..ingests /\ d.serial \in 1..ingests'
    BY <1>2, <1>3, <1>8 DEF Found
  <2>2. InScope(d)'
    BY <2>1, <1>2, <1>4, <1>8 DEF Found, InScope
  <2> QED
    BY <2>1, <2>2, <1>2, <1>8 DEF Found
<1>9. Isolated'
  BY <1>0, <1>2, <1>8 DEF Isolated
<1> QED
  BY <1>7, <1>9 DEF IInv

\* The steps before and after the searches keep the invariant.
LEMMA OtherIsolated ==
  ASSUME IInv,
         \/ Refuse \/ Authorize \/ Load \/ Prepare \/ PrepareFails
         \/ ExpandAndAnswer \/ RetrievalFails \/ Classify \/ Deadline
         \/ Ended \/ UNCHANGED vars
  PROVE  IInv'
<1>0. StoredEligible /\ Isolated
  BY DEF IInv
<1>e. Members(<<>>) = {}
  BY DEF Members
<1>1. UNCHANGED <<stored, ingests, labels, request>>
  BY DEF Refuse, Authorize, Load, Prepare, PrepareFails, ExpandAndAnswer,
     ExpandOver, RetrievalFails, StatementFails, Classify, Deadline, Ended, vars,
     serviceVars, retrievalVars, table
<1>2. CASE Authorize
  <2>1. /\ stage = "read" /\ UNCHANGED <<rankings, fused>>
        /\ eligible' \in {eligible, StoredSerials \cup ((ingests + 1)..MaxIngests)}
        /\ \/ request.corpus \in Allowed /\ stage' = "load" /\ UNCHANGED response
           \/ stage' = "end" /\ response'.evidence = <<>>
    BY <1>2 DEF Authorize, Goto, Respond, retrievalVars, pipeline
  <2>2. rankings = <<>> /\ fused = <<>> /\ response'.evidence = <<>>
    BY <2>1, <1>0 DEF Isolated
  <2>a. /\ ingests \in Nat /\ MaxIngests \in Nat /\ ingests \in 0..MaxIngests
        /\ stored \in [Sources -> SUBSET [layout : Seq(Sections), serial : 1..ingests]]
    BY <1>0, RetrievalAssumption DEF StoredEligible
  <2>b. StoredSerials \subseteq 1..ingests
    BY <2>a DEF StoredSerials
  <2>c. StoredSerials \cup ((ingests + 1)..MaxIngests) \subseteq 1..MaxIngests
    BY <2>a, <2>b
  <2>d. \A s \in Sources : \A v \in stored[s] : v.serial \in StoredSerials
    BY DEF StoredSerials
  <2>3. StoredEligible'
    BY <2>1, <2>c, <2>d, <1>0, <1>1 DEF StoredEligible
  <2>4. Isolated'
    BY <2>1, <2>2, <1>0, <1>1, <1>e DEF Isolated
  <2> QED
    BY <2>3, <2>4 DEF IInv
<1>3. CASE ~Authorize
  <2>1. UNCHANGED <<stored, ingests, labels, request, eligible>>
    BY <1>1, <1>3 DEF Refuse, Load, Prepare, PrepareFails, ExpandAndAnswer,
       RetrievalFails, Classify, Deadline, Ended, vars, serviceVars
  <2>2. StoredEligible'
    BY <2>1, <1>0 DEF StoredEligible
  <2>3. \A d : Found(d) => Found(d)'
    BY <2>1, FoundKept
  <2>4. CASE ExpandAndAnswer
    <3>1. /\ rankings' = <<>> /\ fused' = fused /\ stage = "retrieve"
          /\ stage' = "end" /\ response'.evidence = fused
      BY <2>4 DEF ExpandAndAnswer, ExpandOver, Respond
    <3>2. Isolated'
      BY <3>1, <2>1, <2>3, <1>0, <1>e DEF Isolated
    <3> QED
      BY <2>2, <3>2 DEF IInv
  <2>5. CASE ~ExpandAndAnswer
    <3>1. UNCHANGED <<rankings, fused>>
      BY <2>5, <1>3 DEF Refuse, Load, Prepare, PrepareFails, RetrievalFails,
         StatementFails, Classify, Deadline, Ended, vars, retrievalVars, pipeline
    <3>2. \/ UNCHANGED <<stage, response>>
          \/ stage' = "end" /\ response'.evidence = <<>>
          \/ /\ stage \in {"load", "connect", "embed"} /\ UNCHANGED response
             /\ stage' \in {"connect", "embed", "retrieve"}
      BY <2>5, <1>3 DEF Refuse, Load, Prepare, PrepareFails, RetrievalFails,
         Classify, Deadline, Ended, vars, serviceVars, Respond, Goto
    <3>3. Isolated'
      BY <3>1, <3>2, <2>1, <2>3, <1>0, <1>e DEF Isolated
    <3> QED
      BY <2>2, <3>3 DEF IInv
  <2> QED
    BY <2>4, <2>5
<1> QED
  BY <1>2, <1>3

\* The invariant holds in every state.
THEOREM Invariance == Spec => []IInv
<1>1. IInv /\ [Next]_vars => IInv'
  BY SearchIsolated, IngestIsolated, OtherIsolated DEF Next, Serve
<1> QED
  BY <1>1, InitIInv, PTL DEF Spec

\* Every row of a response was stored during the request, in the corpus that
\* was asked for and under the other filters.
THEOREM Isolation == Spec => []EvidenceInScope
<1>1. IInv => EvidenceInScope
  <2> SUFFICES ASSUME IInv, NEW k \in DOMAIN response.evidence
               PROVE  /\ request.corpus \in Allowed
                      /\ Found(response.evidence[k])
    BY DEF EvidenceInScope, Found
  <2>1. response.evidence[k] \in Members(response.evidence)
    BY DEF Members
  <2> QED
    BY <2>1 DEF IInv, Isolated
<1> QED
  BY <1>1, Invariance, PTL

------------------------------------------------------------------------------
(* The command's pipeline is Retrieval's.                                    *)

\* Each step of the command is a step of the pipeline over the rows in scope,
\* or none of its steps.
LEMMA ServesPipeline == Spec => RetrievalSpec
<1>1. ServiceInit => Init
  BY DEF ServiceInit
<1>2. ASSUME [Next]_vars PROVE [Pipeline]_retrievalVars
  <2>1. Scope \in SUBSET Table
    BY DEF Scope
  <2>2. CASE SearchStep
    <3>1. SearchOver(Scope)
      BY <2>2 DEF SearchStep
    <3> QED
      BY <2>1, <3>1 DEF Pipeline
  <2>3. CASE ExpandAndAnswer
    <3>1. ExpandOver(Scope)
      BY <2>3 DEF ExpandAndAnswer
    <3> QED
      BY <2>1, <3>1 DEF Pipeline
  <2>4. CASE RetrievalFails
    BY <2>4 DEF RetrievalFails, Pipeline
  <2>5. ASSUME NEW s \in Sources, IngestLabelled(s) PROVE Pipeline
    BY <2>5 DEF IngestLabelled, Pipeline
  <2>6. CASE \/ Refuse \/ Authorize \/ Load \/ Prepare \/ PrepareFails
            \/ Classify \/ Deadline \/ Ended \/ UNCHANGED vars
    BY <2>6 DEF Refuse, Authorize, Load, Prepare, PrepareFails, Classify,
       Deadline, Ended, vars
  <2> QED
    BY <1>2, <2>2, <2>3, <2>4, <2>5, <2>6 DEF Next, Serve
<1> QED
  BY <1>1, <1>2, PTL DEF Spec, RetrievalSpec

\* The rows in hand are rows.
THEOREM ServiceRows == Spec => []RetrievalTypeOK
  BY ServesPipeline, RetrievalTyped, PTL

\* Fusion respects the consensus of the command's searches.
THEOREM ServiceConsensus == Spec => []FusionRespectsConsensus
  BY ServesPipeline, ConsensusRespected, PTL

\* The request's own variables: a response ends it, and nothing else does.
Served ==
    /\ request \in Requests
    /\ stage \in {"read", "load", "connect", "embed", "retrieve", "end"}
    /\ expired \in BOOLEAN
    /\ response \in [status : Statuses, evidence : Seq(Rows)]
    /\ stage = "end" <=> response.status # "none"

\* A response with one of the statuses that are written.
LEMMA Responded ==
  ASSUME NEW status \in Statuses \ {"none"}, NEW evidence \in Seq(Rows),
         Respond(status, evidence)
  PROVE  /\ response' \in [status : Statuses, evidence : Seq(Rows)]
         /\ stage' = "end" /\ response'.status # "none"
  BY DEF Respond

\* Each step keeps them.
LEMMA ServedStep == Served /\ RetrievalTypeOK /\ [Next]_vars => Served'
<1> SUFFICES ASSUME Served, RetrievalTypeOK, [Next]_vars PROVE Served'
  OBVIOUS
<1> DEFINE Written == Statuses \ {"none"}
<1>0. <<>> \in Seq(Rows) /\ fused \in Seq(Rows)
  BY DEF RetrievalTypeOK
<1>1. ASSUME NEW status \in Written, Respond(status, <<>>)
      PROVE  /\ response' \in [status : Statuses, evidence : Seq(Rows)]
             /\ stage' = "end" /\ response'.status # "none"
  BY <1>0, <1>1, Responded
<1>2. CASE UNCHANGED <<request, stage, expired, response>>
  BY <1>2 DEF Served
<1>3. CASE /\ UNCHANGED <<request, expired>>
           /\ \E status \in Written : Respond(status, <<>>)
  BY <1>1, <1>3 DEF Served
<1>4. CASE /\ UNCHANGED <<request, expired, response>>
           /\ stage # "end"
           /\ stage' \in {"load", "connect", "embed", "retrieve"}
  BY <1>4 DEF Served
<1>5. CASE ExpandAndAnswer
  <2>1. PICK status \in {"EMPTY", "OK"} : Respond(status, fused)
    BY <1>5 DEF ExpandAndAnswer
  <2>2. status \in Statuses \ {"none"}
    BY <2>1 DEF Statuses
  <2>3. /\ response' \in [status : Statuses, evidence : Seq(Rows)]
        /\ stage' = "end" /\ response'.status # "none"
    BY <1>0, <2>1, <2>2, Responded
  <2>4. UNCHANGED <<request, expired>>
    BY <1>5 DEF ExpandAndAnswer
  <2> QED
    BY <2>3, <2>4 DEF Served
<1>6. CASE Deadline
  BY <1>6 DEF Deadline, Served
<1>7. CASE Refuse
  <2>1. \A k \in DOMAIN Checks : Checks[k].status \in Written
    BY DEF Checks, Statuses
  <2>2. \E k \in DOMAIN Checks : Respond(Checks[k].status, <<>>)
    BY <1>7 DEF Refuse
  <2>3. UNCHANGED <<request, expired>>
    BY <1>7 DEF Refuse
  <2> QED
    BY <1>3, <2>1, <2>2, <2>3
<1>8. CASE Authorize \/ Load \/ Prepare \/ PrepareFails \/ Classify
  <2>1. UNCHANGED <<request, expired>>
    BY <1>8 DEF Authorize, Load, Prepare, PrepareFails, Classify
  <2>2. {"UNAUTHORIZED_SCOPE", "INTERNAL", "UNAVAILABLE", "TIMEOUT"} \subseteq Written
    BY DEF Statuses
  <2>3. \/ \E status \in {"UNAUTHORIZED_SCOPE", "INTERNAL", "UNAVAILABLE", "TIMEOUT"} :
             Respond(status, <<>>)
        \/ /\ UNCHANGED response /\ stage # "end"
           /\ stage' \in {"load", "connect", "embed", "retrieve"}
    BY <1>8 DEF Authorize, Load, Prepare, PrepareFails, Classify, Goto
  <2> QED
    BY <1>3, <1>4, <2>1, <2>2, <2>3
<1>9. CASE \/ SearchStep \/ RetrievalFails \/ (\E s \in Sources : IngestLabelled(s))
          \/ Ended \/ UNCHANGED vars
  BY <1>2, <1>9 DEF SearchStep, RetrievalFails, IngestLabelled, Ended, vars, serviceVars
<1> QED
  BY <1>5, <1>6, <1>7, <1>8, <1>9 DEF Next, Serve

\* Type correctness of the command: there is a label for every serial, and a
\* request has ended exactly when its response is written.
THEOREM ServiceTyped == Spec => []ServiceTypeOK
<1>1. ServiceInit => Served
  <2>1. <<>> \in Seq(Rows) /\ "none" \in Statuses
    BY DEF Statuses
  <2>2. NoResponse \in [status : Statuses, evidence : Seq(Rows)]
        /\ NoResponse.status = "none"
    BY <2>1 DEF NoResponse
  <2> QED
    BY <2>2 DEF ServiceInit, Served
<1>2. Spec => []Served
  BY <1>1, ServedStep, ServiceRows, PTL DEF Spec
<1>3. RetrievalTypeOK /\ IInv /\ Served => ServiceTypeOK
  BY DEF IInv, StoredEligible, Served, ServiceTypeOK
<1> QED
  BY <1>2, <1>3, ServiceRows, Invariance, PTL

------------------------------------------------------------------------------
(* The expansion.  A section's share is a division, which needs finitely     *)
(* many sections: those of a ranking that is a sequence.                     *)

\* A section's share is at least one row.
LEMMA ShareIsPositive ==
  ASSUME NEW keys, IsFiniteSet(keys), keys # {}
  PROVE  PerSection(keys) \in Nat /\ PerSection(keys) >= 1
<1>1. Cardinality(keys) \in Nat /\ Cardinality(keys) # 0
  BY FS_CardinalityType, FS_EmptySet
<1>2. PICK q \in Nat : q = ExpandLimit \div Cardinality(keys)
  BY <1>1, RetrievalAssumption
<1>3. \E m \in {1, q} : \A k \in {1, q} : m >= k
  OBVIOUS
<1>4. Max({1, q}) \in {1, q} /\ Max({1, q}) >= 1
  BY <1>3 DEF Max
<1>5. PerSection(keys) = Max({1, q})
  BY <1>2 DEF PerSection
<1> QED
  BY <1>4, <1>5

\* Of a section with a row in scope at least one is selected.
LEMMA SectionSelected ==
  ASSUME NEW rows, NEW keys, IsFiniteSet(keys), NEW p \in keys,
         NEW chunks \in SectionChunks(rows, keys),
         NEW d \in rows, PairOf(d) = p
  PROVE  \E e \in chunks : PairOf(e) = p
<1>1. FirstRows(InSection(chunks, p), InSection(rows, p), PerSection(keys))
  BY DEF SectionChunks
<1>2. PerSection(keys) \in Nat /\ PerSection(keys) >= 1
  BY ShareIsPositive
<1>3. InSection(chunks, p) # {}
  <2>1. CASE InSection(chunks, p) = InSection(rows, p)
    BY <2>1 DEF InSection
  <2>2. CASE Cardinality(InSection(chunks, p)) = PerSection(keys)
    BY <2>2, <1>2, FS_EmptySet
  <2> QED
    BY <1>1, <2>1, <2>2 DEF FirstRows
<1> QED
  BY <1>3 DEF InSection

\* An expansion returns rows in scope only, and at least one of every fused
\* section that has one, whatever EXPAND_LIMIT and the number of sections are.
THEOREM Coverage == Spec => ExpansionCoversScope
<1>1. ASSUME IInv, RetrievalTypeOK, [Next]_vars, step = "expand", step' = "done"
      PROVE  /\ expanded' \subseteq Scope
             /\ \A p \in SectionKeys(fused) :
                   (\E d \in Scope : PairOf(d) = p)
                   => \E d \in expanded' : PairOf(d) = p
  <2>1. ExpandAndAnswer
    BY <1>1 DEF Next, Serve, Refuse, Authorize, Load, Prepare, PrepareFails,
       SearchStep, SearchOver, RetrievalFails, StatementFails, Classify,
       Deadline, IngestLabelled, Ingest, Ended, vars, retrievalVars, pipeline
  <2>2. expanded' \in SectionChunks(Scope, SectionKeys(fused))
    BY <2>1 DEF ExpandAndAnswer, ExpandOver
  <2>3. IsFiniteSet(SectionKeys(fused))
    <3> DEFINE docs == Members(DeduplicateSections(fused))
               g    == [d \in docs |-> PairOf(d)]
    <3>1. IsFiniteSet(docs)
      <4>1. IsFiniteSet(Members(fused))
        BY <1>1, MembersFinite DEF RetrievalTypeOK
      <4> QED
        BY <4>1, DeduplicatedMembers, FS_Subset
    <3>2. g \in Surjection(docs, SectionKeys(fused))
      BY DEF SectionKeys, Surjection
    <3> QED
      BY <3>1, <3>2, FS_Surjection
  <2>4. ASSUME NEW p \in SectionKeys(fused), NEW d \in Scope, PairOf(d) = p
        PROVE  \E e \in expanded' : PairOf(e) = p
    BY <2>2, <2>3, <2>4, SectionSelected
  <2> QED
    BY <2>2, <2>4 DEF SectionChunks
<1>2. IInv /\ RetrievalTypeOK /\ [Next]_vars =>
        [step = "expand" /\ step' = "done" =>
          /\ expanded' \subseteq Scope
          /\ \A p \in SectionKeys(fused) :
                (\E d \in Scope : PairOf(d) = p)
                => \E d \in expanded' : PairOf(d) = p]_vars
  BY <1>1
<1> QED
  BY <1>2, ServiceRows, Invariance, PTL DEF Spec, ExpansionCoversScope

===============================================================================
