--------------------------- MODULE RetrievalService ---------------------------
(***************************************************************************)
(* cmd/retrieval: one JSON request on stdin, one JSON response on stdout.   *)
(* The request is checked, its corpus against the allowlist, and a          *)
(* retrieval under its filters runs with a deadline of its own while        *)
(* ingests commit, which may move a file to another corpus or language.     *)
(*                                                                          *)
(* Every row carries the label of its ingest.  The filters are part of each *)
(* of the three statements (filterFragment), so the pipeline is Retrieval's *)
(* over the rows in scope.  top_k, 5 unless it is in 1..50, is FinalK and   *)
(* four times it CandidateK.  The corpus of a request is what TrimSpace     *)
(* returns; names and instants are compared as the SQL compares them.       *)
(***************************************************************************)
EXTENDS Retrieval

CONSTANTS Labels,           \* the provenance an ingest may give its rows
          Requests,         \* the requests a caller may send
          Allowed           \* RAG_RETRIEVAL_ALLOWED_CORPORA

\* An unset corpus or language of a request, and the NULL a row has for one.
Unset == "unset"

Defects == {"unreadable", "oversize", "malformed", "schema"}

ASSUME ServiceAssumption ==
    /\ Unset \notin Allowed
    /\ \A l \in Labels : DOMAIN l = {"corpus", "language", "at"} /\ l.at \in Nat
    /\ \A r \in Requests :
          /\ DOMAIN r = {"defects", "corpus", "sources", "language", "from", "to"}
          /\ r.defects \subseteq Defects
          /\ r.sources \subseteq Sources
          /\ r.from \in Nat /\ r.to \in Nat

VARIABLES labels,           \* of each serial: its source and its rows' label
          request,          \* the request
          stage,            \* where run() is
          expired,          \* the deadline has passed
          eligible,         \* the serials stored when the request passed or later
          response          \* the response that was written, or NoResponse

serviceVars == <<labels, request, stage, expired, eligible, response>>
vars == <<retrievalVars, serviceVars>>

NoResponse == [status |-> "none", evidence |-> <<>>]

------------------------------------------------------------------------------
(* The filters.                                                              *)

\* filterFragment: a NULL matches no criterion.  sources are the files with the
\* source prefix.  An instant that is unset, or that parseTime refuses, is 0
\* and no criterion.
Matches(label, source, r) ==
    /\ label.corpus = r.corpus
    /\ source \in r.sources
    /\ r.language # Unset => label.language = r.language
    /\ r.from # 0 => label.at >= r.from
    /\ r.to # 0 => label.at <= r.to

InScope(d) == Matches(labels[d.serial].label, d.source, request)

Scope == {d \in Table : InScope(d)}

------------------------------------------------------------------------------
ServiceInit ==
    /\ Init
    /\ labels = <<>>
    /\ request \in Requests
    /\ stage = "read"
    /\ expired = FALSE
    /\ eligible = 1..MaxIngests
    /\ response = NoResponse

Respond(status, evidence) ==
    /\ response' = [status |-> status, evidence |-> evidence]
    /\ stage' = "end"

Goto(next) == stage' = next /\ UNCHANGED response

\* The checks in the code's order, each with the status it answers with.
Checks == <<[defect |-> "unreadable", status |-> "MALFORMED"],
            [defect |-> "oversize",   status |-> "OVERSIZE"],
            [defect |-> "malformed",  status |-> "MALFORMED"],
            [defect |-> "schema",     status |-> "UNSUPPORTED_SCHEMA"]>>

Refuse ==
    /\ stage = "read"
    /\ \E k \in DOMAIN Checks :
          /\ Checks[k].defect \in request.defects
          /\ \A j \in 1..(k - 1) : Checks[j].defect \notin request.defects
          /\ Respond(Checks[k].status, <<>>)
    /\ UNCHANGED <<retrievalVars, labels, request, expired, eligible>>

\* The serials of the stored documents.
StoredSerials == UNION {{v.serial : v \in stored[s]} : s \in Sources}

\* The allowlist; the deadline's context starts when the request passes.
Authorize ==
    /\ stage = "read"
    /\ request.defects = {}
    /\ IF request.corpus \in Allowed
         THEN Goto("load") /\ eligible' = StoredSerials \cup (ingests + 1)..MaxIngests
         ELSE Respond("UNAUTHORIZED_SCOPE", <<>>) /\ UNCHANGED eligible
    /\ UNCHANGED <<retrievalVars, labels, request, expired>>

\* config.Load and the provider registry, neither of which waits.
Load ==
    /\ stage = "load"
    /\ Goto("connect") \/ Respond("INTERNAL", <<>>) \/ Respond("UNAVAILABLE", <<>>)
    /\ UNCHANGED <<retrievalVars, labels, request, expired, eligible>>

\* Connect, then Embed.
Prepare ==
    /\ stage \in {"connect", "embed"}
    /\ ~expired
    /\ Goto(IF stage = "connect" THEN "embed" ELSE "retrieve")
    /\ UNCHANGED <<retrievalVars, labels, request, expired, eligible>>

\* Faulty variant: nothing is written when the embedding fails.
PrepareFailsMute ==
    /\ stage = "connect"
    /\ Respond("UNAVAILABLE", <<>>)
    /\ UNCHANGED <<retrievalVars, labels, request, expired, eligible>>

PrepareFails ==
    /\ stage \in {"connect", "embed"}
    /\ Respond("UNAVAILABLE", <<>>)
    /\ UNCHANGED <<retrievalVars, labels, request, expired, eligible>>

\* Faulty variant: the second search, the keyword search, is not filtered.
SearchStepKeywordUnfiltered ==
    /\ stage = "retrieve"
    /\ ~expired
    /\ SearchOver(IF rankings = <<>> THEN Scope ELSE Table)
    /\ UNCHANGED serviceVars

\* The two searches over the rows in scope.
SearchStep ==
    /\ stage = "retrieve"
    /\ ~expired
    /\ SearchOver(Scope)
    /\ UNCHANGED serviceVars

\* The expansion, and the response: the fused rows, or the expanded ones when
\* there is none, which then are none either.
ExpandAndAnswer ==
    /\ stage = "retrieve"
    /\ fused = <<>> \/ ~expired
    /\ ExpandOver(Scope)
    /\ Respond(IF fused = <<>> THEN "EMPTY" ELSE "OK", fused)
    /\ UNCHANGED <<labels, request, expired, eligible>>

RetrievalFails ==
    /\ stage = "retrieve"
    /\ StatementFails
    /\ UNCHANGED serviceVars

\* ctx.Err() is read after the failure: it tells about now, not about then.
Classify ==
    /\ stage = "retrieve"
    /\ step = "failed"
    /\ Respond(IF expired THEN "TIMEOUT" ELSE "INTERNAL", <<>>)
    /\ UNCHANGED <<retrievalVars, labels, request, expired, eligible>>

\* deadline_ms or 30 seconds after the request passed.  A deadline_ms that
\* overflows the duration may pass at once.
Deadline ==
    /\ stage \notin {"read", "end"}
    /\ ~expired
    /\ expired' = TRUE
    /\ UNCHANGED <<retrievalVars, labels, request, stage, eligible, response>>

\* An ingest stores a document under its RAG_CORPUS, language and time.
IngestLabelled(s) ==
    /\ Ingest(s)
    /\ \E l \in Labels : labels' = Append(labels, [source |-> s, label |-> l])
    /\ UNCHANGED <<request, stage, expired, eligible, response>>

Ended == stage = "end" /\ UNCHANGED vars

Serve ==
    \/ Refuse \/ Authorize \/ Load \/ Prepare \/ PrepareFails
    \/ SearchStep \/ ExpandAndAnswer \/ RetrievalFails \/ Classify

Next == Serve \/ Deadline \/ (\E s \in Sources : IngestLabelled(s)) \/ Ended

Spec == ServiceInit /\ [][Next]_vars

(* stdin ends, the command's own computations take place, its timer fires,   *)
(* and a call whose context is done returns an error.  Nothing obliges the   *)
(* model server or the database to answer.                                   *)
Computes ==
    \/ Refuse \/ Authorize \/ Load \/ Classify
    \/ fused = <<>> /\ ExpandAndAnswer

DoneCallReturns == expired /\ (PrepareFails \/ RetrievalFails)

FairSpec ==
    /\ Spec
    /\ WF_vars(Computes) /\ WF_vars(Deadline) /\ WF_vars(DoneCallReturns)

------------------------------------------------------------------------------
(* Properties.                                                               *)

Statuses == {"none", "OK", "EMPTY", "TIMEOUT", "INTERNAL", "UNAVAILABLE",
             "UNAUTHORIZED_SCOPE", "MALFORMED", "OVERSIZE", "UNSUPPORTED_SCHEMA"}

\* The variables keep their types; there is a label for every serial.
ServiceTypeOK ==
    /\ RetrievalTypeOK
    /\ labels \in Seq([source : Sources, label : Labels]) /\ Len(labels) = ingests
    /\ request \in Requests
    /\ stage \in {"read", "load", "connect", "embed", "retrieve", "end"}
    /\ expired \in BOOLEAN
    /\ eligible \subseteq 1..MaxIngests
    /\ response \in [status : Statuses, evidence : Seq(Rows)]
    /\ stage = "end" <=> response.status # "none"

\* "rows with a NULL/legacy corpus are never returned" (main.go:11-12): every
\* row of a response belongs to the corpus that was asked for, which the caller
\* may read, and satisfies the other filters; and it was stored at some moment
\* of the request, whatever replaced its file or moved it to another corpus
\* between the statements.
EvidenceInScope ==
    \A k \in DOMAIN response.evidence :
        LET d == response.evidence[k]
        IN  /\ request.corpus \in Allowed
            /\ InScope(d)
            /\ d.serial \in eligible

\* The expansion under a filter returns rows in scope only, and for every
\* fused section that still has one at least one, although cmd/retrieval's
\* limit of 0 divides to nothing.
ExpansionCoversScope ==
    [][step = "expand" /\ step' = "done" =>
          /\ expanded' \subseteq Scope
          /\ \A p \in SectionKeys(fused) :
                (\E d \in Scope : PairOf(d) = p)
                => \E d \in expanded' : PairOf(d) = p]_vars

\* The caller of a request always gets a response, whatever hangs.
RequestAnswered == <>(response # NoResponse)
==============================================================================
