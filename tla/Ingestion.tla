------------------------------ MODULE Ingestion ------------------------------
(***************************************************************************)
(* cmd/ingest invocations against the documents table: cmd/ingest/main.go   *)
(* run() calling internal/ingestion's CheckEmbeddingDim, IsUpToDate and     *)
(* ReplaceDocumentWithProvenance.  Each process is one shell that may run   *)
(* the command again and again on its file; several processes may work on   *)
(* the same file; the file may be edited.                                   *)
(*                                                                          *)
(* The table is PostgreSQL at its default READ COMMITTED level, seen from   *)
(* how the code uses it: a statement works on the rows committed when it    *)
(* starts, waits for the row locks of other transactions, and a transaction *)
(* that is not committed leaves nothing behind, whether the client returned *)
(* an error, lost its context or died.                                      *)
(*                                                                          *)
(* A version stands for the file's bytes and determines its chunks; an edit *)
(* always yields new bytes.  A key stands for what the fingerprint check    *)
(* compares besides the bytes: CHUNK_SIZE/CHUNK_OVERLAP and EMBED_MODEL.    *)
(***************************************************************************)
EXTENDS Naturals

CONSTANTS Procs,            \* shells running cmd/ingest
          Sources,          \* canonical source names
          SourceOf,         \* the source each shell ingests
          Keys,             \* chunker configuration and embedding model
          MaxVersion,       \* bound: the versions a file goes through
          Size,             \* Size[v]: the number of chunks of version v
          BatchSize,        \* rows of one INSERT (chunksPerBatch)
          MaxRuns,          \* bound: invocations started altogether
          EditWhileRunning  \* whether a file is edited during an invocation

Versions == 1..MaxVersion

ASSUME IngestionAssumption ==
    /\ SourceOf \in [Procs -> Sources]
    /\ Keys # {}
    /\ MaxRuns \in Nat
    /\ MaxVersion \in Nat \ {0}
    /\ Size \in [Versions -> Nat]
    /\ BatchSize \in Nat \ {0}
    /\ EditWhileRunning \in BOOLEAN

VARIABLES file,             \* [Sources -> Versions]: the files' contents
          rows,             \* the committed rows of the documents table
          runs,             \* invocations started
          pc,               \* where each shell's invocation stands
          run,              \* its number
          key,              \* its configuration
          loaded,           \* the version loadChunks read
          hashed,           \* the version contentFingerprint covers
          ctxDone,          \* its request deadline has passed
          vectors,          \* the chunks that have a vector after embedAll
          targets,          \* the rows its DELETE found
          deleted,          \* the rows its transaction deleted
          inserted,         \* the rows its transaction inserted
          sent,             \* how many of its chunks the INSERTs have covered
          result            \* how its last invocation ended

client == <<run, key, loaded, hashed, vectors>>
tx == <<targets, deleted, inserted, sent>>
vars == <<file, rows, runs, pc, client, ctxDone, tx, result>>

------------------------------------------------------------------------------
\* Faulty variant: the DELETE is executed with context.Background().
WaitingWithoutDelete == {"connect", "check", "embed", "begin", "delete",
                         "insert", "committing"}

\* Places where a call waits on the database or the provider with ctx.
Waiting == {"connect", "check", "embed", "begin", "delete", "deleting",
            "insert", "committing"}
Active == {"load", "fingerprint"} \cup Waiting

Chunks(v) == 1..Size[v]

\* The row insertChunks writes for chunk i of invocation r: the content that
\* was loaded, under the fingerprint that was computed.
Row(s, r, i, v, h, k, e) ==
    [source |-> s, run |-> r, index |-> i, version |-> v, hash |-> h,
     key |-> k, embedded |-> e]

RowsOf(p, I) ==
    {Row(SourceOf[p], run[p], i, loaded[p], hashed[p], key[p], i \in vectors[p])
        : i \in I}

StoredFor(s) == {x \in rows : x.source = s}

\* Rows another open transaction has deleted: their locks are held until it ends.
LockedBy(q) == IF pc[q] \in {"insert", "committing"} THEN deleted[q] ELSE {}

\* Faulty variant: only the content hash is compared.
UpToDateHashOnly(p) ==
    /\ StoredFor(SourceOf[p]) # {}
    /\ \A x \in StoredFor(SourceOf[p]) : x.hash = hashed[p]

\* IsUpToDate: at least one stored row, and every one carries this hash,
\* chunker configuration and model.  (cmd/ingest pins no dimension.)
UpToDate(p) ==
    /\ StoredFor(SourceOf[p]) # {}
    /\ \A x \in StoredFor(SourceOf[p]) : x.hash = hashed[p] /\ x.key = key[p]

TxClosed(p) ==
    /\ targets' = [targets EXCEPT ![p] = {}]
    /\ deleted' = [deleted EXCEPT ![p] = {}]
    /\ inserted' = [inserted EXCEPT ![p] = {}]
    /\ sent' = [sent EXCEPT ![p] = 0]

Goto(p, where) == pc' = [pc EXCEPT ![p] = where]

End(p, how) ==
    /\ Goto(p, "off")
    /\ result' = [result EXCEPT ![p] = how]

Init ==
    /\ file = [s \in Sources |-> 1]
    /\ rows = {}
    /\ runs = 0
    /\ pc = [p \in Procs |-> "off"]
    /\ run = [p \in Procs |-> 0]
    /\ key = [p \in Procs |-> CHOOSE k \in Keys : TRUE]
    /\ loaded = [p \in Procs |-> 1]
    /\ hashed = [p \in Procs |-> 1]
    /\ ctxDone = [p \in Procs |-> FALSE]
    /\ vectors = [p \in Procs |-> {}]
    /\ targets = [p \in Procs |-> {}]
    /\ deleted = [p \in Procs |-> {}]
    /\ inserted = [p \in Procs |-> {}]
    /\ sent = [p \in Procs |-> 0]
    /\ result = [p \in Procs |-> "none"]

------------------------------------------------------------------------------
(* The environment.                                                          *)

\* Someone saves a new version of the file.
Edit(s) ==
    /\ file[s] + 1 \in Versions
    /\ EditWhileRunning \/ \A p \in Procs : SourceOf[p] = s => pc[p] = "off"
    /\ file' = [file EXCEPT ![s] = @ + 1]
    /\ UNCHANGED <<rows, runs, pc, client, ctxDone, tx, result>>

\* REQUEST_TIMEOUT elapses.
Deadline(p) ==
    /\ pc[p] \in Active
    /\ ~ctxDone[p]
    /\ ctxDone' = [ctxDone EXCEPT ![p] = TRUE]
    /\ UNCHANGED <<file, rows, runs, pc, client, tx, result>>

------------------------------------------------------------------------------
(* cmd/ingest run().                                                         *)

\* A shell starts the command with some configuration; the deadline starts.
Start(p) ==
    /\ pc[p] = "off"
    /\ runs < MaxRuns
    /\ runs' = runs + 1
    /\ Goto(p, "load")
    /\ run' = [run EXCEPT ![p] = runs + 1]
    /\ \E k \in Keys : key' = [key EXCEPT ![p] = k]
    /\ ctxDone' = [ctxDone EXCEPT ![p] = FALSE]
    /\ vectors' = [vectors EXCEPT ![p] = {}]
    /\ result' = [result EXCEPT ![p] = "none"]
    /\ UNCHANGED <<file, rows, loaded, hashed, tx>>

\* loadChunks reads the file; a file without chunks is an error.
Load(p) ==
    /\ pc[p] = "load"
    /\ loaded' = [loaded EXCEPT ![p] = file[SourceOf[p]]]
    /\ IF Size[file[SourceOf[p]]] = 0
         THEN End(p, "failed")
         ELSE Goto(p, "connect") /\ UNCHANGED result
    /\ UNCHANGED <<file, rows, runs, run, key, hashed, vectors, ctxDone, tx>>

\* Connect and CheckEmbeddingDim.
Connect(p) ==
    /\ pc[p] = "connect"
    /\ ~ctxDone[p]
    /\ Goto(p, "fingerprint")
    /\ UNCHANGED <<file, rows, runs, client, ctxDone, tx, result>>

\* os.ReadFile reads the file a second time, for contentFingerprint.
Fingerprint(p) ==
    /\ pc[p] = "fingerprint"
    /\ hashed' = [hashed EXCEPT ![p] = file[SourceOf[p]]]
    /\ Goto(p, "check")
    /\ UNCHANGED <<file, rows, runs, run, key, loaded, vectors, ctxDone, tx,
                   result>>

\* IsUpToDate, one SELECT.
Check(p) ==
    /\ pc[p] = "check"
    /\ ~ctxDone[p]
    /\ IF UpToDate(p)
         THEN End(p, "skipped")
         ELSE Goto(p, "embed") /\ UNCHANGED result
    /\ UNCHANGED <<file, rows, runs, client, ctxDone, tx>>

\* Faulty variant: a chunk that could not be embedded is left out and the
\* ingest goes on.
EmbedAllBestEffort(p) ==
    /\ pc[p] = "embed"
    /\ \E V \in SUBSET Chunks(loaded[p]) :
          vectors' = [vectors EXCEPT ![p] = V]
    /\ Goto(p, "begin")
    /\ UNCHANGED <<file, rows, runs, run, key, loaded, hashed, ctxDone, tx,
                   result>>

\* embedAll returned without an error: EmbedContract says every chunk has its
\* vector, or the deadline has passed and any of them may be missing.
EmbedAll(p) ==
    /\ pc[p] = "embed"
    /\ \E V \in SUBSET Chunks(loaded[p]) :
          /\ V = Chunks(loaded[p]) \/ ctxDone[p]
          /\ vectors' = [vectors EXCEPT ![p] = V]
    /\ Goto(p, "begin")
    /\ UNCHANGED <<file, rows, runs, run, key, loaded, hashed, ctxDone, tx,
                   result>>

\* conn.Begin(ctx).
Begin(p) ==
    /\ pc[p] = "begin"
    /\ ~ctxDone[p]
    /\ Goto(p, "delete")
    /\ UNCHANGED <<file, rows, runs, client, ctxDone, tx, result>>

\* DELETE FROM documents WHERE source = $1 starts: its snapshot finds the rows
\* committed now.
Delete(p) ==
    /\ pc[p] = "delete"
    /\ ~ctxDone[p]
    /\ targets' = [targets EXCEPT ![p] = StoredFor(SourceOf[p])]
    /\ Goto(p, "deleting")
    /\ UNCHANGED <<file, rows, runs, client, ctxDone, deleted, inserted, sent,
                   result>>

\* Faulty variant: the DELETE runs on the connection, outside the transaction.
DeletedOutsideTx(p) ==
    /\ pc[p] = "deleting"
    /\ \A q \in Procs \ {p} : targets[p] \cap LockedBy(q) = {}
    /\ rows' = rows \ targets[p]
    /\ Goto(p, "insert")
    /\ UNCHANGED <<file, runs, client, ctxDone, tx, result>>

\* It ends when no other transaction holds a lock on a row it found; a row
\* another transaction deleted and committed meanwhile is passed over, and rows
\* committed since the snapshot are not seen.
Deleted(p) ==
    /\ pc[p] = "deleting"
    /\ \A q \in Procs \ {p} : targets[p] \cap LockedBy(q) = {}
    /\ deleted' = [deleted EXCEPT ![p] = targets[p] \cap rows]
    /\ Goto(p, "insert")
    /\ UNCHANGED <<file, rows, runs, client, ctxDone, targets, inserted, sent,
                   result>>

\* Faulty variant: the last batch is not cut at the end of the document.
InsertBatchUncut(p) ==
    LET n == sent[p]
    IN /\ pc[p] = "insert"
       /\ ~ctxDone[p]
       /\ n < Size[loaded[p]]
       /\ inserted' = [inserted EXCEPT ![p] = @ \cup RowsOf(p, (n + 1)..(n + BatchSize))]
       /\ sent' = [sent EXCEPT ![p] = n + BatchSize]
       /\ UNCHANGED <<file, rows, runs, pc, client, ctxDone, targets, deleted,
                      result>>

\* One INSERT of insertChunks: the next BatchSize chunks, in order, the last
\* batch cut at the end of the document.
InsertBatch(p) ==
    LET n == sent[p]
        end == IF n + BatchSize > Size[loaded[p]] THEN Size[loaded[p]]
                                                  ELSE n + BatchSize
    IN /\ pc[p] = "insert"
       /\ ~ctxDone[p]
       /\ n < Size[loaded[p]]
       /\ inserted' = [inserted EXCEPT ![p] = @ \cup RowsOf(p, (n + 1)..end)]
       /\ sent' = [sent EXCEPT ![p] = end]
       /\ UNCHANGED <<file, rows, runs, pc, client, ctxDone, targets, deleted,
                      result>>

\* Every batch is in: COMMIT is sent.
Commit(p) ==
    /\ pc[p] = "insert"
    /\ ~ctxDone[p]
    /\ sent[p] = Size[loaded[p]]
    /\ Goto(p, "committing")
    /\ UNCHANGED <<file, rows, runs, client, ctxDone, tx, result>>

\* The server commits; the client hears of it, or loses the answer to its
\* deadline, its connection or its death and reports an error.
Committed(p) ==
    /\ pc[p] = "committing"
    /\ rows' = (rows \ deleted[p]) \cup inserted[p]
    /\ TxClosed(p)
    /\ \E how \in {"ingested", "failed"} : End(p, how)
    /\ UNCHANGED <<file, runs, client, ctxDone>>

\* A call fails or the process is killed: run() returns an error, the deferred
\* Rollback or the closed connection ends the transaction.
Abort(p) ==
    /\ pc[p] \in Active
    /\ End(p, "failed")
    /\ TxClosed(p)
    /\ UNCHANGED <<file, rows, runs, client, ctxDone>>

\* The context reaches a call that waits: it returns ctx.Err().
AbortOnDeadline(p) == ctxDone[p] /\ pc[p] \in Waiting /\ Abort(p)

------------------------------------------------------------------------------
Step(p) ==
    \/ Start(p) \/ Load(p) \/ Connect(p) \/ Fingerprint(p) \/ Check(p)
    \/ EmbedAll(p) \/ Begin(p) \/ Delete(p) \/ Deleted(p) \/ InsertBatch(p)
    \/ Commit(p) \/ Committed(p) \/ Abort(p)

Next ==
    \/ \E s \in Sources : Edit(s)
    \/ \E p \in Procs : Deadline(p) \/ Step(p)

Spec == Init /\ [][Next]_vars

(* The two reads of a local file return; the timer fires; a call whose       *)
(* context is done returns.  Nothing obliges the provider, the network, the  *)
(* database or the holder of a row lock to make progress.                    *)
FairSpec ==
    /\ Spec
    /\ \A p \in Procs :
          /\ WF_vars(Load(p) \/ Fingerprint(p))
          /\ WF_vars(Deadline(p))
          /\ WF_vars(AbortOnDeadline(p))

------------------------------------------------------------------------------
(* Properties.                                                               *)

AllRows == [source : Sources, run : 1..MaxRuns, index : Nat, version : Versions,
            hash : Versions, key : Keys, embedded : BOOLEAN]

\* The variables keep their types, and the INSERTs never write past the end of
\* the document (insertChunks' batches).
TypeOK ==
    /\ file \in [Sources -> Versions]
    /\ rows \subseteq AllRows
    /\ runs \in 0..MaxRuns
    /\ pc \in [Procs -> Active \cup {"off"}]
    /\ run \in [Procs -> 0..MaxRuns]
    /\ key \in [Procs -> Keys]
    /\ loaded \in [Procs -> Versions]
    /\ hashed \in [Procs -> Versions]
    /\ ctxDone \in [Procs -> BOOLEAN]
    /\ vectors \in [Procs -> SUBSET Nat]
    /\ targets \in [Procs -> SUBSET AllRows]
    /\ deleted \in [Procs -> SUBSET AllRows]
    /\ inserted \in [Procs -> SUBSET AllRows]
    /\ sent \in [Procs -> Nat]
    /\ \A p \in Procs : sent[p] <= Size[loaded[p]]
    /\ result \in [Procs -> {"none", "ingested", "skipped", "failed"}]

RowsOfRun(r) == {x \in rows : x.run = r}

\* A whole document: the rows one invocation r wrote for version v of source s
\* under fingerprint h and key k, every one with its vector.
Document(s, r, v, h, k) == {Row(s, r, i, v, h, k, TRUE) : i \in Chunks(v)}

\* Whatever is stored was stored whole: each invocation's rows are all there or
\* all gone, in one version, with one fingerprint and with a vector each.  It
\* survives concurrent invocations, edits, deadlines, lost commits and kills
\* (the transaction and the failed Begin that stops a partly embedded document).
WholeDocuments ==
    \A x \in rows : RowsOfRun(x.run) = Document(x.source, x.run, x.version, x.hash, x.key)

\* What success means: when an invocation ends as ingested or skipped and its
\* file is still the one it read, the table holds exactly that file's chunks,
\* embedded with the invocation's own configuration.
HoldsCurrent(p) ==
    LET s == SourceOf[p] IN
    /\ StoredFor(s) # {}
    /\ {x.index : x \in StoredFor(s)} = Chunks(file[s])
    /\ \A x, y \in StoredFor(s) : x.index = y.index => x = y
    /\ \A x \in StoredFor(s) : x.version = file[s] /\ x.key = key[p]

SuccessMeansCurrent ==
    [][\A p \in Procs :
          /\ pc[p] # "off" /\ result'[p] \in {"ingested", "skipped"}
          /\ loaded[p] = file[SourceOf[p]]
          => HoldsCurrent(p)']_vars

\* With one invocation at a time per source the table implements DocumentStore:
\* readers see one whole document per source or none, replaced in one step, and
\* an invocation never touches another source's rows.
WholeDocument(s, d) ==
    \E x \in d : x.source = s /\ d = Document(s, x.run, x.version, x.hash, x.key)

Store == INSTANCE DocumentStore
    WITH stored <- [s \in Sources |-> StoredFor(s)], Whole <- WholeDocument
ImplementsStore == Store!Spec

\* Every invocation ends, even while the provider hangs or another transaction
\* keeps the rows it wants to delete locked.
InvocationsEnd == \A p \in Procs : pc[p] # "off" ~> pc[p] = "off"

\* "Re-running replaces that file's stored chunks, so the store never
\* accumulates duplicates" (docs/guides/usage.md:60-61).
NoDuplicates ==
    \A x, y \in rows : x.source = y.source /\ x.index = y.index => x = y

\* "re-running a changed file replaces that file's stored chunks"
\* (cmd/ingest/main.go:2-3): after an invocation that read the file as it is
\* succeeded, no stored chunk comes from an earlier content of the file.
ChangedFileReplaced ==
    [][\A p \in Procs :
          /\ pc[p] # "off" /\ result'[p] \in {"ingested", "skipped"}
          /\ loaded[p] = file[SourceOf[p]]
          => \A x \in StoredFor(SourceOf[p])' : x.version = loaded[p]]_vars
==============================================================================
