-------------------------- MODULE BilingualExperiment --------------------------
(***************************************************************************)
(* cmd/expbilingual: the retrieval arms of the experiment, run one after    *)
(* the other over the cases of a dataset, with generated queries that are   *)
(* cached in a file from one run to the next.  The dataset may be edited    *)
(* and the chat model changed between two runs, a run may fail or be        *)
(* interrupted at any call, and the cache file is written only after the    *)
(* last case, not atomically, its write error ignored.  The file a run      *)
(* finds first may be another program's and record no model.                *)
(*                                                                          *)
(* A generated query is what it was asked for (question, variant, model)    *)
(* and a number: the model may answer the same prompt differently, or with  *)
(* nothing.  Retrieval returns any of a set of hits for it: the ranking of  *)
(* its vector search and that of its keyword search.  The steps of one case *)
(* that only read are taken together; the printed lines and the recall of   *)
(* evidence, which follows the expansion, are left out.                     *)
(***************************************************************************)
EXTENDS Fusion, SequencesExt

CONSTANTS Configurations,   \* the runs: arms, repeats, dataset and chat model
          Hits,             \* what HybridRetrieve may find for a query
          Takes,            \* the answers to one prompt, besides a blank one
          NoModel,          \* not a chat model: the empty string
          Legacy,           \* cache files that record no model
          MaxRuns           \* bound: runs of the command

Arms == {"A", "B", "C", "D1", "D2", "E"}

Variants == {"exp", "vi", "en"}

Blank == 0

\* The rows the searches may find.
Rows == UNION {Range(h.vector) \cup Range(h.keyword) : h \in Hits}

\* The ids of a dataset's cases differ, and the ids of two rows.  A cache file
\* of no model holds what the fields say, for a model nobody knows.
ASSUME BilingualAssumption ==
    /\ \A c \in Configurations :
         /\ c.arms \in Seq(Arms) \ {<<>>} /\ c.repeats \in Nat \ {0}
         /\ c.cases \in Seq(Range(c.cases)) \ {<<>>} /\ c.model # NoModel
         /\ \A i, j \in DOMAIN c.cases :
              c.cases[i].id = c.cases[j].id => i = j
    /\ \A h \in Hits : h.vector \in Seq(Rows) /\ h.keyword \in Seq(Rows)
    /\ \A d \in Rows : d.serial \in Nat /\ d.index \in Nat
    /\ \A d, e \in Rows : d.serial = e.serial /\ d.index = e.index => d = e
    /\ Takes \subseteq Nat \ {Blank}
    /\ \A f \in Legacy :
         /\ f = [model |-> NoModel, entries |-> f.entries]
         /\ \A k \in DOMAIN f.entries : \A v \in DOMAIN f.entries[k].variants :
              LET text == f.entries[k].variants[v]
              IN  /\ text.question = f.entries[k].question
                  /\ text.variant = v
                  /\ text.model = NoModel
    /\ MaxRuns \in Nat

VARIABLES file,             \* the content of the cache file
          runs,             \* runs started
          conf,             \* the run's settings and dataset
          pc,               \* "idle", "original", a variant, "measure", "next", "save"
          cache,            \* the run's cache
          arm, rep, case,   \* the places of the three loops
          original,         \* what the question of this case found
          queries,          \* the queries of this case
          result,           \* the lists of this case
          used              \* history: the queries loaded or used in this run

loops == <<arm, rep, case>>
work == <<original, queries, result>>
bilingualVars == <<file, runs, conf, pc, cache, loops, work, used>>

Arm  == conf.arms[arm]
Case == conf.cases[case]

NoHit == [vector |-> <<>>, keyword |-> <<>>]

Empty == [k \in {} |-> Blank]

NoResult == [arm |-> "none", guardOK |-> TRUE, all |-> <<>>, fused |-> <<>>]

\* f with x under k.
With(f, k, x) == [i \in DOMAIN f \cup {k} |-> IF i = k THEN x ELSE f[i]]

------------------------------------------------------------------------------
(* The cache of generated queries.                                           *)

Fresh(model) == [model |-> model, entries |-> Empty]

\* A missing, unreadable or truncated file.
Unreadable == Fresh(NoModel)

\* Only a file that records another model is refused.
loadCache(model) ==
    IF file = Unreadable \/ file.model \notin {NoModel, model}
      THEN Fresh(model)
      ELSE file

TextsOf(c) ==
    UNION {{[id |-> id, text |-> c.entries[id].variants[v]] :
              v \in DOMAIN c.entries[id].variants} : id \in DOMAIN c.entries}

Entry == cache.entries[Case.id]

HasEntry == Case.id \in DOMAIN cache.entries /\ Entry.question = Case.question

\* Faulty variant: the entry of the case serves whatever its question was.
CachedByIdOnly(v) ==
    /\ Case.id \in DOMAIN cache.entries
    /\ v \in DOMAIN Entry.variants
    /\ Entry.variants[v].take # Blank

\* A blank query is as if it were not there.
Cached(v) ==
    /\ HasEntry
    /\ v \in DOMAIN Entry.variants
    /\ Entry.variants[v].take # Blank

\* Faulty variant: a new query always starts a new entry.
StoreAlone(v, text) ==
    [cache EXCEPT !.entries = With(@, Case.id,
        [question |-> Case.question, variants |-> With(Empty, v, text)])]

\* The entry is replaced when it is for another question.
Store(v, text) ==
    LET others == IF HasEntry THEN Entry.variants ELSE Empty
    IN  [cache EXCEPT !.entries = With(@, Case.id,
            [question |-> Case.question, variants |-> With(others, v, text)])]

------------------------------------------------------------------------------
(* The lists of an arm.                                                      *)

Both(hit) == <<hit.vector, hit.keyword>>

\* The hits whose rankings are fused.
Rankings(hits) ==
    CASE Arm = "A" -> <<original>>
      [] Arm = "B" -> <<original, hits["exp"]>>
      [] OTHER     -> <<original, hits["vi"], hits["en"], hits["exp"]>>

\* Their rankings, one hit after the other.
Lists(hits) ==
    [k \in 1..(2 * Len(hits)) |-> Both(hits[(k + 1) \div 2])[2 - (k % 2)]]

Fused(hits) == DeduplicateSections(FuseRankings(Lists(hits), 1000))

\* The same as a table, for the hits of one, two and four queries.
fusions ==
    {[of |-> hits, list |-> Fused(hits)] :
        hits \in UNION {[1..n -> Hits] : n \in {1, 2, 4}}}

fusedAll(hits) == (CHOOSE f \in fusions : f.of = hits).list

Clear(hit) == hit.vector # <<>>

GuardOK(hits) ==
    CASE Arm \in {"D1", "D2"} -> Clear(original)
      [] Arm = "E" -> \/ Clear(original) /\ (Clear(hits["vi"]) \/ Clear(hits["en"]))
                      \/ Clear(hits["vi"]) /\ Clear(hits["en"])
      [] OTHER -> TRUE

Rejected == Case.expected = {}

\* The documents of the other sections, in order.
Elsewhere(docs, d) ==
    AtPositions(docs, {k \in DOMAIN docs : PairOf(docs[k]) # PairOf(d)})

FirstOf(docs, n) == SubSeq(docs, 1, IF Len(docs) < n THEN Len(docs) ELSE n)

\* Faulty variant: the pinned section is not skipped further down.
baselineFirstTwice(lists, all) ==
    LET top == DeduplicateSections(FuseRankings(lists, 1))
    IN  IF top = <<>> THEN all ELSE FirstOf(top \o all, 4)

\* The top section of the original query, then the others' order, up to 4.
baselineFirst(lists, all) ==
    LET top == DeduplicateSections(FuseRankings(lists, 1))
    IN  IF top = <<>> THEN all
        ELSE FirstOf(top \o Elsewhere(all, top[1]), 4)

Measured(hits) ==
    LET all == fusedAll(Rankings(hits))
        ok == GuardOK(hits)
        kept == IF Arm # "D2" THEN all
                ELSE IF ok THEN baselineFirst(Both(original), all) ELSE <<>>
    IN  [arm |-> Arm, guardOK |-> ok, all |-> all,
         fused |-> IF Rejected /\ ~ok THEN <<>> ELSE kept]

------------------------------------------------------------------------------
BilingualInit ==
    /\ file \in {Unreadable} \cup Legacy
    /\ runs = 0
    /\ conf \in Configurations
    /\ pc = "idle"
    /\ cache = Fresh(conf.model)
    /\ arm = 1 /\ rep = 1 /\ case = 1
    /\ original = NoHit /\ queries = Empty /\ result = NoResult
    /\ used = {}

StartRun ==
    /\ pc = "idle" /\ runs < MaxRuns
    /\ runs' = runs + 1
    /\ conf' \in Configurations
    /\ cache' = loadCache(conf'.model)
    /\ used' = TextsOf(cache')
    /\ arm' = 1 /\ rep' = 1 /\ case' = 1
    /\ pc' = "original"
    /\ UNCHANGED <<file, work>>

SearchOriginal ==
    /\ pc = "original"
    /\ \E hit \in Hits : original' = hit
    /\ pc' = IF Arm = "A" THEN "measure" ELSE "exp"
    /\ UNCHANGED <<file, runs, conf, cache, loops, queries, result, used>>

AfterVariant(v) ==
    CASE v = "exp" -> "vi" [] v = "vi" -> "en" [] OTHER -> "measure"

Use(v, text) ==
    /\ queries' = With(queries, v, text)
    /\ used' = used \cup {[id |-> Case.id, text |-> text]}
    /\ pc' = AfterVariant(v)
    /\ UNCHANGED <<file, runs, conf, loops, original, result>>

generateFromCache(v) ==
    /\ pc = v /\ Cached(v)
    /\ Use(v, Entry.variants[v])
    /\ UNCHANGED cache

generateFromModel(v) ==
    /\ pc = v /\ ~Cached(v)
    /\ \E take \in Takes \cup {Blank} :
         LET text == [question |-> Case.question, variant |-> v,
                      model |-> conf.model, take |-> take]
         IN  Use(v, text) /\ cache' = Store(v, text)

\* The searches of the generated queries, then the lists; arm A has none.
Measure ==
    /\ pc = "measure"
    /\ \E hits \in IF Arm = "A" THEN {[v \in Variants |-> NoHit]}
                   ELSE [Variants -> Hits] :
         result' = Measured(hits)
    /\ pc' = "next"
    /\ UNCHANGED <<file, runs, conf, cache, loops, original, queries, used>>

\* The three loops: arms, repeats, cases.
NextCase ==
    /\ pc = "next"
    /\ \/ /\ case < Len(conf.cases)
          /\ case' = case + 1 /\ UNCHANGED <<arm, rep>> /\ pc' = "original"
       \/ /\ case = Len(conf.cases) /\ rep < conf.repeats
          /\ case' = 1 /\ rep' = rep + 1 /\ UNCHANGED arm /\ pc' = "original"
       \/ /\ case = Len(conf.cases) /\ rep = conf.repeats /\ arm < Len(conf.arms)
          /\ case' = 1 /\ rep' = 1 /\ arm' = arm + 1 /\ pc' = "original"
       \/ /\ case = Len(conf.cases) /\ rep = conf.repeats /\ arm = Len(conf.arms)
          /\ UNCHANGED loops /\ pc' = "save"
    /\ original' = NoHit /\ queries' = Empty /\ result' = NoResult
    /\ UNCHANGED <<file, runs, conf, cache, used>>

\* The file is written, left as it was, or cut short; no error is reported.
\* Whatever the cache was loaded from, it is this run's model it records now.
saveCache ==
    /\ pc = "save"
    /\ cache' = [cache EXCEPT !.model = conf.model]
    /\ file' \in {cache', file, Unreadable}
    /\ pc' = "idle"
    /\ UNCHANGED <<runs, conf, loops, work, used>>

\* A call fails or the process is interrupted: nothing is saved.
RunFails ==
    /\ pc \notin {"idle", "save"}
    /\ pc' = "idle"
    /\ original' = NoHit /\ queries' = Empty /\ result' = NoResult
    /\ UNCHANGED <<file, runs, conf, cache, loops, used>>

BilingualNext ==
    \/ StartRun \/ SearchOriginal \/ Measure \/ NextCase \/ saveCache \/ RunFails
    \/ \E v \in Variants : generateFromCache(v) \/ generateFromModel(v)

BilingualSpec == BilingualInit /\ [][BilingualNext]_bilingualVars

------------------------------------------------------------------------------
(* Properties.                                                               *)

\* Every query a case is measured with was generated for this case's question
\* and this variant, whatever was in the file: another dataset under the same
\* ids, half a run.  It was generated by this run's model, or comes from a file
\* that recorded none: never by a model some run has recorded, although saving
\* records a model for texts it did not make.
QueriesMatch ==
    \A v \in DOMAIN queries :
        /\ queries[v].question = Case.question
        /\ queries[v].variant = v
        /\ queries[v].model \in {conf.model, NoModel}

\* Arms and repeats are compared on the same queries: once a case has a
\* query that is not blank, loaded or generated, no other one is used for
\* this question and variant until the run ends.
ArmsShareQueries ==
    \A s, t \in used :
        /\ s.id = t.id
        /\ s.text.question = t.text.question /\ s.text.variant = t.text.variant
        /\ s.text.take # Blank /\ t.text.take # Blank
        => s = t

Baseline == fusedAll(<<original>>)

\* D2 keeps what arm A has first in its first place, loses none of the first
\* three sections of the translated ranking and lists no section twice; D1
\* and D2 never list anything for a question on which arm A is silent and
\* nothing should be found.
BaselineKept ==
    /\ result.arm = "D2" /\ result.guardOK =>
         /\ PairOf(result.fused[1]) = PairOf(Baseline[1])
         /\ {PairOf(d) : d \in Members(FirstOf(result.all, 3))}
              \subseteq {PairOf(d) : d \in Members(result.fused)}
         /\ \A i, j \in DOMAIN result.fused :
              PairOf(result.fused[i]) = PairOf(result.fused[j]) => i = j
    /\ result.arm \in {"D1", "D2"} /\ Rejected /\ Baseline = <<>> =>
         result.fused = <<>>
==============================================================================
