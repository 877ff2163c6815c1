----------------------- MODULE BudgetAndBilingualProofs -----------------------
(***************************************************************************)
(* Proofs about two modules that share nothing: BilingualExperiment, then   *)
(* ContextBudget.                                                           *)
(*                                                                          *)
(* What the query cache of the experiment guarantees and what D1 and D2     *)
(* list, for any runs, answers, hits and number of runs: a query is used    *)
(* for what it was generated for only, one run uses one query for a case's  *)
(* question and variant, and D2 keeps arm A's first section.                *)
(*                                                                          *)
(* What Build returns is maximal and fair, for any sections, lengths,       *)
(* number of documents and budget.  Neither fact is inductive.  Both need   *)
(* what the grouping loop built (each section's chunks in rank order, the   *)
(* sections by their best chunk) and what holds between two offers: every   *)
(* chunk already offered is taken or costs more than what is left now,      *)
(* which is no more than what was left when it was offered.                 *)
(***************************************************************************)
EXTENDS ContextBudget, BilingualExperiment, FusionProofs

------------------------------------------------------------------------------
(* BilingualExperiment.                                                      *)

------------------------------------------------------------------------------
(* The inductive invariant.                                                  *)

\* A text kept under a variant was generated for that variant and the question
\* of its entry, by this model or by one that was never recorded.
Made(c, model) ==
    /\ c = [model |-> c.model, entries |-> c.entries]
    /\ \A k \in DOMAIN c.entries : \A v \in DOMAIN c.entries[k].variants :
          LET text == c.entries[k].variants[v]
          IN  /\ text.question = c.entries[k].question
              /\ text.variant = v
              /\ text.model \in {model, NoModel}

\* The loop is at a case of this run; between two cases it holds no query.
AtCase ==
    /\ conf \in Configurations
    /\ pc \in {"idle", "original", "measure", "next", "save"} \cup Variants
    /\ case \in DOMAIN conf.cases
    /\ pc \in {"idle", "original", "save"} => queries = Empty

\* Text t is the one kept for this id.
KeptFor(k, t) ==
    /\ k \in DOMAIN cache.entries
    /\ cache.entries[k].question = t.question
    /\ t.variant \in DOMAIN cache.entries[k].variants
    /\ cache.entries[k].variants[t.variant] = t

\* A query that is not blank, of a case of this run, is the one kept for it.
UsedKept ==
    \A s \in used :
        /\ s = [id |-> s.id, text |-> s.text]
        /\ \A i \in DOMAIN conf.cases :
              /\ s.text.take # Blank
              /\ conf.cases[i].id = s.id
              /\ conf.cases[i].question = s.text.question
              => KeptFor(s.id, s.text)

CacheInv ==
    /\ Made(file, file.model) /\ Made(cache, conf.model)
    /\ AtCase
    /\ QueriesMatch /\ UsedKept /\ ArmsShareQueries

------------------------------------------------------------------------------
(* The cache.                                                                *)

\* A cache without entries is made by any model.
LEMMA FreshMade == ASSUME NEW model, NEW maker PROVE Made(Fresh(model), maker)
  BY DEF Made, Fresh, Empty

\* So is, as far as anybody knows, a file that records no model.
LEMMA LegacyMade == ASSUME NEW f \in Legacy, NEW maker PROVE Made(f, maker)
  BY BilingualAssumption DEF Made

\* The ids of a run's cases differ, and its cases are numbered from 1.
LEMMA CasesOf ==
    ASSUME NEW c \in Configurations
    PROVE  /\ DOMAIN c.cases = 1..Len(c.cases) /\ Len(c.cases) \in Nat \ {0}
           /\ \A i, j \in DOMAIN c.cases :
                c.cases[i].id = c.cases[j].id => i = j
  <1>1. c.cases \in Seq(Range(c.cases)) /\ c.cases # <<>>
    BY BilingualAssumption
  <1>2. DOMAIN c.cases = 1..Len(c.cases) /\ Len(c.cases) \in Nat
    BY <1>1
  <1>3. Len(c.cases) # 0
    BY <1>1
  <1>4. \A i, j \in DOMAIN c.cases : c.cases[i].id = c.cases[j].id => i = j
    BY BilingualAssumption
  <1> QED BY <1>2, <1>3, <1>4

\* What Store leaves in the cache: the new text under the case's id, with the
\* others of its question, and every other entry.
LEMMA Stored ==
    ASSUME Made(cache, conf.model), NEW v, NEW text
    PROVE  LET c == Store(v, text)
               others == IF HasEntry THEN Entry.variants ELSE Empty
           IN  /\ c = [model |-> cache.model, entries |-> c.entries]
               /\ DOMAIN c.entries = DOMAIN cache.entries \cup {Case.id}
               /\ \A k \in DOMAIN cache.entries :
                    k # Case.id => c.entries[k] = cache.entries[k]
               /\ c.entries[Case.id].question = Case.question
               /\ DOMAIN c.entries[Case.id].variants = DOMAIN others \cup {v}
               /\ c.entries[Case.id].variants[v] = text
               /\ \A w \in DOMAIN others : w # v =>
                    c.entries[Case.id].variants[w] = others[w]
  <1> DEFINE others  == IF HasEntry THEN Entry.variants ELSE Empty
             entry   == [question |-> Case.question,
                         variants |-> With(others, v, text)]
             entries == With(cache.entries, Case.id, entry)
  <1>1. Store(v, text) = [model |-> cache.model, entries |-> entries]
    BY DEF Store, Made
  <1>2. /\ DOMAIN entry.variants = DOMAIN others \cup {v}
        /\ entry.variants[v] = text
        /\ \A w \in DOMAIN others : w # v => entry.variants[w] = others[w]
    BY DEF With
  <1> HIDE DEF entry
  <1>3. /\ DOMAIN entries = DOMAIN cache.entries \cup {Case.id}
        /\ \A k \in DOMAIN cache.entries :
              k # Case.id => entries[k] = cache.entries[k]
        /\ entries[Case.id] = entry
    BY DEF With
  <1>4. entry.question = Case.question
    BY DEF entry
  <1> QED BY <1>1, <1>2, <1>3, <1>4

\* A stored text that was made for the case keeps the cache made.
LEMMA StoredMade ==
    ASSUME Made(cache, conf.model), NEW v, NEW text,
           text.question = Case.question, text.variant = v,
           text.model = conf.model
    PROVE  Made(Store(v, text), conf.model)
  <1> DEFINE c == Store(v, text)
             others == IF HasEntry THEN Entry.variants ELSE Empty
  <1>1. /\ c = [model |-> cache.model, entries |-> c.entries]
        /\ DOMAIN c.entries = DOMAIN cache.entries \cup {Case.id}
        /\ \A k \in DOMAIN cache.entries :
              k # Case.id => c.entries[k] = cache.entries[k]
        /\ c.entries[Case.id].question = Case.question
        /\ DOMAIN c.entries[Case.id].variants = DOMAIN others \cup {v}
        /\ c.entries[Case.id].variants[v] = text
        /\ \A w \in DOMAIN others : w # v =>
              c.entries[Case.id].variants[w] = others[w]
    BY Stored
  <1>2. \A w \in DOMAIN others :
          /\ others[w].question = Case.question
          /\ others[w].variant = w
          /\ others[w].model \in {conf.model, NoModel}
    BY DEF Made, HasEntry, Entry, Empty
  <1> HIDE DEF c, others
  <1>4. ASSUME NEW k \in DOMAIN c.entries,
               NEW w \in DOMAIN c.entries[k].variants
        PROVE  /\ c.entries[k].variants[w].question = c.entries[k].question
               /\ c.entries[k].variants[w].variant = w
               /\ c.entries[k].variants[w].model \in {conf.model, NoModel}
    <2>1. CASE k = Case.id
      BY <1>1, <1>2, <2>1
    <2>2. CASE k # Case.id
      BY <1>1, <2>2 DEF Made
    <2> QED BY <2>1, <2>2
  <1>5. Made(c, conf.model)
    BY <1>1, <1>4 DEF Made
  <1> QED BY <1>5 DEF c

\* A stored text is kept for its id; so is every other one kept before, unless
\* it is for the same variant or its entry was for another question.
LEMMA StoredKept ==
    ASSUME Made(cache, conf.model), NEW v, NEW text, NEW id, id = Case.id,
           cache' = Store(v, text),
           text.question = Case.question, text.variant = v
    PROVE  /\ KeptFor(id, text)'
           /\ \A k, t : /\ KeptFor(k, t)
                        /\ k = id => HasEntry /\ t.variant # v
                        => KeptFor(k, t)'
  <1> DEFINE others == IF HasEntry THEN Entry.variants ELSE Empty
  <1>1. /\ DOMAIN cache'.entries = DOMAIN cache.entries \cup {id}
        /\ \A k \in DOMAIN cache.entries :
              k # id => cache'.entries[k] = cache.entries[k]
        /\ cache'.entries[id].question = Case.question
        /\ DOMAIN cache'.entries[id].variants = DOMAIN others \cup {v}
        /\ cache'.entries[id].variants[v] = text
        /\ \A w \in DOMAIN others : w # v =>
              cache'.entries[id].variants[w] = others[w]
    BY Stored
  <1>2. HasEntry => others = cache.entries[id].variants
    BY DEF Entry
  <1>3. HasEntry => cache.entries[id].question = Case.question
    BY DEF HasEntry, Entry
  <1> HIDE DEF others
  <1>4. ASSUME NEW k, NEW t, KeptFor(k, t), k = id => HasEntry /\ t.variant # v
        PROVE  /\ k \in DOMAIN cache'.entries
               /\ cache'.entries[k].question = t.question
               /\ t.variant \in DOMAIN cache'.entries[k].variants
               /\ cache'.entries[k].variants[t.variant] = t
    <2>1. CASE k # id
      BY <1>1, <1>4, <2>1 DEF KeptFor
    <2>2. CASE k = id
      BY <1>1, <1>2, <1>3, <1>4, <2>2 DEF KeptFor
    <2> QED BY <2>1, <2>2
  <1> QED BY <1>1, <1>4 DEF KeptFor

------------------------------------------------------------------------------
(* The steps.                                                                *)

\* Before the first run no query is kept or used.
LEMMA InitInv == BilingualInit => CacheInv
  <1> SUFFICES ASSUME BilingualInit PROVE CacheInv
    OBVIOUS
  <1>1. Made(file, file.model) /\ Made(cache, conf.model)
    BY FreshMade, LegacyMade DEF BilingualInit, Unreadable
  <1>2. AtCase
    <2>1. 1 \in DOMAIN conf.cases
      BY CasesOf DEF BilingualInit
    <2> QED BY <2>1 DEF BilingualInit, AtCase
  <1>3. QueriesMatch /\ UsedKept /\ ArmsShareQueries
    BY DEF BilingualInit, QueriesMatch, UsedKept, ArmsShareQueries, Empty
  <1> QED BY <1>1, <1>2, <1>3 DEF CacheInv

\* A run starts with what the file holds of its model.
LEMMA StartInv == CacheInv /\ StartRun => CacheInv'
  <1> SUFFICES ASSUME CacheInv, StartRun PROVE CacheInv'
    OBVIOUS
  <1>1. Made(file, file.model)' /\ Made(cache, conf.model)'
    <2>1. Made(file, file.model) /\ Made(Fresh(conf'.model), conf'.model)
      BY FreshMade DEF CacheInv
    <2>2. Made(loadCache(conf'.model), conf'.model)
      <3>1. CASE loadCache(conf'.model) = Fresh(conf'.model)
        BY <2>1, <3>1
      <3>2. CASE loadCache(conf'.model) = file /\ file.model \in {NoModel, conf'.model}
        BY <2>1, <3>2 DEF Made
      <3> QED BY <3>1, <3>2 DEF loadCache
    <2>3. file' = file /\ cache' = loadCache(conf'.model)
      BY DEF StartRun
    <2> QED BY <2>1, <2>2, <2>3 DEF Made
  <1>2. AtCase' /\ QueriesMatch'
    <2>1. conf' \in Configurations /\ queries' = Empty /\ pc' = "original"
            /\ case' = 1
      BY DEF StartRun, CacheInv, AtCase, work
    <2>2. 1 \in DOMAIN conf'.cases
      BY <2>1, CasesOf
    <2> QED BY <1>1, <2>1, <2>2 DEF AtCase, QueriesMatch, Empty
  <1>3. \A s \in used' : \E k \in DOMAIN cache'.entries :
          \E v \in DOMAIN cache'.entries[k].variants :
             s.id = k /\ s.text = cache'.entries[k].variants[v]
             /\ s = [id |-> k, text |-> cache'.entries[k].variants[v]]
    BY DEF StartRun, TextsOf
  <1>4. \A s \in used' :
          /\ KeptFor(s.id, s.text)'
          /\ s = [id |-> s.id, text |-> s.text]
    BY <1>1, <1>3 DEF KeptFor, Made
  <1> QED BY <1>1, <1>2, <1>4 DEF CacheInv, UsedKept, ArmsShareQueries, KeptFor

\* A step that changes neither the caches nor the run keeps what is about them.
LEMMA Untouched ==
    ASSUME CacheInv, UNCHANGED <<file, conf, cache, used>>
    PROVE  Made(file, file.model)' /\ Made(cache, conf.model)' /\ UsedKept' /\ ArmsShareQueries'
  BY DEF CacheInv, Made, UsedKept, KeptFor, ArmsShareQueries

\* The steps between the queries.
LEMMA OtherInv ==
    CacheInv /\ (SearchOriginal \/ Measure \/ NextCase \/ RunFails) => CacheInv'
  <1> SUFFICES ASSUME CacheInv, SearchOriginal \/ Measure \/ NextCase \/ RunFails
               PROVE  CacheInv'
    OBVIOUS
  <1>1. UNCHANGED <<file, conf, cache, used>>
    BY DEF SearchOriginal, Measure, NextCase, RunFails, loops
  <1>2. Made(file, file.model)' /\ Made(cache, conf.model)' /\ UsedKept' /\ ArmsShareQueries'
    BY <1>1, Untouched
  <1>3. CASE SearchOriginal \/ Measure
    <2>1. UNCHANGED <<case, queries>> /\ pc' # "idle" /\ pc # "idle"
            /\ pc' \in {"measure", "exp", "next"}
      BY <1>3 DEF SearchOriginal, Measure, loops
    <2>2. AtCase'
      BY <1>1, <2>1 DEF CacheInv, AtCase, Variants
    <2>3. QueriesMatch'
      BY <1>1, <2>1 DEF CacheInv, QueriesMatch, Case
    <2> QED BY <1>2, <2>2, <2>3 DEF CacheInv
  <1>4. CASE NextCase \/ RunFails
    <2>1. queries' = Empty /\ pc' \in {"idle", "original", "save"}
            /\ (pc' # "idle" => pc # "idle")
      BY <1>4 DEF NextCase, RunFails
    <2>2. case' \in DOMAIN conf.cases
      <3>1. DOMAIN conf.cases = 1..Len(conf.cases) /\ Len(conf.cases) \in Nat \ {0}
              /\ case \in DOMAIN conf.cases
        BY CasesOf DEF CacheInv, AtCase
      <3>2. CASE NextCase
        BY <3>1, <3>2 DEF NextCase, loops
      <3>3. CASE RunFails
        BY <3>1, <3>3 DEF RunFails, loops
      <3> QED BY <1>4, <3>2, <3>3
    <2>3. AtCase'
      BY <1>1, <2>1, <2>2 DEF CacheInv, AtCase
    <2>4. QueriesMatch'
      BY <2>1 DEF QueriesMatch, Empty
    <2> QED BY <1>2, <2>3, <2>4 DEF CacheInv
  <1> QED BY <1>3, <1>4

\* What is written is the cache, what was there, or nothing.
LEMMA SaveInv == CacheInv /\ saveCache => CacheInv'
  <1> SUFFICES ASSUME CacheInv, saveCache PROVE CacheInv'
    OBVIOUS
  <1>1. UNCHANGED <<conf, case, queries, used>>
          /\ cache' = [cache EXCEPT !.model = conf.model]
    BY DEF saveCache, loops, work
  <1>a. cache' = [model |-> conf.model, entries |-> cache.entries]
    BY <1>1 DEF CacheInv, Made
  <1>b. Made(cache', conf.model) /\ cache'.entries = cache.entries
    BY <1>a DEF CacheInv, Made
  <1>2. Made(file', file'.model)
    <2>1. CASE file' = cache'
      BY <1>a, <1>b, <2>1
    <2>2. CASE file' \in {file, Unreadable}
      BY <2>2, FreshMade DEF CacheInv, Unreadable
    <2> QED BY <2>1, <2>2 DEF saveCache
  <1>3. Made(file, file.model)' /\ Made(cache, conf.model)' /\ UsedKept' /\ ArmsShareQueries'
    BY <1>1, <1>b, <1>2 DEF CacheInv, Made, UsedKept, KeptFor, ArmsShareQueries
  <1>4. AtCase' /\ QueriesMatch'
    BY <1>1 DEF CacheInv, AtCase, QueriesMatch, Case, saveCache
  <1> QED BY <1>3, <1>4 DEF CacheInv

\* A query that is used joins those of the case, made for it.
LEMMA UseMatches ==
    ASSUME CacheInv, NEW v \in Variants, NEW text, pc = v, Use(v, text),
           text.question = Case.question, text.variant = v,
           text.model \in {conf.model, NoModel}
    PROVE  AtCase' /\ QueriesMatch'
  <1>1. UNCHANGED <<conf, case>> /\ queries' = With(queries, v, text)
          /\ pc' \in {"vi", "en", "measure"}
    BY DEF Use, AfterVariant, loops
  <1>2. AtCase'
    BY <1>1 DEF CacheInv, AtCase, Variants
  <1>3. QueriesMatch'
    BY <1>1 DEF CacheInv, QueriesMatch, Case, With
  <1> QED BY <1>2, <1>3

\* The case of this id and question is the one at hand.
LEMMA SameCase ==
    ASSUME CacheInv, NEW i \in DOMAIN conf.cases, conf.cases[i].id = Case.id
    PROVE  i = case
  BY CasesOf DEF CacheInv, AtCase, Case

\* Query text of case id is the one used so far for its question and variant.
Agrees(id, text) ==
    \A s \in used :
        /\ s.id = id
        /\ s.text.question = text.question /\ s.text.variant = text.variant
        /\ s.text.take # Blank /\ text.take # Blank
        => s.text = text

\* A query joins those used so far, and equals the ones it stands for.
LEMMA Joined ==
    ASSUME CacheInv, NEW id, NEW text, used' = used \cup {[id |-> id, text |-> text]},
           Agrees(id, text)
    PROVE  ArmsShareQueries'
  <1> DEFINE new == [id |-> id, text |-> text]
  <1>1. new.id = id /\ new.text = text
    OBVIOUS
  <1>2. ASSUME NEW s \in used, s.id = id, s.text = text
        PROVE  s = new
    BY <1>2 DEF CacheInv, UsedKept
  <1> HIDE DEF new
  <1>3. used' = used \cup {new}
    BY DEF new
  <1> QED BY <1>1, <1>2, <1>3 DEF CacheInv, ArmsShareQueries, Agrees

\* A query from the cache is the one that is kept.
LEMMA FromCacheInv ==
    ASSUME NEW v \in Variants
    PROVE  CacheInv /\ generateFromCache(v) => CacheInv'
  <1> SUFFICES ASSUME CacheInv, generateFromCache(v) PROVE CacheInv'
    OBVIOUS
  <1>0. PICK text, id : text = Entry.variants[v] /\ id = Case.id
    OBVIOUS
  <1>1. /\ id \in DOMAIN cache.entries
        /\ cache.entries[id].question = Case.question
        /\ v \in DOMAIN cache.entries[id].variants
        /\ text = cache.entries[id].variants[v]
    BY <1>0 DEF generateFromCache, Cached, HasEntry, Entry
  <1>2. /\ pc = v /\ Use(v, text)
        /\ UNCHANGED <<cache, file, conf>>
        /\ used' = used \cup {[id |-> id, text |-> text]}
    BY <1>0 DEF generateFromCache, Use
  <1>4. text.question = Case.question /\ text.variant = v
          /\ text.model \in {conf.model, NoModel}
    BY <1>1 DEF CacheInv, Made
  <1>5. AtCase' /\ QueriesMatch'
    BY <1>2, <1>4, UseMatches
  <1>6. Made(file, file.model)' /\ Made(cache, conf.model)'
    BY <1>2 DEF CacheInv, Made
  <1>7. KeptFor(id, text)
    BY <1>1, <1>4 DEF KeptFor
  <1>8. PICK i \in DOMAIN conf.cases : i = case
    BY DEF CacheInv, AtCase
  <1>9. conf.cases[i].id = id /\ conf.cases[i].question = Case.question
    BY <1>0, <1>8 DEF Case
  <1>10. UsedKept'
    BY <1>2, <1>7 DEF CacheInv, UsedKept, KeptFor
  <1>11. ASSUME NEW s \in used, s.id = id, s.text.question = text.question,
                s.text.variant = text.variant, s.text.take # Blank
         PROVE  s.text = text
    <2>1. \A j \in DOMAIN conf.cases :
            /\ s.text.take # Blank
            /\ conf.cases[j].id = s.id
            /\ conf.cases[j].question = s.text.question
            => KeptFor(s.id, s.text)
      BY <1>11 DEF CacheInv, UsedKept
    <2>2. KeptFor(s.id, s.text)
      BY <1>4, <1>9, <1>11, <2>1
    <2> QED
      BY <1>7, <1>11, <2>2 DEF KeptFor
  <1>12. Agrees(id, text)
    BY <1>11 DEF Agrees
  <1>13. ArmsShareQueries'
    BY <1>2, <1>12, Joined
  <1> QED BY <1>5, <1>6, <1>10, <1>13 DEF CacheInv

\* A new query: none that is not blank was used for it before.
LEMMA FromModelInv ==
    ASSUME NEW v \in Variants
    PROVE  CacheInv /\ generateFromModel(v) => CacheInv'
  <1> SUFFICES ASSUME CacheInv, generateFromModel(v) PROVE CacheInv'
    OBVIOUS
  <1>1. PICK take : \E text :
          /\ text = [question |-> Case.question, variant |-> v,
                     model |-> conf.model, take |-> take]
          /\ Use(v, text) /\ cache' = Store(v, text)
    BY DEF generateFromModel
  <1>2. PICK text :
          /\ text.question = Case.question /\ text.variant = v
          /\ text.model = conf.model
          /\ Use(v, text) /\ cache' = Store(v, text)
    BY <1>1
  <1>0. PICK id : id = Case.id
    OBVIOUS
  <1>3. /\ pc = v /\ ~Cached(v)
        /\ UNCHANGED <<file, conf>>
        /\ used' = used \cup {[id |-> id, text |-> text]}
    BY <1>0, <1>2 DEF generateFromModel, Use
  <1>4. Made(cache, conf.model)
    BY DEF CacheInv
  <1>6. AtCase' /\ QueriesMatch'
    BY <1>2, <1>3, UseMatches
  <1>7. Made(Store(v, text), conf.model)
    BY <1>2, <1>4, StoredMade
  <1>8. Made(file, file.model)' /\ Made(cache, conf.model)'
    BY <1>2, <1>3, <1>7 DEF CacheInv, Made
  <1>9. PICK i \in DOMAIN conf.cases : i = case
    BY DEF CacheInv, AtCase
  <1>10. conf.cases[i].id = id /\ conf.cases[i].question = Case.question
    BY <1>0, <1>9 DEF Case
  <1>11. \A j \in DOMAIN conf.cases :
           conf.cases[j].id = id => conf.cases[j].question = Case.question
    BY SameCase, <1>0, <1>9, <1>10
  <1>12. ASSUME NEW t, KeptFor(id, t), t.question = Case.question, t.take # Blank
         PROVE  HasEntry /\ t.variant # v
    BY <1>0, <1>3, <1>12 DEF KeptFor, HasEntry, Cached, Entry
  <1>13. /\ KeptFor(id, text)'
         /\ \A k, t : /\ KeptFor(k, t)
                      /\ k = id => HasEntry /\ t.variant # v
                      => KeptFor(k, t)'
    BY <1>0, <1>2, <1>4, StoredKept
  <1>14. ASSUME NEW s \in used, NEW j \in DOMAIN conf.cases,
                s.text.take # Blank, conf.cases[j].id = s.id,
                conf.cases[j].question = s.text.question
         PROVE  KeptFor(s.id, s.text)'
    <2>1. KeptFor(s.id, s.text)
      BY <1>14 DEF CacheInv, UsedKept
    <2>2. s.id = id => HasEntry /\ s.text.variant # v
      BY <1>11, <1>12, <1>14, <2>1
    <2> QED BY <1>13, <2>1, <2>2
  <1>15. UsedKept'
    <2>1. \A s \in used : s = [id |-> s.id, text |-> s.text]
      BY DEF CacheInv, UsedKept
    <2> QED BY <1>3, <1>13, <1>14, <2>1 DEF UsedKept
  <1>16. ASSUME NEW s \in used, s.id = id, s.text.question = text.question,
                s.text.variant = text.variant, s.text.take # Blank
         PROVE  FALSE
    <2>1. KeptFor(id, s.text)
      BY <1>2, <1>10, <1>16 DEF CacheInv, UsedKept
    <2> QED BY <1>2, <1>12, <1>16, <2>1
  <1>17. Agrees(id, text)
    BY <1>16 DEF Agrees
  <1>18. ArmsShareQueries'
    <2>1. used' = used \cup {[id |-> id, text |-> text]}
      BY <1>3
    <2> QED BY <1>17, <2>1, Joined
  <1> QED BY <1>6, <1>8, <1>15, <1>18 DEF CacheInv

\* Every step keeps the invariant.
LEMMA NextInv == CacheInv /\ [BilingualNext]_bilingualVars => CacheInv'
  <1> SUFFICES ASSUME CacheInv, [BilingualNext]_bilingualVars PROVE CacheInv'
    OBVIOUS
  <1>1. CASE UNCHANGED bilingualVars
    <2>1. UNCHANGED <<file, conf, cache, used, pc, case, queries>>
      BY <1>1 DEF bilingualVars, loops, work
    <2>2. AtCase' /\ QueriesMatch'
      BY <2>1 DEF CacheInv, AtCase, QueriesMatch, Case
    <2> QED BY <2>1, <2>2, Untouched DEF CacheInv
  <1>2. CASE StartRun
    BY <1>2, StartInv
  <1>3. CASE SearchOriginal \/ Measure \/ NextCase \/ RunFails
    BY <1>3, OtherInv
  <1>4. CASE saveCache
    BY <1>4, SaveInv
  <1>5. ASSUME NEW v \in Variants, generateFromCache(v) \/ generateFromModel(v)
        PROVE  CacheInv'
    BY <1>5, FromCacheInv, FromModelInv
  <1> QED BY <1>1, <1>2, <1>3, <1>4, <1>5 DEF BilingualNext

------------------------------------------------------------------------------
(* The lists of an arm.                                                      *)

\* No two documents of one section.
OnePerSection(docs) ==
    \A i, j \in DOMAIN docs : PairOf(docs[i]) = PairOf(docs[j]) => i = j

\* The rankings of hits can be fused.
LEMMA ListsFusable ==
    ASSUME NEW n \in Nat, NEW hits \in [1..n -> Hits]
    PROVE  Fusable(Lists(hits), Rows)
  <1>1. Len(hits) = n
    OBVIOUS
  <1>2. \A h \in Hits : Both(h) \in [1..2 -> Seq(Rows)]
    BY BilingualAssumption DEF Both
  <1>3. \A k \in 1..(2 * n) : (k + 1) \div 2 \in 1..n /\ 2 - (k % 2) \in 1..2
    OBVIOUS
  <1>4. \A k \in 1..(2 * n) : Both(hits[(k + 1) \div 2])[2 - (k % 2)] \in Seq(Rows)
    BY <1>2, <1>3
  <1>5. Lists(hits) \in [1..(2 * n) -> Seq(Rows)]
    BY <1>1, <1>4 DEF Lists
  <1>6. Lists(hits) \in Seq(Seq(Rows))
    <2>1. \A T, m \in Nat : \A f \in [1..m -> T] : f \in Seq(T)
      OBVIOUS
    <2>2. 2 * n \in Nat
      OBVIOUS
    <2> QED BY <1>5, <2>1, <2>2
  <1>7. Documents(Lists(hits)) \subseteq Rows
    BY <1>6, DocumentsFinite
  <1>8. Identified(Documents(Lists(hits)))
    BY <1>7, BilingualAssumption DEF Identified
  <1> QED BY <1>6, <1>8, BilingualAssumption DEF Fusable

\* The table holds what it is a table of.
LEMMA FusionsHold ==
    ASSUME NEW n \in {1, 2, 4}, NEW hits \in [1..n -> Hits]
    PROVE  fusedAll(hits) = Fused(hits)
  <1> DEFINE f == [of |-> hits, list |-> Fused(hits)]
  <1>1. f \in fusions /\ f.of = hits
    BY DEF fusions
  <1>2. \A g \in fusions : g.of = hits => g.list = Fused(hits)
    BY DEF fusions
  <1> QED BY <1>1, <1>2 DEF fusedAll

\* It is a ranking with one document for a section.
LEMMA FusedSections ==
    ASSUME NEW n \in {1, 2, 4}, NEW hits \in [1..n -> Hits]
    PROVE  fusedAll(hits) \in Seq(Rows) /\ OnePerSection(fusedAll(hits))
  <1>1. Fusable(Lists(hits), Rows)
    BY ListsFusable
  <1>2. FuseRankings(Lists(hits), 1000) \in Seq(Rows)
    BY <1>1, FusedRanking
  <1>3. /\ Fused(hits) \in Seq(Rows)
        /\ \A i, j \in DOMAIN Fused(hits) :
              KeyOf(Fused(hits)[i]) = KeyOf(Fused(hits)[j]) => i = j
    BY <1>2, DeduplicatedRanking DEF Fused
  <1>4. OnePerSection(Fused(hits))
    BY <1>3 DEF OnePerSection, KeyOf
  <1> QED BY <1>3, <1>4, FusionsHold

\* What one hit's list starts with is what its best section is, and there is
\* one when the vector search found something.
LEMMA TopSection ==
    ASSUME NEW h \in Hits, Clear(h)
    PROVE  LET top == DeduplicateSections(FuseRankings(Both(h), 1))
               list == fusedAll(<<h>>)
           IN  /\ Len(top) = 1 /\ top \in Seq(Rows)
               /\ 1 \in DOMAIN list /\ list[1] = top[1]
  <1> DEFINE lists == Both(h)
             short == FuseRankings(lists, 1)
             long == FuseRankings(lists, 1000)
  <1>1. <<h>> \in [1..1 -> Hits] /\ Len(<<h>>) = 1 /\ <<h>>[1] = h
    OBVIOUS
  <1>2. Lists(<<h>>) = lists
    <2>1. Lists(<<h>>) = [k \in 1..2 |-> Both(<<h>>[(k + 1) \div 2])[2 - (k % 2)]]
      BY <1>1 DEF Lists
    <2>2. \A k \in 1..2 : (k + 1) \div 2 = 1 /\ 2 - (k % 2) = k
      OBVIOUS
    <2>3. Lists(<<h>>) = [k \in 1..2 |-> Both(h)[k]]
      BY <1>1, <2>1, <2>2
    <2> QED BY <2>3 DEF Both
  <1>3. Fusable(lists, Rows)
    BY <1>1, <1>2, ListsFusable
  <1>4. Documents(lists) # {}
    <2>1. h.vector \in Seq(Rows) /\ h.vector # <<>>
      BY BilingualAssumption DEF Clear
    <2>2. h.vector[1] \in Members(h.vector)
      BY <2>1 DEF Members
    <2>3. 1 \in DOMAIN lists /\ lists[1] = h.vector
      BY DEF Both
    <2> QED BY <2>2, <2>3 DEF Documents
  <1>5. /\ long # <<>> /\ short # <<>> /\ long[1] = short[1]
    BY <1>3, <1>4, FusedTop
  <1>6. /\ long \in Seq(Rows) /\ short \in Seq(Rows) /\ Len(short) <= 1
    BY <1>3, FusedRanking
  <1>7. fusedAll(<<h>>) = DeduplicateSections(long)
    BY <1>1, <1>2, FusionsHold DEF Fused
  <1> HIDE DEF lists, short, long
  <1>8. /\ 1 \in DOMAIN DeduplicateSections(long)
        /\ DeduplicateSections(long)[1] = long[1]
    BY <1>5, <1>6, DeduplicatedFirst
  <1>9. /\ 1 \in DOMAIN DeduplicateSections(short)
        /\ DeduplicateSections(short)[1] = short[1]
    BY <1>5, <1>6, DeduplicatedFirst
  <1>10. DeduplicateSections(short) \in Seq(Rows)
         /\ Len(DeduplicateSections(short)) <= Len(short)
    BY <1>6, DeduplicatedRanking
  <1>11. Len(DeduplicateSections(short)) = 1
    <2>1. \A x \in Seq(Rows) : Len(x) \in Nat /\ DOMAIN x = 1..Len(x)
      OBVIOUS
    <2>2. Len(short) \in Nat /\ Len(DeduplicateSections(short)) \in Nat
          /\ 1 \in 1..Len(DeduplicateSections(short))
      BY <1>6, <1>9, <1>10, <2>1
    <2> QED BY <1>6, <1>10, <2>2
  <1> QED BY <1>5, <1>7, <1>8, <1>9, <1>10, <1>11 DEF short, lists

\* The documents of the other sections keep their order, none falls back and
\* none is missing.
LEMMA ElsewhereKeeps ==
    ASSUME NEW docs \in Seq(Rows), OnePerSection(docs), NEW d
    PROVE  /\ Elsewhere(docs, d) \in Seq(Rows)
           /\ \A n \in DOMAIN Elsewhere(docs, d) :
                 PairOf(Elsewhere(docs, d)[n]) # PairOf(d)
           /\ OnePerSection(Elsewhere(docs, d))
           /\ \A k \in DOMAIN docs : k <= 3 /\ PairOf(docs[k]) # PairOf(d) =>
                 \E n \in DOMAIN Elsewhere(docs, d) :
                    n <= 3 /\ Elsewhere(docs, d)[n] = docs[k]
  <1> DEFINE P == {k \in DOMAIN docs : PairOf(docs[k]) # PairOf(d)}
             N == Cardinality(P)
             rest == Elsewhere(docs, d)
  <1>1. P \in SUBSET (DOMAIN docs) /\ P \subseteq Nat \ {0}
    OBVIOUS
  <1>2. rest = AtPositions(docs, P)
    BY DEF Elsewhere
  <1>3. \A k \in P : PairOf(docs[k]) # PairOf(d)
    OBVIOUS
  <1>4. \A k \in DOMAIN docs : PairOf(docs[k]) # PairOf(d) => k \in P
    OBVIOUS
  <1> HIDE DEF P, rest
  <1>5. /\ N \in Nat /\ rest \in Seq(Rows) /\ Len(rest) = N
        /\ \E place \in [1..N -> P] :
             /\ \A n \in 1..N : rest[n] = docs[place[n]]
             /\ \A m, n \in 1..N : m < n => place[m] < place[n]
             /\ \A k \in P : \E n \in 1..N : place[n] = k
    BY <1>1, <1>2, PositionsInOrder
  <1> HIDE DEF N
  <1>6. PICK place \in [1..N -> P] :
             /\ \A n \in 1..N : rest[n] = docs[place[n]]
             /\ \A m, n \in 1..N : m < n => place[m] < place[n]
             /\ \A k \in P : \E n \in 1..N : place[n] = k
    BY <1>5
  <1>7. DOMAIN rest = 1..N
    BY <1>5
  <1>8. \A n \in 1..N : PairOf(rest[n]) # PairOf(d)
    BY <1>3, <1>6
  <1>9. OnePerSection(rest)
    <2> SUFFICES ASSUME NEW i \in 1..N, NEW j \in 1..N,
                        PairOf(rest[i]) = PairOf(rest[j])
                 PROVE  i = j
      BY <1>7 DEF OnePerSection
    <2>1. place[i] \in DOMAIN docs /\ place[j] \in DOMAIN docs
      BY <1>1, <1>6
    <2>2. place[i] = place[j]
      BY <1>6, <2>1 DEF OnePerSection
    <2>3. ~(i < j) /\ ~(j < i)
      <3>1. place[i] \in Nat
        BY <1>1, <1>6
      <3> QED BY <1>6, <2>2, <3>1
    <2> QED BY <1>5, <2>3
  <1>10. ASSUME NEW k \in DOMAIN docs, k <= 3, PairOf(docs[k]) # PairOf(d)
         PROVE  \E n \in 1..N : n <= 3 /\ rest[n] = docs[k]
    <2>1. PICK n \in 1..N : place[n] = k
      BY <1>4, <1>6, <1>10
    <2>2. n <= 3
      <3> SUFFICES ASSUME n >= 4 PROVE FALSE
        BY <1>5
      <3>1. 1 \in 1..N /\ 2 \in 1..N /\ 3 \in 1..N
        BY <1>5
      <3>2. place[1] \in Nat /\ place[2] \in Nat /\ place[3] \in Nat /\ place[n] \in Nat
            /\ place[1] >= 1
        BY <1>1, <1>6, <3>1
      <3>3. place[1] < place[2] /\ place[2] < place[3] /\ place[3] < place[n]
        <4>1. \A i, j \in 1..N : i < j => place[i] < place[j]
          BY <1>6
        <4>2. n \in Nat /\ 3 < n
          BY <1>5
        <4> QED BY <3>1, <4>1, <4>2
      <3>4. place[n] >= 4
        BY <3>2, <3>3
      <3> QED BY <1>10, <2>1, <3>4
    <2> QED BY <1>6, <2>1, <2>2
  <1> QED BY <1>5, <1>7, <1>8, <1>9, <1>10 DEF rest

\* The list D2 makes of the translated ranking: arm A's best section, then the
\* others in order.
LEMMA BaselineFirstKeeps ==
    ASSUME NEW h \in Hits, Clear(h),
           NEW docs \in Seq(Rows), OnePerSection(docs)
    PROVE  LET out == baselineFirst(Both(h), docs)
           IN  /\ PairOf(out[1]) = PairOf(fusedAll(<<h>>)[1])
               /\ {PairOf(d) : d \in Members(FirstOf(docs, 3))}
                     \subseteq {PairOf(d) : d \in Members(out)}
               /\ OnePerSection(out)
  <1> DEFINE top == DeduplicateSections(FuseRankings(Both(h), 1))
             rest == Elsewhere(docs, top[1])
             joined == top \o rest
             out == FirstOf(joined, 4)
  <1>1. /\ Len(top) = 1 /\ top \in Seq(Rows) /\ top # <<>>
        /\ fusedAll(<<h>>)[1] = top[1]
    BY TopSection
  <1>2. baselineFirst(Both(h), docs) = out
    BY <1>1 DEF baselineFirst
  <1>3. /\ rest \in Seq(Rows)
        /\ \A n \in DOMAIN rest : PairOf(rest[n]) # PairOf(top[1])
        /\ OnePerSection(rest)
        /\ \A k \in DOMAIN docs : k <= 3 /\ PairOf(docs[k]) # PairOf(top[1]) =>
              \E n \in DOMAIN rest : n <= 3 /\ rest[n] = docs[k]
    BY ElsewhereKeeps
  <1> HIDE DEF top, rest
  <1>4. /\ joined \in Seq(Rows) /\ Len(rest) \in Nat /\ DOMAIN rest = 1..Len(rest)
        /\ Len(joined) = 1 + Len(rest) /\ joined[1] = top[1]
        /\ \A n \in 1..Len(rest) : joined[n + 1] = rest[n]
    <2>1. \A T : \A x, y \in Seq(T) :
            /\ Len(x) \in Nat /\ Len(y) \in Nat
            /\ DOMAIN y = 1..Len(y)
            /\ x \o y \in Seq(T) /\ Len(x \o y) = Len(x) + Len(y)
            /\ \A n \in 1..Len(x) : (x \o y)[n] = x[n]
            /\ \A n \in 1..Len(y) : (x \o y)[Len(x) + n] = y[n]
      OBVIOUS
    <2>2. /\ joined \in Seq(Rows) /\ Len(rest) \in Nat
          /\ DOMAIN rest = 1..Len(rest)
          /\ Len(joined) = 1 + Len(rest)
          /\ \A n \in 1..1 : joined[n] = top[n]
          /\ \A n \in 1..Len(rest) : joined[1 + n] = rest[n]
      BY <1>1, <1>3, <2>1
    <2>3. joined[1] = top[1]
      BY <2>2
    <2>4. \A n \in 1..Len(rest) : n + 1 = 1 + n
      BY <2>2
    <2> HIDE DEF joined
    <2> QED BY <2>2, <2>3, <2>4
  <1> HIDE DEF joined
  <1>5. PICK m \in Nat : m = IF Len(joined) < 4 THEN Len(joined) ELSE 4
    BY <1>4
  <1>6. /\ out = SubSeq(joined, 1, m) /\ 1 <= m /\ m <= 4 /\ m <= Len(joined)
        /\ \A n \in 1..Len(rest) : n <= 3 => n + 1 <= m
    BY <1>4, <1>5 DEF FirstOf
  <1>7. DOMAIN out = 1..m /\ \A n \in 1..m : out[n] = joined[n]
    BY <1>4, <1>6
  <1> HIDE DEF out
  <1>8. out[1] = top[1] /\ 1 \in DOMAIN out
    BY <1>4, <1>6, <1>7
  <1>9. OnePerSection(out)
    <2>1. ASSUME NEW n \in 1..m, n # 1
          PROVE  n - 1 \in 1..Len(rest) /\ out[n] = rest[n - 1]
      <3>1. n - 1 \in 1..Len(rest) /\ (n - 1) + 1 = n
        BY <1>4, <1>6, <2>1
      <3> QED BY <1>4, <1>7, <3>1
    <2> SUFFICES ASSUME NEW i \in 1..m, NEW j \in 1..m,
                        PairOf(out[i]) = PairOf(out[j])
                 PROVE  i = j
      BY <1>7 DEF OnePerSection
    <2>2. CASE i = 1 /\ j = 1
      BY <2>2
    <2>a. \A n \in 1..m : n # 1 => PairOf(out[n]) # PairOf(out[1])
      <3> SUFFICES ASSUME NEW n \in 1..m, n # 1
                   PROVE  PairOf(out[n]) # PairOf(out[1])
        OBVIOUS
      <3>1. n - 1 \in DOMAIN rest /\ out[n] = rest[n - 1]
        BY <1>4, <2>1
      <3>2. PairOf(rest[n - 1]) # PairOf(top[1])
        BY <1>3, <3>1
      <3> QED BY <1>8, <3>1, <3>2
    <2>3. CASE i # 1 /\ j = 1
      BY <2>a, <2>3
    <2>4. CASE i = 1 /\ j # 1
      BY <2>a, <2>4
    <2>5. CASE i # 1 /\ j # 1
      <3>1. i - 1 \in DOMAIN rest /\ j - 1 \in DOMAIN rest
            /\ PairOf(rest[i - 1]) = PairOf(rest[j - 1])
        BY <1>4, <2>1, <2>5
      <3>2. i - 1 = j - 1
        BY <1>3, <3>1 DEF OnePerSection
      <3> QED BY <3>2
    <2> QED BY <2>2, <2>3, <2>4, <2>5
  <1>10. ASSUME NEW d \in Members(FirstOf(docs, 3))
         PROVE  PairOf(d) \in {PairOf(e) : e \in Members(out)}
    <2>1. PICK k \in DOMAIN docs : k <= 3 /\ d = docs[k]
      <3>1. PICK u \in Nat : u = IF Len(docs) < 3 THEN Len(docs) ELSE 3
        OBVIOUS
      <3>2. FirstOf(docs, 3) = SubSeq(docs, 1, u) /\ u <= Len(docs) /\ u <= 3
        BY <3>1 DEF FirstOf
      <3>3. DOMAIN SubSeq(docs, 1, u) = 1..u
            /\ \A n \in 1..u : SubSeq(docs, 1, u)[n] = docs[n]
        BY <3>2
      <3>4. PICK n \in 1..u : d = docs[n]
        BY <3>2, <3>3 DEF Members
      <3>5. n \in DOMAIN docs /\ n <= 3
        BY <3>2, <3>4
      <3> QED BY <3>4, <3>5
    <2>2. CASE PairOf(d) = PairOf(top[1])
      BY <1>8, <2>2 DEF Members
    <2>3. CASE PairOf(d) # PairOf(top[1])
      <3>1. PICK n \in 1..Len(rest) : n <= 3 /\ rest[n] = d
        BY <1>3, <1>4, <2>1, <2>3
      <3>2. n + 1 \in 1..m
        BY <1>6, <3>1
      <3>3. out[n + 1] = d
        BY <1>4, <1>7, <3>1, <3>2
      <3> QED BY <1>7, <3>2, <3>3 DEF Members
    <2> QED BY <2>2, <2>3
  <1> QED BY <1>1, <1>2, <1>8, <1>9, <1>10

------------------------------------------------------------------------------
(* What is measured.                                                         *)

\* Between the first search of a case and its end the question has found
\* something of what is searched; only a case that is measured has a result.
Results ==
    /\ pc \in Variants \cup {"measure", "next"} => original \in Hits
    /\ pc # "next" => result = NoResult
    /\ BaselineKept

\* A case without a result shows nothing.
LEMMA NothingMeasured == ASSUME result = NoResult PROVE BaselineKept
  BY DEF BaselineKept, NoResult

\* What Measure makes of a case of D1 or D2.
LEMMA MeasureKeeps == Results /\ Measure => BaselineKept'
  <1> SUFFICES ASSUME Results, Measure PROVE BaselineKept'
    OBVIOUS
  <1>1. PICK hits : /\ Arm # "A" => hits \in [Variants -> Hits]
                    /\ result' = Measured(hits)
    BY DEF Measure
  <1>2. original \in Hits /\ UNCHANGED <<conf, arm, case, original>>
    BY DEF Measure, Results, loops
  <1> DEFINE list == fusedAll(Rankings(hits))
  <1>3. /\ result'.arm = Arm /\ result'.guardOK = GuardOK(hits)
        /\ result'.all = list
        /\ result'.fused =
             IF Rejected /\ ~GuardOK(hits) THEN <<>>
             ELSE IF Arm # "D2" THEN list
             ELSE IF GuardOK(hits) THEN baselineFirst(Both(original), list)
             ELSE <<>>
    BY <1>1 DEF Measured
  <1>4. Rejected' = Rejected /\ Baseline' = Baseline
    BY <1>2 DEF Rejected, Case, Baseline
  <1>5. Arm \in {"D1", "D2"} => GuardOK(hits) = Clear(original)
    BY DEF GuardOK
  <1>6. ASSUME Arm = "D2", Clear(original)
        PROVE  /\ PairOf(result'.fused[1]) = PairOf(Baseline[1])
               /\ {PairOf(d) : d \in Members(FirstOf(result'.all, 3))}
                     \subseteq {PairOf(d) : d \in Members(result'.fused)}
               /\ OnePerSection(result'.fused)
    <2>1. Rankings(hits) = <<original, hits["vi"], hits["en"], hits["exp"]>>
      BY <1>6 DEF Rankings
    <2>2. hits["vi"] \in Hits /\ hits["en"] \in Hits /\ hits["exp"] \in Hits
      BY <1>1, <1>6 DEF Variants
    <2>3. Rankings(hits) \in [1..4 -> Hits]
      BY <1>2, <2>1, <2>2
    <2>4. list \in Seq(Rows) /\ OnePerSection(list)
      BY <2>3, FusedSections
    <2>5. result'.fused = baselineFirst(Both(original), list)
      BY <1>3, <1>5, <1>6
    <2> HIDE DEF list
    <2> QED BY <1>2, <1>3, <1>6, <2>4, <2>5, BaselineFirstKeeps DEF Baseline
  <1>7. ASSUME Arm \in {"D1", "D2"}, Rejected, Baseline = <<>>
        PROVE  result'.fused = <<>>
    <2>1. ~Clear(original)
      BY <1>2, <1>7, TopSection DEF Baseline
    <2> QED BY <1>3, <1>5, <1>7, <2>1
  <1> QED BY <1>3, <1>4, <1>5, <1>6, <1>7 DEF BaselineKept, OnePerSection

\* Before the first run there is no result.
LEMMA InitResults == BilingualInit => Results
  <1> SUFFICES ASSUME BilingualInit PROVE Results
    OBVIOUS
  <1>1. BaselineKept
    BY NothingMeasured DEF BilingualInit
  <1> QED BY <1>1 DEF BilingualInit, Results, Variants

\* A result is that of the case and arm in hand, until the next case.
LEMMA NextResults == Results /\ [BilingualNext]_bilingualVars => Results'
  <1> SUFFICES ASSUME Results, [BilingualNext]_bilingualVars PROVE Results'
    OBVIOUS
  <1>1. CASE Measure
    BY <1>1, MeasureKeeps DEF Measure, Results, Variants
  <1>2. ASSUME result' = NoResult,
               pc' \in Variants \cup {"measure", "next"} => original' \in Hits
        PROVE  Results'
    <2>1. BaselineKept'
      BY <1>2 DEF BaselineKept, NoResult
    <2> QED BY <1>2, <2>1 DEF Results
  <1>3. CASE StartRun
    BY <1>2, <1>3 DEF StartRun, work, Results, Variants
  <1>4. CASE SearchOriginal
    BY <1>2, <1>4 DEF SearchOriginal, Results, Variants
  <1>5. CASE NextCase \/ RunFails
    BY <1>2, <1>5 DEF NextCase, RunFails, Variants
  <1>6. CASE saveCache
    BY <1>2, <1>6 DEF saveCache, work, Results, Variants
  <1>7. ASSUME NEW v \in Variants, generateFromCache(v) \/ generateFromModel(v)
        PROVE  Results'
    <2>1. pc = v /\ UNCHANGED <<original, result>>
      BY <1>7 DEF generateFromCache, generateFromModel, Use
    <2> QED BY <1>2, <2>1 DEF Results, Variants
  <1>8. CASE UNCHANGED bilingualVars
    BY <1>8 DEF bilingualVars, loops, work, Results, BaselineKept, Rejected, Case, Baseline
  <1> QED BY <1>1, <1>3, <1>4, <1>5, <1>6, <1>7, <1>8 DEF BilingualNext

------------------------------------------------------------------------------
(* The theorems.                                                             *)

\* The invariant holds in every reachable state.
THEOREM CacheInvariance == BilingualSpec => []CacheInv
  <1> QED BY InitInv, NextInv, PTL DEF BilingualSpec

\* generate (main.go): whatever the cache file held, a case is measured with
\* queries made for its question, for the variant and by the run's model.
THEOREM Matching == BilingualSpec => []QueriesMatch
  <1>1. CacheInv => QueriesMatch
    BY DEF CacheInv
  <1> QED BY <1>1, CacheInvariance, PTL

\* The arms and repeats of one run see the same query for a case's question
\* and variant, unless the model's answer was blank.
THEOREM Sharing == BilingualSpec => []ArmsShareQueries
  <1>1. CacheInv => ArmsShareQueries
    BY DEF CacheInv
  <1> QED BY <1>1, CacheInvariance, PTL

\* baselineFirst and the guard (main.go): D2 starts with the section arm A
\* starts with and loses none of the first three of the translated ranking,
\* and D1 and D2 list nothing where arm A is silent and nothing should be
\* found, whatever the searches find.
THEOREM BaselineHolds == BilingualSpec => []BaselineKept
  <1>1. BilingualSpec => []Results
    BY InitResults, NextResults, PTL DEF BilingualSpec
  <1>2. Results => BaselineKept
    BY DEF Results
  <1> QED BY <1>1, <1>2, PTL

------------------------------------------------------------------------------
(* ContextBudget.                                                            *)

\* The n-th section's p-th chunk, where there is one.
Slot(n, p) == n \in 1..Len(order) /\ p \in 1..Len(indexes[order[n]])
Chunk(n, p) == indexes[order[n]][p]

\* The documents of section s the grouping loop has seen.
Seen(s) == {j \in 1..(at - 1) : documents[j].section = s}

\* What the grouping loop has put in each section: documents of that section,
\* the best one first, each after exactly the ones ranked before it.
InOwnSection ==
    \A s \in Sections : \A p \in 1..Len(indexes[s]) :
        documents[indexes[s][p]].section = s

BestFirst ==
    \A s \in Sections : \A p \in 1..Len(indexes[s]) :
        indexes[s][1] <= indexes[s][p]

Numbered ==
    \A s \in Sections : \A p \in 1..Len(indexes[s]) :
        /\ IsFiniteSet(Siblings(indexes[s][p]))
        /\ Cardinality(Siblings(indexes[s][p])) = p - 1

\* The order holds the sections that have a document, by their best one.
OrderSorted ==
    \A m, n \in 1..Len(order) :
        m < n => indexes[order[m]][1] < indexes[order[n]][1]

OrderUsed ==
    /\ \A n \in 1..Len(order) : Len(indexes[order[n]]) > 0
    /\ \A s \in Sections :
          Len(indexes[s]) > 0 => \E n \in 1..Len(order) : order[n] = s

SectionsGrouped ==
    InOwnSection /\ BestFirst /\ Numbered /\ OrderSorted /\ OrderUsed

\* How far the grouping loop is.
GroupedUpTo ==
    /\ \A s \in Sections : \A p \in 1..Len(indexes[s]) : indexes[s][p] < at
    /\ \A s \in Sections :
          IsFiniteSet(Seen(s)) /\ Cardinality(Seen(s)) = Len(indexes[s])
    /\ \A k \in Positions : k < at =>
          \E p \in 1..Len(indexes[documents[k].section]) :
              indexes[documents[k].section][p] = k

\* After it every document is in its section.
AllGrouped ==
    \A k \in Positions : \E p \in 1..Len(indexes[documents[k].section]) :
        indexes[documents[k].section][p] = k

\* The slots the round-robin is past.
Past(n, p) == p < pass \/ (p = pass /\ n < group)

OfferedBefore(n, p, m, q) == p < q \/ (p = q /\ n < m)

\* Between two offers.
Fair ==
    /\ \A n, p \in Nat : Slot(n, p) =>
          /\ Chunk(n, p) \in selected => Past(n, p)
          /\ Past(n, p) /\ Chunk(n, p) \notin selected => ~Fits(Chunk(n, p))
    /\ \A n, p, m, q \in Nat :
          /\ Slot(n, p) /\ Slot(m, q) /\ OfferedBefore(n, p, m, q)
          /\ Chunk(n, p) \notin selected /\ Chunk(m, q) \in selected
          => Estimate(documents[Chunk(m, q)]) < Estimate(documents[Chunk(n, p)])

AllOffered == \A n, p \in Nat : Slot(n, p) => Past(n, p)

\* The phases in turn.
Phases ==
    /\ phase \in {"start", "group"} =>
          selected = {} /\ pass = 1 /\ group = 1 /\ GroupedUpTo
    /\ phase # "start" => (budget > 0 \/ phase = "done")
    /\ phase \in {"offer", "keep"} => AllGrouped
    /\ phase = "keep" => AllOffered /\ Kept = {k \in selected : k < at}
    /\ phase \in {"start", "group", "offer"} => kept = <<>>
    /\ phase = "done" /\ budget > 0 =>
          \/ documents = <<>>
          \/ AllGrouped /\ AllOffered /\ Kept = selected

IInv == TypeOK /\ SectionsGrouped /\ Fair /\ Phases

USE BudgetAssumption

------------------------------------------------------------------------------
(* Facts about the slots.                                                    *)

\* What a document is.
LEMMA DocumentTyped ==
    ASSUME TypeOK, NEW k \in Positions
    PROVE  documents[k].section \in Sections /\ documents[k].size \in Nat
<1> DEFINE D == [section : Sections, size : Sizes]
<1>1. documents \in Seq(D)
  BY DEF TypeOK
<1>2. \A S : documents \in Seq(S) => documents[k] \in S
  BY DEF Positions
<1>3. documents[k] \in D
  BY <1>1, <1>2
<1> QED
  BY <1>3

\* The chunks of a section's list are ranks.
LEMMA ChunkTyped ==
    ASSUME TypeOK, NEW s \in Sections
    PROVE  /\ Len(indexes[s]) \in Nat
           /\ \A p \in 1..Len(indexes[s]) :
                  indexes[s][p] \in Positions /\ indexes[s][p] \in Nat
<1>1. indexes[s] \in Seq(Positions)
  BY DEF TypeOK
<1>2. Len(indexes[s]) \in Nat
      /\ \A p \in 1..Len(indexes[s]) : indexes[s][p] \in Positions
  BY <1>1
<1> QED
  BY <1>2 DEF Positions

\* What a slot names is a chunk of its section.
LEMMA SlotTyped ==
    ASSUME TypeOK, NEW n \in Nat, NEW p \in Nat, Slot(n, p)
    PROVE  /\ order[n] \in Sections
           /\ p \in 1..Len(indexes[order[n]])
           /\ Chunk(n, p) \in Positions
           /\ indexes[order[n]][1] \in Positions
<1>1. order[n] \in Sections
  BY DEF TypeOK, Slot
<1>2. indexes[order[n]] \in Seq(Positions)
  BY <1>1 DEF TypeOK
<1>3. p \in 1..Len(indexes[order[n]])
  BY DEF Slot
<1>4. Len(indexes[order[n]]) \in Nat /\ 1 \in 1..Len(indexes[order[n]])
  BY <1>2, <1>3
<1> QED
  BY <1>1, <1>2, <1>3, <1>4 DEF Chunk

\* What a slot holds.
LEMMA SlotHolds ==
    ASSUME TypeOK, SectionsGrouped, NEW n \in Nat, NEW p \in Nat, Slot(n, p)
    PROVE  /\ documents[Chunk(n, p)].section = order[n]
           /\ Cardinality(Siblings(Chunk(n, p))) = p - 1
           /\ Estimate(documents[Chunk(n, p)]) \in Nat
<1>1. order[n] \in Sections /\ Chunk(n, p) \in Positions
      /\ p \in 1..Len(indexes[order[n]])
  BY SlotTyped
<1>2. documents[Chunk(n, p)].section = order[n]
  BY <1>1 DEF SectionsGrouped, InOwnSection, Chunk
<1>3. Cardinality(Siblings(Chunk(n, p))) = p - 1
  BY <1>1 DEF SectionsGrouped, Numbered, Chunk
<1>4. documents[Chunk(n, p)].size \in Nat
  BY <1>1, DocumentTyped
<1> QED
  BY <1>2, <1>3, <1>4 DEF Estimate, chunkOverhead

\* Two slots hold different documents.
LEMMA SlotsDistinct ==
    ASSUME TypeOK, SectionsGrouped, NEW n \in Nat, NEW p \in Nat,
           NEW m \in Nat, NEW q \in Nat, Slot(n, p), Slot(m, q),
           Chunk(n, p) = Chunk(m, q)
    PROVE  n = m /\ p = q
<1>1. order[n] = order[m]
  BY SlotHolds
<1>2. p = q
  BY SlotHolds
<1>3. indexes[order[n]][1] \in Nat
  BY SlotTyped DEF Positions
<1>4. n \in 1..Len(order) /\ m \in 1..Len(order)
  BY DEF Slot
<1>5. ~(n < m) /\ ~(m < n)
  BY <1>1, <1>3, <1>4 DEF SectionsGrouped, OrderSorted
<1> QED
  BY <1>2, <1>5

\* Every document has a slot.
LEMMA HasSlot ==
    ASSUME TypeOK, SectionsGrouped, AllGrouped, NEW k \in Positions
    PROVE  \E n, p \in Nat : Slot(n, p) /\ Chunk(n, p) = k
<1> DEFINE s == documents[k].section
<1>1. s \in Sections
  BY DocumentTyped
<1>2. PICK p \in 1..Len(indexes[s]) : indexes[s][p] = k
  BY DEF AllGrouped
<1>a. Len(indexes[s]) \in Nat
  BY <1>1 DEF TypeOK
<1>3. PICK n \in 1..Len(order) : order[n] = s
  BY <1>1, <1>2, <1>a DEF SectionsGrouped, OrderUsed
<1>4. Slot(n, p) /\ Chunk(n, p) = k
  BY <1>2, <1>3 DEF Slot, Chunk
<1>5. n \in Nat /\ p \in Nat
  BY <1>a DEF TypeOK
<1> QED
  BY <1>4, <1>5

------------------------------------------------------------------------------
\* Nothing is grouped, offered or kept before Build begins.
LEMMA InitIInv == Init => IInv
<1> SUFFICES ASSUME Init PROVE IInv
  OBVIOUS
<1> DEFINE D == [section : Sections, size : Sizes]
<1>1. PICK n \in 0..MaxDocuments : documents \in [1..n -> D]
  BY DEF Init
<1>2. documents \in Seq(D) /\ Len(documents) \in Nat
  <2>1. \A S : documents \in [1..n -> S] =>
               documents \in Seq(S) /\ Len(documents) \in Nat
    OBVIOUS
  <2> QED
    BY <1>1, <2>1
<1>3. TypeOK
  BY <1>2 DEF Init, TypeOK, Positions
<1>4. \A s \in Sections : Len(indexes[s]) = 0
  BY DEF Init
<1>5. Len(order) = 0
  BY DEF Init
<1>6. SectionsGrouped
  BY <1>4, <1>5 DEF SectionsGrouped, InOwnSection, BestFirst, Numbered,
     OrderSorted, OrderUsed
<1>7. Fair
  BY <1>5 DEF Fair, Slot
<1>8. \A s \in Sections : Seen(s) = {}
  BY DEF Init, Seen
<1>9. GroupedUpTo
  <2>1. \A s \in Sections : IsFiniteSet(Seen(s)) /\ Cardinality(Seen(s)) = 0
    BY <1>8, FS_EmptySet
  <2>2. \A k \in Positions : ~(k < at)
    BY DEF Init, Positions
  <2> QED
    BY <1>4, <2>1, <2>2 DEF GroupedUpTo
<1>10. Phases
  BY <1>9 DEF Init, Phases
<1> QED
  BY <1>3, <1>6, <1>7, <1>10 DEF IInv

------------------------------------------------------------------------------
(* One document is grouped.                                                  *)

\* The section that grows, and its new chunk.
LEMMA Grown ==
    ASSUME TypeOK, GroupDocument
    PROVE  /\ documents[at].section \in Sections
           /\ at \in Positions
           /\ indexes' \in [Sections -> Seq(Positions)]
           /\ \A s \in Sections :
                IF s = documents[at].section
                THEN /\ Len(indexes'[s]) = Len(indexes[s]) + 1
                     /\ indexes'[s][Len(indexes[s]) + 1] = at
                     /\ \A p \in 1..Len(indexes[s]) :
                            indexes'[s][p] = indexes[s][p]
                ELSE indexes'[s] = indexes[s]
<1> DEFINE s0 == documents[at].section
<1>1. at \in Positions
  BY DEF TypeOK, GroupDocument, Positions
<1>2. s0 \in Sections
  BY <1>1, DocumentTyped
<1>3. indexes \in [Sections -> Seq(Positions)]
  BY DEF TypeOK
<1>4. indexes' = [indexes EXCEPT ![s0] = Append(indexes[s0], at)]
  BY DEF GroupDocument
<1>5. indexes[s0] \in Seq(Positions)
  BY <1>2, <1>3
<1>6. Append(indexes[s0], at) \in Seq(Positions)
  BY <1>1, <1>5
<1>7. indexes' \in [Sections -> Seq(Positions)]
  BY <1>2, <1>3, <1>4, <1>6
<1>8. /\ Len(Append(indexes[s0], at)) = Len(indexes[s0]) + 1
      /\ Append(indexes[s0], at)[Len(indexes[s0]) + 1] = at
      /\ \A p \in 1..Len(indexes[s0]) :
            Append(indexes[s0], at)[p] = indexes[s0][p]
  BY <1>1, <1>5
<1>9. indexes'[s0] = Append(indexes[s0], at)
  BY <1>2, <1>3, <1>4
<1>10. \A s \in Sections : s # s0 => indexes'[s] = indexes[s]
  BY <1>3, <1>4
<1> QED
  BY <1>1, <1>2, <1>7, <1>8, <1>9, <1>10

\* The sections, with the next one at the end if it is new.
LEMMA OrderGrown ==
    ASSUME TypeOK, GroupDocument
    PROVE  IF Len(indexes[documents[at].section]) = 0
           THEN /\ order' \in Seq(Sections)
                /\ Len(order') = Len(order) + 1
                /\ order'[Len(order) + 1] = documents[at].section
                /\ \A n \in 1..Len(order) : order'[n] = order[n]
           ELSE order' = order
<1> DEFINE s0 == documents[at].section
<1>1. s0 \in Sections
  BY Grown
<1>2. order \in Seq(Sections) /\ indexes[s0] \in Seq(Positions)
  BY <1>1 DEF TypeOK
<1>3. Len(indexes[s0]) = 0 <=> indexes[s0] = <<>>
  BY <1>2
<1>4. order' = IF indexes[s0] = <<>> THEN Append(order, s0) ELSE order
  BY DEF GroupDocument, OrderWith
<1>5. CASE Len(indexes[s0]) = 0
  <2>1. order' = Append(order, s0)
    BY <1>3, <1>4, <1>5
  <2> QED
    BY <1>1, <1>2, <1>5, <2>1
<1>6. CASE Len(indexes[s0]) # 0
  BY <1>3, <1>4, <1>6
<1> QED
  BY <1>5, <1>6

\* A chunk of the grown section is an old one or the new document.
LEMMA OldOrNew ==
    ASSUME TypeOK, GroupDocument, NEW s \in Sections,
           NEW p \in 1..Len(indexes'[s])
    PROVE  \/ p \in 1..Len(indexes[s]) /\ indexes'[s][p] = indexes[s][p]
           \/ /\ s = documents[at].section
              /\ p = Len(indexes[s]) + 1
              /\ indexes'[s][p] = at
<1>1. Len(indexes[s]) \in Nat
  BY DEF TypeOK
<1>2. CASE s = documents[at].section
  BY <1>1, <1>2, Grown
<1>3. CASE s # documents[at].section
  BY <1>3, Grown
<1> QED
  BY <1>2, <1>3

\* Grouping goes on from what is grouped.
LEMMA GroupKeepsGroupedUpTo ==
    ASSUME TypeOK, GroupedUpTo, GroupDocument
    PROVE  GroupedUpTo'
<1>1. documents' = documents /\ at' = at + 1 /\ at \in Nat /\ Positions' = Positions
  BY DEF GroupDocument, arguments, TypeOK, Positions
<1>2. \A s \in Sections : \A p \in 1..Len(indexes'[s]) : indexes'[s][p] < at'
  <2> SUFFICES ASSUME NEW s \in Sections, NEW p \in 1..Len(indexes'[s])
               PROVE  indexes'[s][p] < at'
    OBVIOUS
  <2>1. CASE p \in 1..Len(indexes[s]) /\ indexes'[s][p] = indexes[s][p]
    <3>1. indexes[s][p] < at
      BY <2>1 DEF GroupedUpTo
    <3>2. indexes[s][p] \in Nat
      BY <2>1, ChunkTyped
    <3> QED
      BY <1>1, <2>1, <3>1, <3>2
  <2>2. CASE indexes'[s][p] = at
    BY <1>1, <2>2
  <2> QED
    BY <2>1, <2>2, OldOrNew
<1>3. \A s \in Sections :
        IsFiniteSet(Seen(s)') /\ Cardinality(Seen(s)') = Len(indexes'[s])
  <2> SUFFICES ASSUME NEW s \in Sections
               PROVE  IsFiniteSet(Seen(s)') /\ Cardinality(Seen(s)') = Len(indexes'[s])
    OBVIOUS
  <2>1. IsFiniteSet(Seen(s)) /\ Cardinality(Seen(s)) = Len(indexes[s])
    BY DEF GroupedUpTo
  <2>2. CASE s = documents[at].section
    <3>0. 1..(at' - 1) = 1..(at - 1) \cup {at}
      BY <1>1, Grown DEF Positions
    <3>1. Seen(s)' = Seen(s) \cup {at}
      BY <1>1, <2>2, <3>0 DEF Seen
    <3>2. at \notin Seen(s)
      BY <1>1 DEF Seen
    <3> QED
      <4>1. IsFiniteSet(Seen(s)') /\ Cardinality(Seen(s)') = Cardinality(Seen(s)) + 1
        BY <2>1, <3>1, <3>2, FS_AddElement
      <4>2. Len(indexes'[s]) = Len(indexes[s]) + 1
        BY <2>2, Grown
      <4> QED
        BY <2>1, <4>1, <4>2
  <2>3. CASE s # documents[at].section
    <3>1. Seen(s)' = Seen(s)
      BY <1>1, <2>3 DEF Seen
    <3> QED
      BY <2>1, <2>3, <3>1, Grown
  <2> QED
    BY <2>2, <2>3
<1>4. \A k \in Positions : k < at' =>
        \E p \in 1..Len(indexes'[documents[k].section]) :
            indexes'[documents[k].section][p] = k
  <2> SUFFICES ASSUME NEW k \in Positions, k < at'
               PROVE  \E p \in 1..Len(indexes'[documents[k].section]) :
                          indexes'[documents[k].section][p] = k
    OBVIOUS
  <2> DEFINE s == documents[k].section
  <2>1. s \in Sections /\ Len(indexes[s]) \in Nat
    BY DocumentTyped DEF TypeOK
  <2> HIDE DEF s
  <2>2. CASE k = at
    BY <2>1, <2>2, Grown DEF s
  <2>3. CASE k < at
    <3>1. PICK p \in 1..Len(indexes[s]) : indexes[s][p] = k
      BY <2>3 DEF GroupedUpTo, s
    <3>2. p \in 1..Len(indexes'[s]) /\ indexes'[s][p] = k
      BY <2>1, <3>1, Grown
    <3> QED
      BY <3>2 DEF s
  <2> QED
    BY <1>1, <2>2, <2>3 DEF Positions
<1> QED
  BY <1>1, <1>2, <1>3, <1>4 DEF GroupedUpTo

\* The lists stay in rank order and the sections in that of their best chunks.
LEMMA GroupKeepsSectionsGrouped ==
    ASSUME TypeOK, SectionsGrouped, GroupedUpTo, GroupDocument
    PROVE  SectionsGrouped'
<1> DEFINE s0 == documents[at].section
<1>1. documents' = documents /\ at \in Nat
  BY DEF GroupDocument, arguments, TypeOK
<1>2. \A s \in Sections : Len(indexes[s]) \in Nat /\
        \A p \in 1..Len(indexes[s]) : indexes[s][p] \in Nat /\ indexes[s][p] < at
  BY ChunkTyped DEF GroupedUpTo
<1>a. s0 \in Sections /\ at \in Positions
  BY Grown
<1> HIDE DEF s0
<1>3. InOwnSection'
  <2> SUFFICES ASSUME NEW s \in Sections, NEW p \in 1..Len(indexes'[s])
               PROVE  documents[indexes'[s][p]].section = s
    BY <1>1 DEF InOwnSection
  <2> QED
    BY OldOrNew DEF SectionsGrouped, InOwnSection
<1>4. BestFirst'
  <2> SUFFICES ASSUME NEW s \in Sections, NEW p \in 1..Len(indexes'[s])
               PROVE  indexes'[s][1] <= indexes'[s][p]
    BY DEF BestFirst
  <2>1. CASE p \in 1..Len(indexes[s]) /\ indexes'[s][p] = indexes[s][p]
    <3>1. indexes'[s][1] = indexes[s][1]
      BY <1>2, <2>1, Grown
    <3> QED
      BY <2>1, <3>1 DEF SectionsGrouped, BestFirst
  <2>2. CASE s = documents[at].section /\ p = Len(indexes[s]) + 1 /\ indexes'[s][p] = at
    <3>1. CASE Len(indexes[s]) = 0
      BY <1>1, <2>2, <3>1
    <3>2. CASE Len(indexes[s]) # 0
      <4>1. 1 \in 1..Len(indexes[s])
        BY <1>2, <3>2
      <4>2. indexes'[s][1] = indexes[s][1]
        BY <2>2, <4>1, Grown
      <4>3. indexes[s][1] \in Nat /\ indexes[s][1] < at
        BY <1>2, <4>1
      <4> QED
        BY <1>1, <2>2, <4>2, <4>3
    <3> QED
      BY <3>1, <3>2
  <2> QED
    BY <2>1, <2>2, OldOrNew
<1>5. Numbered'
  <2> SUFFICES ASSUME NEW s \in Sections, NEW p \in 1..Len(indexes'[s])
               PROVE  LET k == indexes'[s][p]
                      IN  /\ IsFiniteSet(Siblings(k))
                          /\ Cardinality(Siblings(k)) = p - 1
    BY <1>1 DEF Numbered, Siblings
  <2>1. CASE p \in 1..Len(indexes[s]) /\ indexes'[s][p] = indexes[s][p]
    BY <2>1 DEF SectionsGrouped, Numbered
  <2>2. CASE s = documents[at].section /\ p = Len(indexes[s]) + 1 /\ indexes'[s][p] = at
    <3>1. Siblings(at) = Seen(s)
      BY <2>2 DEF Siblings, Seen
    <3>2. IsFiniteSet(Seen(s)) /\ Cardinality(Seen(s)) = Len(indexes[s])
      BY DEF GroupedUpTo
    <3> QED
      BY <1>2, <2>2, <3>1, <3>2
  <2> QED
    BY <2>1, <2>2, OldOrNew
<1>6. OrderSorted' /\ OrderUsed'
  <2>1. \A n \in 1..Len(order) :
          /\ order[n] \in Sections /\ 1 \in 1..Len(indexes[order[n]])
          /\ Len(indexes'[order[n]]) > 0
          /\ indexes'[order[n]][1] = indexes[order[n]][1]
    <3> SUFFICES ASSUME NEW n \in 1..Len(order)
                 PROVE  /\ order[n] \in Sections /\ 1 \in 1..Len(indexes[order[n]])
                        /\ Len(indexes'[order[n]]) > 0
                        /\ indexes'[order[n]][1] = indexes[order[n]][1]
      OBVIOUS
    <3>1. order[n] \in Sections
      BY DEF TypeOK
    <3>2. Len(indexes[order[n]]) > 0
      BY DEF SectionsGrouped, OrderUsed
    <3> QED
      BY <1>2, <3>1, <3>2, Grown
  <2>2. Len(order) \in Nat
    BY DEF TypeOK
  <2>3. CASE Len(indexes[s0]) = 0
    <3>1. /\ Len(order') = Len(order) + 1 /\ order'[Len(order) + 1] = s0
          /\ \A n \in 1..Len(order) : order'[n] = order[n]
      BY <2>3, OrderGrown DEF s0
    <3>2. Len(indexes'[s0]) > 0 /\ indexes'[s0][1] = at
      BY <1>a, <2>3, Grown DEF s0
    <3>3. OrderSorted'
      <4> SUFFICES ASSUME NEW m \in 1..Len(order'), NEW n \in 1..Len(order'), m < n
                   PROVE  indexes'[order'[m]][1] < indexes'[order'[n]][1]
        BY DEF OrderSorted
      <4>1. m \in 1..Len(order)
        BY <2>2, <3>1
      <4>2. CASE n \in 1..Len(order)
        BY <2>1, <3>1, <4>1, <4>2 DEF SectionsGrouped, OrderSorted
      <4>3. CASE n = Len(order) + 1
        BY <1>2, <2>1, <3>1, <3>2, <4>1, <4>3
      <4> QED
        BY <2>2, <3>1, <4>2, <4>3
    <3>4. \A n \in 1..Len(order') : Len(indexes'[order'[n]]) > 0
      BY <2>1, <2>2, <3>1, <3>2
    <3>5. \A s \in Sections :
            Len(indexes'[s]) > 0 => \E n \in 1..Len(order') : order'[n] = s
      <4> SUFFICES ASSUME NEW s \in Sections, Len(indexes'[s]) > 0
                   PROVE  \E n \in 1..Len(order') : order'[n] = s
        OBVIOUS
      <4>1. CASE s = s0
        BY <2>2, <3>1, <4>1
      <4>2. CASE s # s0
        <5>1. Len(indexes[s]) > 0
          BY <4>2, Grown DEF s0
        <5>2. PICK n \in 1..Len(order) : order[n] = s
          BY <5>1 DEF SectionsGrouped, OrderUsed
        <5> QED
          BY <2>2, <3>1, <5>2
      <4> QED
        BY <4>1, <4>2
    <3> QED
      BY <3>3, <3>4, <3>5 DEF OrderUsed
  <2>4. CASE Len(indexes[s0]) # 0
    <3>1. order' = order
      BY <2>4, OrderGrown DEF s0
    <3>2. OrderSorted'
      BY <2>1, <3>1 DEF SectionsGrouped, OrderSorted
    <3>3. \A s \in Sections : Len(indexes'[s]) > 0 => Len(indexes[s]) > 0
      BY <1>2, <1>a, <2>4, Grown DEF s0
    <3> QED
      BY <2>1, <3>1, <3>2, <3>3 DEF SectionsGrouped, OrderUsed
  <2> QED
    BY <2>3, <2>4
<1> QED
  BY <1>3, <1>4, <1>5, <1>6 DEF SectionsGrouped

------------------------------------------------------------------------------
(* The invariant's four parts.                                               *)

\* What the offering actions have in common: the current slot is a slot.
LEMMA OfferSlot ==
    ASSUME TypeOK, Offering, group <= Len(order), HasOffer
    PROVE  /\ group \in Nat /\ pass \in Nat
           /\ Slot(group, pass) /\ Offered = Chunk(group, pass)
<1>1. group \in 1..Len(order) /\ pass \in Nat \ {0}
  BY DEF TypeOK
<1>2. order[group] \in Sections
  BY <1>1 DEF TypeOK
<1>3. pass \in 1..Len(indexes[order[group]])
  BY <1>1, <1>2, ChunkTyped DEF HasOffer
<1> QED
  BY <1>1, <1>3 DEF Slot, Chunk, Offered, TypeOK

\* Every step keeps the types.
LEMMA NextType == IInv /\ [Next]_vars => TypeOK'
<1> SUFFICES ASSUME IInv, [Next]_vars PROVE TypeOK'
  OBVIOUS
<1>a. TypeOK
  BY DEF IInv
<1>b. Len(documents) \in Nat /\ Len(order) \in Nat
  BY <1>a DEF TypeOK
<1>c. Positions' = Positions /\ documents' = documents /\ budget' = budget
  BY DEF Next, ReturnInput, StartGrouping, GroupDocument, StartPasses, PassOver,
     TooBig, Take, NextPass, StartKeeping, KeepDocument, Return, Returned,
     arguments, vars, Positions
<1>1. CASE ReturnInput
  <2>1. \A n \in Nat : [k \in 1..n |-> k] \in Seq(1..n)
    OBVIOUS
  <2>2. [k \in Positions |-> k] \in Seq(Positions)
    BY <1>b, <2>1 DEF Positions
  <2> QED
    BY <1>a, <1>c, <1>1, <2>2 DEF TypeOK, ReturnInput, arguments, groups
<1>2. CASE StartGrouping \/ StartPasses \/ Return
  BY <1>a, <1>c, <1>2
  DEF TypeOK, StartGrouping, StartPasses, Return, arguments, groups
<1>3. CASE GroupDocument
  <2>1. indexes' \in [Sections -> Seq(Positions)]
    BY <1>a, <1>3, Grown
  <2>2. order' \in Seq(Sections) /\ Len(order) <= Len(order')
    BY <1>a, <1>b, <1>3, OrderGrown DEF TypeOK
  <2>3. Len(order') \in Nat
    BY <2>2
  <2>4. group' \in 1..(Len(order') + 1)
    BY <1>a, <1>b, <1>3, <2>2, <2>3 DEF TypeOK, GroupDocument
  <2>5. at' \in 1..(Len(documents) + 1)
    BY <1>a, <1>b, <1>3 DEF TypeOK, GroupDocument
  <2> QED
    BY <1>a, <1>c, <1>3, <2>1, <2>2, <2>4, <2>5
    DEF TypeOK, GroupDocument, arguments
<1>4. CASE PassOver \/ TooBig
  BY <1>a, <1>b, <1>c, <1>4 DEF TypeOK, PassOver, TooBig, arguments, groups
<1>5. CASE Take
  <2>1. Slot(group, pass) /\ Offered = Chunk(group, pass)
        /\ group \in Nat /\ pass \in Nat
    BY <1>a, <1>5, OfferSlot DEF Take
  <2>2. Offered \in Positions /\ Estimate(documents[Offered]) \in Nat
    BY <1>a, <2>1, SlotTyped, SlotHolds DEF IInv
  <2>3. Estimate(documents[Offered]) <= remaining
    BY <1>5 DEF Take, Fits
  <2>4. remaining' \in Int /\ remaining' >= 0
    BY <1>a, <1>5, <2>2, <2>3 DEF Take, TypeOK
  <2>5. selected' \subseteq Positions
    BY <1>a, <1>5, <2>2 DEF Take, TypeOK
  <2>6. group' \in 1..(Len(order) + 1)
    BY <1>a, <1>b, <1>5 DEF Take, TypeOK
  <2> QED
    BY <1>a, <1>c, <1>5, <2>4, <2>5, <2>6 DEF TypeOK, Take, arguments, groups
<1>6. CASE NextPass
  BY <1>a, <1>b, <1>c, <1>6 DEF TypeOK, NextPass, arguments, groups
<1>7. CASE StartKeeping
  BY <1>a, <1>b, <1>c, <1>7 DEF TypeOK, StartKeeping, arguments, groups
<1>8. CASE KeepDocument
  <2>1. at \in Positions /\ at' \in 1..(Len(documents) + 1)
    BY <1>a, <1>b, <1>8 DEF TypeOK, KeepDocument, Positions
  <2>2. kept' \in Seq(Positions)
    BY <1>a, <1>8, <2>1 DEF TypeOK, KeepDocument
  <2> QED
    BY <1>a, <1>c, <1>8, <2>1, <2>2 DEF TypeOK, KeepDocument, arguments, groups
<1>9. CASE UNCHANGED vars
  BY <1>a, <1>c, <1>9 DEF TypeOK, vars
<1> QED
  BY <1>1, <1>2, <1>3, <1>4, <1>5, <1>6, <1>7, <1>8, <1>9 DEF Next, Returned

\* Every step keeps the grouping.
LEMMA NextGrouped == IInv /\ [Next]_vars => SectionsGrouped'
<1> SUFFICES ASSUME IInv, [Next]_vars PROVE SectionsGrouped'
  OBVIOUS
<1>1. CASE GroupDocument
  BY <1>1, GroupKeepsSectionsGrouped DEF IInv, Phases, GroupDocument
<1>2. CASE UNCHANGED <<documents, order, indexes>>
  BY <1>2 DEF IInv, SectionsGrouped, InOwnSection, BestFirst, Numbered,
     OrderSorted, OrderUsed, Siblings
<1> QED
  BY <1>1, <1>2
  DEF Next, ReturnInput, StartGrouping, StartPasses, PassOver,
     TooBig, Take, NextPass, StartKeeping, KeepDocument, Return, Returned,
     arguments, groups, vars

\* An offer that is not taken, or not made: only the slots past change.
LEMMA PassingKeepsFair ==
    ASSUME TypeOK, Fair,
           UNCHANGED <<documents, order, indexes, selected, remaining>>,
           \A n, p \in Nat : Slot(n, p) =>
               /\ Past(n, p) => Past(n, p)'
               /\ Past(n, p)' => Past(n, p) \/ ~Fits(Chunk(n, p))
    PROVE  Fair'
<1>1. \A n, p \in Nat : Slot(n, p)' = Slot(n, p) /\ Chunk(n, p)' = Chunk(n, p)
                        /\ Fits(Chunk(n, p))' = Fits(Chunk(n, p))
  BY DEF Slot, Chunk, Fits, Estimate
<1>2. \A n, p \in Nat : Slot(n, p)' =>
        /\ Chunk(n, p)' \in selected' => Past(n, p)'
        /\ Past(n, p)' /\ Chunk(n, p)' \notin selected' => ~Fits(Chunk(n, p))'
  BY <1>1 DEF Fair
<1>3. \A n, p, m, q \in Nat :
        /\ Slot(n, p)' /\ Slot(m, q)' /\ OfferedBefore(n, p, m, q)
        /\ Chunk(n, p)' \notin selected' /\ Chunk(m, q)' \in selected'
        => Estimate(documents'[Chunk(m, q)']) < Estimate(documents'[Chunk(n, p)'])
  BY <1>1 DEF Fair
<1> QED
  BY <1>2, <1>3 DEF Fair

\* An offer leaves what was offered before taken or too long.
LEMMA TakeKeepsFair ==
    ASSUME TypeOK, SectionsGrouped, Fair, Take
    PROVE  Fair'
<1> DEFINE c == Chunk(group, pass)
<1>1. group \in Nat /\ pass \in Nat /\ Slot(group, pass) /\ Offered = c
  BY OfferSlot DEF Take
<1>2. /\ selected' = selected \cup {c} /\ remaining' = remaining - Estimate(documents[c])
      /\ group' = group + 1 /\ pass' = pass
      /\ Estimate(documents[c]) <= remaining
      /\ UNCHANGED <<documents, order, indexes>>
  BY <1>1 DEF Take, Fits, arguments, groups
<1>3. Estimate(documents[c]) \in Nat /\ remaining \in Int
  BY <1>1, SlotHolds DEF TypeOK
<1>4. \A n, p \in Nat : Slot(n, p) /\ Chunk(n, p) = c => n = group /\ p = pass
  BY <1>1, SlotsDistinct
<1> HIDE DEF c
<1>5. \A n, p \in Nat : Slot(n, p)' = Slot(n, p) /\ Chunk(n, p)' = Chunk(n, p)
  BY <1>2 DEF Slot, Chunk
<1>6. ASSUME NEW n \in Nat, NEW p \in Nat, Slot(n, p), Chunk(n, p) \in selected'
      PROVE  Past(n, p)'
  <2>1. CASE Chunk(n, p) = c
    BY <1>2, <1>4, <1>6, <2>1 DEF Past
  <2>2. CASE Chunk(n, p) # c
    BY <1>1, <1>2, <1>6, <2>2 DEF Past, Fair
  <2> QED
    BY <2>1, <2>2
<1>7. ASSUME NEW n \in Nat, NEW p \in Nat, Slot(n, p), Past(n, p)',
             Chunk(n, p) \notin selected'
      PROVE  /\ Past(n, p)
             /\ Estimate(documents[Chunk(n, p)]) > remaining
  <2>1. Chunk(n, p) # c /\ Chunk(n, p) \notin selected
    BY <1>2, <1>7
  <2>2. ~(n = group /\ p = pass)
    BY <2>1 DEF c
  <2>a. group' = group + 1 /\ pass' = pass
    BY <1>2
  <2>b. p < pass \/ (p = pass /\ n < group + 1)
    BY <1>7, <2>a DEF Past
  <2>3. Past(n, p)
    BY <1>1, <2>2, <2>b DEF Past
  <2>4. ~(Estimate(documents[Chunk(n, p)]) <= remaining)
    BY <1>7, <2>1, <2>3 DEF Fair, Fits
  <2>5. Estimate(documents[Chunk(n, p)]) \in Nat
    BY <1>7, SlotHolds
  <2> QED
    BY <1>3, <2>3, <2>4, <2>5
<1>8. ASSUME NEW n \in Nat, NEW p \in Nat, NEW m \in Nat, NEW q \in Nat,
             Slot(n, p), Slot(m, q), OfferedBefore(n, p, m, q),
             Chunk(n, p) \notin selected', Chunk(m, q) \in selected'
      PROVE  Estimate(documents[Chunk(m, q)]) < Estimate(documents[Chunk(n, p)])
  <2>1. CASE Chunk(m, q) = c
    <3>1. m = group /\ q = pass
      BY <1>4, <1>8, <2>1
    <3>2. Past(n, p)'
      BY <1>1, <1>2, <1>8, <3>1 DEF OfferedBefore, Past
    <3>3. Estimate(documents[Chunk(n, p)]) > remaining
      BY <1>7, <1>8, <3>2
    <3>4. Estimate(documents[Chunk(n, p)]) \in Nat
      BY <1>8, SlotHolds
    <3> QED
      BY <1>2, <1>3, <2>1, <3>3, <3>4
  <2>2. CASE Chunk(m, q) # c
    BY <1>2, <1>8, <2>2 DEF Fair
  <2> QED
    BY <2>1, <2>2
<1>9. \A n, p \in Nat : Slot(n, p) /\ Past(n, p)' /\ Chunk(n, p) \notin selected' =>
        ~(Estimate(documents[Chunk(n, p)]) <= remaining')
  <2> SUFFICES ASSUME NEW n \in Nat, NEW p \in Nat, Slot(n, p), Past(n, p)',
                      Chunk(n, p) \notin selected'
               PROVE  ~(Estimate(documents[Chunk(n, p)]) <= remaining')
    OBVIOUS
  <2>1. Estimate(documents[Chunk(n, p)]) > remaining
    BY <1>7
  <2>2. Estimate(documents[Chunk(n, p)]) \in Nat
    BY SlotHolds
  <2> QED
    BY <1>2, <1>3, <2>1, <2>2
<1>10. \A n, p \in Nat : Slot(n, p)' =>
         /\ Chunk(n, p)' \in selected' => Past(n, p)'
         /\ Past(n, p)' /\ Chunk(n, p)' \notin selected' => ~Fits(Chunk(n, p))'
  BY <1>2, <1>5, <1>6, <1>9 DEF Fits, Estimate
<1>11. \A n, p, m, q \in Nat :
         /\ Slot(n, p)' /\ Slot(m, q)' /\ OfferedBefore(n, p, m, q)
         /\ Chunk(n, p)' \notin selected' /\ Chunk(m, q)' \in selected'
         => Estimate(documents'[Chunk(m, q)']) < Estimate(documents'[Chunk(n, p)'])
  BY <1>2, <1>5, <1>8
<1> QED
  BY <1>10, <1>11 DEF Fair

\* Every step keeps what holds of the offers.
LEMMA NextFair == IInv /\ [Next]_vars => Fair'
<1> SUFFICES ASSUME IInv, [Next]_vars PROVE Fair'
  OBVIOUS
<1>a. TypeOK /\ SectionsGrouped /\ Fair
  BY DEF IInv
<1>1. CASE UNCHANGED <<documents, order, indexes, pass, group, selected, remaining>>
  BY <1>a, <1>1, PassingKeepsFair DEF Past
<1>2. CASE GroupDocument
  <2>1. selected' = {} /\ pass' = 1 /\ group' = 1
    BY <1>2 DEF IInv, Phases, GroupDocument
  <2>2. \A n, p \in Nat : Slot(n, p)' => n >= 1 /\ p >= 1
    BY DEF Slot
  <2>3. \A n, p \in Nat : Slot(n, p)' => ~Past(n, p)'
    BY <2>1, <2>2 DEF Past
  <2> QED
    BY <2>1, <2>3 DEF Fair
<1>3. CASE PassOver \/ TooBig
  <2>1. /\ UNCHANGED <<documents, order, indexes, pass, selected, remaining>>
        /\ group' = group + 1
    BY <1>3 DEF PassOver, TooBig, arguments, groups
  <2>2. group \in Nat /\ pass \in Nat
    BY <1>a DEF TypeOK
  <2>3. ~HasOffer \/ ~Fits(Chunk(group, pass))
    BY <1>3 DEF PassOver, TooBig, Offered, Chunk
  <2>4. \A n, p \in Nat : Past(n, p) => Past(n, p)'
    BY <2>1, <2>2 DEF Past
  <2>5. ASSUME NEW n \in Nat, NEW p \in Nat, Slot(n, p), Past(n, p)', ~Past(n, p)
        PROVE  ~Fits(Chunk(n, p))
    <3>1. p < pass \/ (p = pass /\ n < group + 1)
      BY <2>1, <2>5 DEF Past
    <3>2. n = group /\ p = pass
      BY <2>2, <2>5, <3>1 DEF Past
    <3>3. pass \in 1..Len(indexes[order[group]])
      BY <2>5, <3>2 DEF Slot
    <3>4. order[group] \in Sections
      BY <1>a, <2>5, <3>2, SlotTyped
    <3>5. HasOffer
      BY <1>a, <3>3, <3>4, ChunkTyped DEF HasOffer
    <3> QED
      BY <2>3, <3>2, <3>5
  <2> QED
    BY <1>a, <2>1, <2>4, <2>5, PassingKeepsFair
<1>4. CASE Take
  BY <1>a, <1>4, TakeKeepsFair
<1>5. CASE NextPass
  <2>1. /\ UNCHANGED <<documents, order, indexes, selected, remaining>>
        /\ group > Len(order) /\ group' = 1 /\ pass' = pass + 1
    BY <1>5 DEF NextPass, arguments, groups
  <2>2. group \in Nat /\ pass \in Nat /\ Len(order) \in Nat
    BY <1>a DEF TypeOK
  <2>3. ASSUME NEW n \in Nat, NEW p \in Nat, Slot(n, p)
        PROVE  Past(n, p)' <=> Past(n, p)
    <3>1. n \in 1..Len(order)
      BY <2>3 DEF Slot
    <3>2. Past(n, p)' <=> p < pass + 1 \/ (p = pass + 1 /\ n < 1)
      BY <2>1 DEF Past
    <3> QED
      BY <2>1, <2>2, <3>1, <3>2 DEF Past
  <2> QED
    BY <1>a, <2>1, <2>3, PassingKeepsFair
<1> QED
  BY <1>1, <1>2, <1>3, <1>4, <1>5
  DEF Next, ReturnInput, StartGrouping, StartPasses, StartKeeping,
     KeepDocument, Return, Returned, arguments, groups, vars

\* Every step keeps what holds of its phase.
LEMMA NextPhases == IInv /\ [Next]_vars => Phases'
<1> SUFFICES ASSUME IInv, [Next]_vars PROVE Phases'
  OBVIOUS
<1>a. TypeOK /\ Phases
  BY DEF IInv
<1>b. /\ Len(documents) \in Nat /\ at \in Nat
      /\ \A k \in selected : k \in Nat /\ k >= 1 /\ k <= Len(documents)
  BY <1>a DEF TypeOK, Positions
<1>1. CASE ReturnInput
  BY <1>a, <1>1 DEF Phases, ReturnInput, arguments, TypeOK
<1>2. CASE StartGrouping
  <2>1. GroupedUpTo'
    BY <1>a, <1>2 DEF Phases, StartGrouping, GroupedUpTo, Seen, Positions,
       arguments, groups
  <2> QED
    BY <1>a, <1>2, <2>1 DEF Phases, StartGrouping, arguments
<1>3. CASE GroupDocument
  <2>1. GroupedUpTo'
    BY <1>a, <1>3, GroupKeepsGroupedUpTo DEF Phases, GroupDocument
  <2> QED
    BY <1>a, <1>3, <2>1 DEF Phases, GroupDocument, arguments
<1>4. CASE StartPasses
  <2>1. AllGrouped'
    BY <1>a, <1>b, <1>4 DEF Phases, StartPasses, GroupedUpTo, AllGrouped,
       Positions, arguments, groups
  <2> QED
    BY <1>a, <1>4, <2>1 DEF Phases, StartPasses, arguments
<1>5. CASE PassOver \/ TooBig \/ Take \/ NextPass
  <2>1. AllGrouped'
    BY <1>a, <1>5 DEF Phases, PassOver, TooBig, Take, NextPass, Offering,
       AllGrouped, Positions, arguments, groups
  <2> QED
    BY <1>a, <1>5, <2>1 DEF Phases, PassOver, TooBig, Take, NextPass, Offering,
       arguments
<1>6. CASE StartKeeping
  <2>1. AllGrouped'
    BY <1>a, <1>6 DEF Phases, StartKeeping, AllGrouped, Positions, arguments,
       groups
  <2>2. AllOffered'
    <3>1. ASSUME NEW n \in Nat, NEW p \in Nat, Slot(n, p) PROVE p < pass
      <4>1. Len(indexes[order[n]]) \in Nat
        BY <1>a, <3>1, SlotTyped, ChunkTyped
      <4> QED
        BY <1>a, <1>6, <3>1, <4>1 DEF StartKeeping, MorePasses, Slot, TypeOK
    <3> QED
      BY <1>6, <3>1 DEF AllOffered, Slot, Past, StartKeeping, groups
  <2>3. Kept' = {k \in selected' : k < at'}
    <3>1. kept' = <<>> /\ at' = 1 /\ selected' = selected
      BY <1>a, <1>6 DEF Phases, StartKeeping
    <3>2. Kept' = {}
      BY <3>1 DEF Kept
    <3> QED
      BY <1>b, <3>1, <3>2
  <2> QED
    BY <1>a, <1>6, <2>1, <2>2, <2>3 DEF Phases, StartKeeping, arguments
<1>7. CASE KeepDocument
  <2>1. AllGrouped'
    BY <1>a, <1>7 DEF Phases, KeepDocument, AllGrouped, Positions, arguments,
       groups
  <2>2. AllOffered'
    BY <1>a, <1>7 DEF Phases, KeepDocument, AllOffered, Slot, Past, groups
  <2>3. Kept' = {k \in selected : k < at + 1}
    <3>1. Kept = {k \in selected : k < at} /\ kept \in Seq(Positions)
      BY <1>a, <1>7 DEF Phases, KeepDocument, TypeOK
    <3>2. CASE at \in selected
      <4>1. kept' = Append(kept, at)
        BY <1>7, <3>2 DEF KeepDocument
      <4>2. /\ Len(kept) \in Nat /\ Len(kept') = Len(kept) + 1
            /\ kept'[Len(kept) + 1] = at
            /\ \A n \in 1..Len(kept) : kept'[n] = kept[n]
        BY <3>1, <4>1
      <4>3. Kept' = Kept \cup {at}
        BY <4>2 DEF Kept
      <4> QED
        <5>1. \A k \in selected : k < at + 1 <=> k < at \/ k = at
          BY <1>b
        <5> QED
          BY <3>1, <3>2, <4>3, <5>1
    <3>3. CASE at \notin selected
      <4>1. Kept' = Kept
        BY <1>7, <3>3 DEF KeepDocument, Kept
      <4> QED
        BY <1>b, <3>1, <3>3, <4>1
    <3> QED
      BY <3>2, <3>3
  <2> QED
    BY <1>a, <1>7, <2>1, <2>2, <2>3 DEF Phases, KeepDocument, arguments
<1>8. CASE Return
  <2>1. AllGrouped' /\ AllOffered' /\ Kept' = Kept
    BY <1>a, <1>8 DEF Phases, Return, AllGrouped, AllOffered, Slot, Past,
       Positions, Kept, arguments, groups
  <2>2. Kept = selected
    <3>1. Kept = {k \in selected : k < at} /\ at > Len(documents)
      BY <1>a, <1>8 DEF Phases, Return
    <3> QED
      BY <1>b, <3>1
  <2> QED
    BY <1>a, <1>8, <2>1, <2>2 DEF Phases, Return, arguments
<1>9. CASE UNCHANGED vars
  BY <1>a, <1>9 DEF vars, Phases, GroupedUpTo, Seen, AllGrouped, AllOffered,
     Slot, Past, Positions, Kept
<1> QED
  BY <1>1, <1>2, <1>3, <1>4, <1>5, <1>6, <1>7, <1>8, <1>9 DEF Next, Returned

------------------------------------------------------------------------------
(* What is paid for.                                                         *)

\* What each document costs, and each of the positions of a list.
Costs == [k \in Positions |-> Estimate(documents[k])]

CostsOf(list) == [n \in DOMAIN list |-> Estimate(documents[list[n]])]

\* The documents taken so far are paid for from the budget, and the list that
\* is collected costs what its documents do.
Paid ==
    /\ Total(Costs, selected) + remaining = budget
    /\ phase = "keep" =>
          EstimateAll(kept) = Total(Costs, {k \in selected : k < at})
    /\ phase = "done" /\ budget > 0 =>
          EstimateAll(kept) = Total(Costs, selected)

\* The documents are finitely many and none costs less than nothing.
LEMMA CostsTyped ==
    ASSUME TypeOK
    PROVE  IsFiniteSet(Positions) /\ Costs \in [Positions -> Nat]
<1>1. Len(documents) \in Nat
  BY DEF TypeOK
<1>2. IsFiniteSet(Positions)
  BY <1>1, FS_Interval DEF Positions
<1>3. \A k \in Positions : Estimate(documents[k]) \in Nat
  BY DocumentTyped DEF Estimate, chunkOverhead
<1> QED
  BY <1>2, <1>3 DEF Costs

\* The same of a list of them.
LEMMA CostsOfTyped ==
    ASSUME TypeOK, NEW list \in Seq(Positions)
    PROVE  /\ IsFiniteSet(DOMAIN list) /\ Len(list) \in Nat
           /\ DOMAIN list = 1..Len(list)
           /\ \A n \in 1..Len(list) : list[n] \in Positions
           /\ CostsOf(list) \in [DOMAIN list -> Nat]
<1>1. /\ Len(list) \in Nat /\ DOMAIN list = 1..Len(list)
      /\ \A n \in DOMAIN list : list[n] \in Positions
  OBVIOUS
<1>2. IsFiniteSet(DOMAIN list)
  BY <1>1, FS_Interval
<1>3. \A n \in DOMAIN list : Estimate(documents[list[n]]) \in Nat
  BY <1>1, DocumentTyped DEF Estimate, chunkOverhead
<1> QED
  BY <1>1, <1>2, <1>3 DEF CostsOf

\* EstimateAll adds up the costs of its list.
LEMMA EstimateIsTotal ==
    ASSUME TypeOK, NEW list \in Seq(Positions)
    PROVE  EstimateAll(list) = Total(CostsOf(list), DOMAIN list)
<1> DEFINE R == DOMAIN list
           a == CostsOf(list)
           Solution(it) ==
             it = [s \in SUBSET R |->
                     IF s = {} THEN 0
                     ELSE Estimate(documents[list[CHOOSE x \in s : TRUE]])
                          + it[s \ {CHOOSE x \in s : TRUE}]]
<1>1. EstimateAll(list) = (CHOOSE it : Solution(it))[R]
  BY DEF EstimateAll, MapThenSumSet, MapThenFoldSet
<1>2. ASSUME NEW it PROVE Solution(it) <=> Sums(it, R, a)
  <2>1. \A s \in SUBSET R : s # {} =>
          a[Pick(s)] = Estimate(documents[list[Pick(s)]])
    BY Picked DEF CostsOf
  <2>2. Solution(it) <=>
          it = [s \in SUBSET R |->
                  IF s = {} THEN 0
                  ELSE Estimate(documents[list[Pick(s)]]) + it[s \ {Pick(s)}]]
    BY DEF Pick
  <2> HIDE DEF Solution, a, R
  <2> QED
    BY <2>1, <2>2 DEF Sums
<1> HIDE DEF Solution
<1>3. IsFiniteSet(R) /\ a \in [R -> Nat]
  BY CostsOfTyped
<1> HIDE DEF a, R
<1>4. \E it : Solution(it)
  <2>1. \E it : Sums(it, R, a)
    BY <1>3, SumsExist
  <2> QED
    BY <1>2, <2>1
<1>5. Solution(CHOOSE it : Solution(it))
  BY <1>4
<1> QED
  BY <1>1, <1>2, <1>3, <1>5, TotalIs DEF R, a

\* In particular, of the list that is collected.
LEMMA KeptIsTotal ==
    TypeOK => EstimateAll(kept) = Total(CostsOf(kept), DOMAIN kept)
  BY EstimateIsTotal DEF TypeOK

\* Nothing costs nothing.
LEMMA NothingCosts ==
    ASSUME TypeOK
    PROVE  EstimateAll(<<>>) = 0 /\ Total(Costs, {}) = 0
<1>1. Total(Costs, {}) = 0
  BY CostsTyped, TotalEmpty
<1>2. <<>> \in Seq(Positions) /\ DOMAIN <<>> = {}
  OBVIOUS
<1>3. EstimateAll(<<>>) = Total(CostsOf(<<>>), {})
  BY <1>2, EstimateIsTotal
<1>4. CostsOf(<<>>) \in [{} -> Nat] /\ IsFiniteSet({})
  BY <1>2, CostsOfTyped
<1>5. Total(CostsOf(<<>>), {}) = 0
  BY <1>4, TotalEmpty
<1> QED
  BY <1>1, <1>3, <1>5

\* One more document adds its cost.
LEMMA EstimateAppend ==
    ASSUME TypeOK, NEW list \in Seq(Positions), NEW k \in Positions
    PROVE  EstimateAll(Append(list, k)) = EstimateAll(list) + Costs[k]
<1> DEFINE more == Append(list, k)
           N == Len(list)
           b == CostsOf(more)
           a == CostsOf(list)
<1>1. /\ more \in Seq(Positions) /\ Len(more) = N + 1 /\ more[N + 1] = k
      /\ \A n \in 1..N : more[n] = list[n]
  OBVIOUS
<1>2. /\ IsFiniteSet(DOMAIN list) /\ N \in Nat /\ DOMAIN list = 1..N
      /\ a \in [DOMAIN list -> Nat]
  BY CostsOfTyped
<1> HIDE DEF more
<1>3. /\ IsFiniteSet(DOMAIN more) /\ DOMAIN more = 1..Len(more)
      /\ b \in [DOMAIN more -> Nat]
  BY <1>1, CostsOfTyped
<1>4. /\ N + 1 \in DOMAIN more /\ DOMAIN more \ {N + 1} = DOMAIN list
      /\ DOMAIN list \subseteq DOMAIN more
  BY <1>1, <1>2, <1>3
<1>5. \A n \in DOMAIN list : b[n] = a[n]
  BY <1>1, <1>2, <1>4 DEF CostsOf
<1>6. b[N + 1] = Costs[k]
  BY <1>1, <1>4 DEF CostsOf, Costs
<1> HIDE DEF a, b, N
<1>7. Total(b, DOMAIN list) = Total(a, DOMAIN list)
  <2>1. DOMAIN list \in SUBSET (DOMAIN more \cap DOMAIN list)
    BY <1>4
  <2>2. IsFiniteSet(DOMAIN list) /\ a \in [DOMAIN list -> Nat]
    BY <1>2
  <2>3. IsFiniteSet(DOMAIN more) /\ b \in [DOMAIN more -> Nat]
    BY <1>3
  <2> QED
    BY <1>5, <2>1, <2>2, <2>3, TotalAgrees
<1>8. Total(b, DOMAIN more) = b[N + 1] + Total(b, DOMAIN list)
  <2>1. DOMAIN more \in SUBSET DOMAIN more
    OBVIOUS
  <2>2. Total(b, DOMAIN more)
          = b[N + 1] + Total(b, DOMAIN more \ {N + 1})
    BY <1>3, <1>4, <2>1, TotalRemove
  <2> QED
    BY <1>4, <2>2
<1>9. /\ EstimateAll(more) = Total(b, DOMAIN more)
      /\ EstimateAll(list) = Total(a, DOMAIN list)
  BY <1>1, EstimateIsTotal DEF a, b
<1>10. Total(a, DOMAIN list) \in Nat /\ Costs[k] \in Nat
  <2>1. DOMAIN list \in SUBSET DOMAIN list
    OBVIOUS
  <2> QED
    BY <1>2, <2>1, CostsTyped, TotalNat
<1>11. EstimateAll(more) = EstimateAll(list) + Costs[k]
  BY <1>6, <1>7, <1>8, <1>9, <1>10
<1> QED
  BY <1>11 DEF more

\* A document that joins a set adds its cost.
LEMMA CostsJoin ==
    ASSUME TypeOK, NEW s \in SUBSET Positions, NEW k \in Positions, k \notin s
    PROVE  /\ Total(Costs, s \cup {k}) = Total(Costs, s) + Costs[k]
           /\ Total(Costs, s) \in Nat /\ Costs[k] \in Nat
<1>1. s \cup {k} \in SUBSET Positions /\ (s \cup {k}) \ {k} = s
      /\ k \in s \cup {k}
  OBVIOUS
<1>2. Total(Costs, s \cup {k}) = Costs[k] + Total(Costs, (s \cup {k}) \ {k})
  BY <1>1, CostsTyped, TotalRemove
<1>3. Total(Costs, s) \in Nat /\ Costs[k] \in Nat
  BY CostsTyped, TotalNat
<1>4. Total(Costs, s \cup {k}) = Costs[k] + Total(Costs, s)
  BY <1>1, <1>2
<1> QED
  BY <1>3, <1>4

\* The chunk the round-robin takes was not taken before.
LEMMA TakesNew ==
    ASSUME IInv, Take
    PROVE  Offered \in Positions /\ Offered \notin selected
<1>1. TypeOK /\ Fair
  BY DEF IInv
<1>2. group \in Nat /\ pass \in Nat /\ Slot(group, pass)
      /\ Offered = Chunk(group, pass)
  BY <1>1, OfferSlot DEF Take, IInv
<1>3. ~Past(group, pass)
  BY <1>2 DEF Past
<1> QED
  BY <1>1, <1>2, <1>3, SlotTyped DEF Fair

\* Nothing is paid for at first.
LEMMA InitPaid == Init => Paid
<1> SUFFICES ASSUME Init PROVE Paid
  OBVIOUS
<1>1. TypeOK
  BY InitIInv DEF IInv
<1>2. Total(Costs, {}) = 0
  BY <1>1, NothingCosts
<1> QED
  BY <1>1, <1>2 DEF Init, Paid, TypeOK

\* Every step pays for what it takes.
LEMMA NextPaid == IInv /\ Paid /\ [Next]_vars => Paid'
<1> SUFFICES ASSUME IInv, Paid, [Next]_vars PROVE Paid'
  OBVIOUS
<1>a. TypeOK /\ Phases
  BY DEF IInv
<1>b. UNCHANGED <<documents, budget>>
  BY DEF Next, vars, ReturnInput, StartGrouping, GroupDocument, StartPasses,
     PassOver, TooBig, Take, NextPass, StartKeeping, KeepDocument, Return,
     Returned, arguments
<1>c. Costs' = Costs
  BY <1>b DEF Costs, Positions, Estimate
<1>d. IInv' /\ TypeOK'
  BY NextType, NextGrouped, NextFair, NextPhases DEF IInv
<1>e. (EstimateAll(kept) = Total(CostsOf(kept), DOMAIN kept))'
  BY <1>d, KeptIsTotal, PTL
<1>f. ASSUME NEW list \in Seq(Positions), kept' = list
      PROVE  EstimateAll(kept)' = EstimateAll(list)
  <2>1. EstimateAll(kept)' = Total(CostsOf(kept)', DOMAIN kept')
    BY <1>e
  <2>2. CostsOf(kept)' = CostsOf(list)
    BY <1>b, <1>f DEF CostsOf, Estimate
  <2>3. EstimateAll(list) = Total(CostsOf(list), DOMAIN list)
    BY <1>a, EstimateIsTotal
  <2> QED
    BY <1>f, <2>1, <2>2, <2>3
<1>g. kept \in Seq(Positions) /\ selected \in SUBSET Positions
      /\ remaining \in Int /\ budget \in Int /\ at \in Nat
      /\ Len(documents) \in Nat
  BY <1>a DEF TypeOK
<1>h. \A k \in selected :
        k \in Nat /\ k >= 1 /\ k <= Len(documents) /\ k \in Positions
  <2>1. selected \subseteq Positions
    BY <1>g
  <2> QED
    BY <2>1 DEF Positions
<1> DEFINE Upto(k) == {j \in selected : j < k}
<1>1. CASE ReturnInput
  <2>1. UNCHANGED <<selected, remaining>> /\ phase' = "done"
        /\ (budget > 0 => documents = <<>>)
        /\ kept' = [k \in Positions |-> k]
    BY <1>g, <1>1 DEF ReturnInput
  <2>2. ASSUME budget > 0
        PROVE  EstimateAll(kept)' = Total(Costs, selected)
    <3>1. Positions = {}
      BY <2>1, <2>2 DEF Positions
    <3>2. kept' = <<>>
      BY <2>1, <3>1
    <3>3. <<>> \in Seq(Positions)
      OBVIOUS
    <3>4. EstimateAll(kept)' = EstimateAll(<<>>)
      BY <1>f, <3>2, <3>3
    <3>5. selected = {}
      BY <1>g, <3>1
    <3> QED
      BY <1>a, <3>4, <3>5, NothingCosts
  <2> QED
    BY <1>b, <1>c, <2>1, <2>2 DEF Paid
<1>2. CASE StartGrouping \/ GroupDocument \/ StartPasses \/ PassOver
           \/ TooBig \/ NextPass
  BY <1>b, <1>c, <1>2
  DEF Paid, StartGrouping, GroupDocument, StartPasses, PassOver, TooBig,
      NextPass, Offering
<1>3. CASE Take
  <2>1. Offered \in Positions /\ Offered \notin selected
    BY <1>3, TakesNew
  <2>2. /\ phase' = "offer"
        /\ selected' = selected \cup {Offered}
        /\ remaining' = remaining - Costs[Offered]
    BY <1>3, <2>1 DEF Take, Offering, Costs
  <2>3. /\ Total(Costs, selected \cup {Offered})
             = Total(Costs, selected) + Costs[Offered]
        /\ Total(Costs, selected) \in Nat /\ Costs[Offered] \in Nat
    BY <1>a, <1>g, <2>1, CostsJoin
  <2>4. Total(Costs, selected') = Total(Costs, selected) + Costs[Offered]
    BY <2>2, <2>3
  <2>5. Total(Costs, selected) + remaining = budget
    BY DEF Paid
  <2>6. Total(Costs, selected') + remaining' = budget
    BY <1>g, <2>2, <2>3, <2>4, <2>5
  <2> QED
    BY <1>b, <1>c, <2>2, <2>6 DEF Paid
<1>4. CASE StartKeeping
  <2>1. UNCHANGED <<selected, remaining, kept>> /\ phase' = "keep" /\ at' = 1
        /\ kept = <<>>
    BY <1>a, <1>4 DEF StartKeeping, Phases
  <2>2. EstimateAll(kept)' = EstimateAll(<<>>)
    BY <1>f, <1>g, <2>1
  <2>3. Upto(1) = {}
    BY <1>h
  <2>4. EstimateAll(kept)' = Total(Costs, Upto(1))
    BY <1>a, <2>2, <2>3, NothingCosts
  <2> QED
    BY <1>b, <1>c, <2>1, <2>4 DEF Paid
<1>5. CASE KeepDocument
  <2>1. /\ UNCHANGED <<selected, remaining>> /\ phase = "keep" /\ phase' = "keep"
        /\ at' = at + 1 /\ at <= Len(documents)
        /\ kept' = IF at \in selected THEN Append(kept, at) ELSE kept
    BY <1>5 DEF KeepDocument
  <2>2. at \in Positions
    BY <1>a, <2>1 DEF TypeOK, Positions
  <2>3. EstimateAll(kept) = Total(Costs, Upto(at))
    BY <2>1 DEF Paid
  <2>4. EstimateAll(kept)' = Total(Costs, Upto(at + 1))
    <3>1. \A k \in selected : k \in Nat
      BY <1>h
    <3>2. CASE at \in selected
      <4>0. \A k \in selected : k < at + 1 <=> k < at \/ k = at
        BY <1>g, <3>1
      <4>1. /\ Upto(at + 1) = Upto(at) \cup {at} /\ at \notin Upto(at)
            /\ Upto(at) \in SUBSET Positions
        <5>1. Upto(at + 1) = Upto(at) \cup {at}
          BY <3>2, <4>0
        <5>2. ~(at < at)
          BY <1>g
        <5>3. at \notin Upto(at)
          BY <5>2
        <5>4. Upto(at) \in SUBSET Positions
          BY <1>h
        <5> QED
          BY <5>1, <5>3, <5>4
      <4>2. Append(kept, at) \in Seq(Positions)
        BY <1>g, <2>2
      <4>3. EstimateAll(kept)' = EstimateAll(Append(kept, at))
        BY <1>f, <2>1, <3>2, <4>2
      <4>4. EstimateAll(Append(kept, at)) = EstimateAll(kept) + Costs[at]
        BY <1>a, <1>g, <2>2, EstimateAppend
      <4> HIDE DEF Upto
      <4>5. Total(Costs, Upto(at) \cup {at}) = Total(Costs, Upto(at)) + Costs[at]
        BY <1>a, <2>2, <4>1, CostsJoin
      <4> QED
        BY <2>3, <4>1, <4>3, <4>4, <4>5
    <3>3. CASE at \notin selected
      <4>1. Upto(at + 1) = Upto(at)
        BY <1>g, <3>1, <3>3
      <4>2. EstimateAll(kept)' = EstimateAll(kept)
        BY <1>f, <1>g, <2>1, <3>3
      <4> QED
        BY <2>3, <4>1, <4>2
    <3> QED
      BY <3>2, <3>3
  <2> QED
    BY <1>b, <1>c, <2>1, <2>4 DEF Paid
<1>6. CASE Return
  <2>1. UNCHANGED <<selected, remaining, kept>> /\ phase = "keep"
        /\ phase' = "done" /\ at > Len(documents)
    BY <1>6 DEF Return
  <2>2. Upto(at) = selected
    <3>1. \A k \in selected : k < at
      BY <1>g, <1>h, <2>1
    <3> QED
      BY <3>1
  <2>3. EstimateAll(kept) = Total(Costs, selected)
    BY <2>1, <2>2 DEF Paid
  <2>4. EstimateAll(kept)' = EstimateAll(kept)
    BY <1>f, <1>g, <2>1
  <2> QED
    BY <1>b, <1>c, <2>1, <2>3, <2>4 DEF Paid
<1>7. CASE UNCHANGED vars
  <2>1. UNCHANGED <<phase, at, selected, remaining, kept>>
    BY <1>7 DEF vars
  <2>2. EstimateAll(kept)' = EstimateAll(kept)
    BY <1>f, <1>g, <2>1
  <2> QED
    BY <1>b, <1>c, <2>1, <2>2 DEF Paid
<1> QED
  BY <1>1, <1>2, <1>3, <1>4, <1>5, <1>6, <1>7 DEF Next, Returned

------------------------------------------------------------------------------
\* The inductive invariant holds in every reachable state.
THEOREM Invariance == Spec => []IInv
<1>1. IInv /\ [Next]_vars => IInv'
  BY NextType, NextGrouped, NextFair, NextPhases DEF IInv
<1> QED
  BY <1>1, InitIInv, PTL DEF Spec

\* In every reachable state what was taken is paid for from the budget.
THEOREM Spending == Spec => []Paid
<1> QED
  BY InitIInv, InitPaid, NextPaid, Invariance, PTL DEF Spec

\* budget.go: "It never returns a selection whose estimated size exceeds the
\* budget", whatever the documents and the budget, the estimate of the result
\* summed anew.
THEOREM KeptWithinBudget == Spec => []WithinBudget
<1>1. IInv /\ Paid => WithinBudget
  <2> SUFFICES ASSUME IInv, Paid, phase = "done", budget > 0
               PROVE  EstimateAll(kept) <= budget
    BY DEF WithinBudget
  <2>1. TypeOK /\ remaining \in Int /\ remaining >= 0
        /\ selected \in SUBSET Positions
    BY DEF IInv, TypeOK
  <2>2. Total(Costs, selected) \in Nat
    BY <2>1, CostsTyped, TotalNat
  <2> QED
    BY <2>1, <2>2 DEF Paid
<1> QED
  BY <1>1, Invariance, Spending, PTL

\* The types hold for every input, among them that a positive budget is never
\* overdrawn by the loop that charges each chunk to it.
THEOREM TypeCorrect == Spec => []TypeOK
<1>1. IInv => TypeOK
  BY DEF IInv
<1> QED
  BY <1>1, Invariance, PTL

\* Whatever the documents and the budget, Build leaves nothing out that would
\* still fit.
THEOREM SpendsAll == Spec => []Maximal
<1>1. IInv => Maximal
  <2> SUFFICES ASSUME IInv, phase = "done", budget > 0, NEW k \in Positions,
                      k \notin Kept
               PROVE  ~Fits(k)
    BY DEF Maximal
  <2>1. Positions # {}
    OBVIOUS
  <2>2. documents # <<>>
    BY <2>1 DEF Positions
  <2>3. AllGrouped /\ AllOffered /\ k \notin selected
    BY <2>2 DEF IInv, Phases
  <2>4. PICK n \in Nat, p \in Nat : Slot(n, p) /\ Chunk(n, p) = k
    BY <2>3, HasSlot DEF IInv
  <2> QED
    BY <2>3, <2>4 DEF IInv, Fair, AllOffered
<1> QED
  BY <1>1, Invariance, PTL

\* Whatever the documents and the budget, a document Build leaves out is larger
\* than every kept one it precedes.
THEOREM SpendsFairly == Spec => []NoEnvy
<1>1. IInv => NoEnvy
  <2> SUFFICES ASSUME IInv, phase = "done", budget > 0,
                      NEW j \in Positions, NEW k \in Positions,
                      Precedes(j, k), j \notin Kept, k \in Kept
               PROVE  Estimate(documents[k]) < Estimate(documents[j])
    BY DEF NoEnvy
  <2>a. TypeOK /\ SectionsGrouped
    BY DEF IInv
  <2>1. documents # <<>>
    BY DEF Positions
  <2>2. AllGrouped /\ Kept = selected
    BY <2>1 DEF IInv, Phases
  <2>3. PICK n \in Nat, p \in Nat : Slot(n, p) /\ Chunk(n, p) = j
    BY <2>2, HasSlot DEF IInv
  <2>4. PICK m \in Nat, q \in Nat : Slot(m, q) /\ Chunk(m, q) = k
    BY <2>2, HasSlot DEF IInv
  <2>5. Cardinality(Siblings(j)) = p - 1 /\ Cardinality(Siblings(k)) = q - 1
    BY <2>a, <2>3, <2>4, SlotHolds
  <2>6. OfferedBefore(n, p, m, q)
    <3>1. CASE Cardinality(Siblings(j)) < Cardinality(Siblings(k))
      BY <2>5, <3>1 DEF OfferedBefore
    <3>2. CASE Cardinality(Siblings(j)) = Cardinality(Siblings(k)) /\ Outranks(j, k)
      <4>1. order[n] = documents[j].section /\ order[m] = documents[k].section
        BY <2>a, <2>3, <2>4, SlotHolds
      <4>2. PICK f \in Positions :
              /\ documents[f].section = order[n]
              /\ \A h \in Positions : documents[h].section = order[m] => f < h
        BY <3>2, <4>1 DEF Outranks
      <4>3. PICK r \in 1..Len(indexes[order[n]]) : indexes[order[n]][r] = f
        BY <2>2, <4>2 DEF AllGrouped
      <4>4. order[n] \in Sections /\ order[m] \in Sections
            /\ indexes[order[n]][1] \in Positions
            /\ indexes[order[m]][1] \in Positions
        BY <2>a, <2>3, <2>4, SlotTyped
      <4>5. indexes[order[n]][1] <= f
        BY <2>a, <4>3, <4>4 DEF SectionsGrouped, BestFirst
      <4>6. documents[indexes[order[m]][1]].section = order[m]
        <5>1. 1 \in 1..Len(indexes[order[m]])
          BY <2>a, <2>4, <4>4, ChunkTyped, SlotTyped
        <5> QED
          BY <2>a, <4>4, <5>1 DEF SectionsGrouped, InOwnSection
      <4>7. f < indexes[order[m]][1]
        BY <4>2, <4>4, <4>6
      <4>8. f \in Nat /\ indexes[order[n]][1] \in Nat /\ indexes[order[m]][1] \in Nat
        BY <4>2, <4>4 DEF Positions
      <4>9. ~(indexes[order[m]][1] < indexes[order[n]][1]) /\ n # m
        BY <4>5, <4>7, <4>8
      <4>10. ~(m < n)
        BY <2>a, <2>3, <2>4, <4>9 DEF SectionsGrouped, OrderSorted, Slot
      <4>11. p = q
        BY <2>5, <3>2
      <4> QED
        BY <4>9, <4>10, <4>11 DEF OfferedBefore
    <3> QED
      BY <3>1, <3>2 DEF Precedes
  <2> QED
    BY <2>2, <2>3, <2>4, <2>6 DEF IInv, Fair
<1> QED
  BY <1>1, Invariance, PTL
==============================================================================
