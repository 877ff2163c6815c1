---------------------------- MODULE ContextBudget ----------------------------
(***************************************************************************)
(* internal/contextbudget/budget.go: Build, the greedy selection of ranked  *)
(* chunks that fit a byte budget.  The documents are first grouped by       *)
(* section, in order of first appearance; then, pass after pass, every      *)
(* section is offered one more of its chunks, and a chunk is taken when it  *)
(* fits what is left.                                                       *)
(*                                                                          *)
(* A document is the pair (section key, content length): the only fields    *)
(* Build and Estimate read.  Documents are named by their input positions,  *)
(* counted from 1 as passes and groups are.                                 *)
(***************************************************************************)
EXTENDS Integers, Sequences, FiniteSets, FiniteSetsExt

CONSTANTS Sections,         \* the (source, section) keys
          Sizes,            \* the content lengths
          MaxDocuments,     \* bound on the number of documents
          Budgets           \* the values of the budget argument

ASSUME BudgetAssumption ==
    /\ Sizes \subseteq Nat
    /\ MaxDocuments \in Nat
    /\ Budgets \subseteq Int

VARIABLES documents, budget,    \* the arguments
          phase,                \* "start", "group", "offer", "keep", "done"
          at,                   \* the document the grouping or keeping loop is at
          order,                \* the sections in order of first appearance
          indexes,              \* the documents of each section, in rank order
          pass, group,          \* the round-robin's two loop indices
          selected,             \* the documents taken
          remaining,            \* what is left of the budget
          kept                  \* the documents returned, by position

vars == <<documents, budget, phase, at, order, indexes, pass, group, selected,
          remaining, kept>>

arguments == <<documents, budget>>
groups    == <<order, indexes>>

Positions == 1..Len(documents)

chunkOverhead == 16

Estimate(doc) == doc.size + chunkOverhead

EstimateAll(positions) ==
    MapThenSumSet(LAMBDA k : Estimate(documents[positions[k]]),
                  DOMAIN positions)

Init ==
    /\ documents \in UNION {[1..n -> [section : Sections, size : Sizes]] :
                              n \in 0..MaxDocuments}
    /\ budget \in Budgets
    /\ phase = "start"
    /\ at = 1
    /\ order = <<>>
    /\ indexes = [s \in Sections |-> <<>>]
    /\ pass = 1
    /\ group = 1
    /\ selected = {}
    /\ remaining = budget
    /\ kept = <<>>

------------------------------------------------------------------------------
(* Grouping.  A section enters the order with its first document.            *)

\* Faulty variant: new sections go to the front.
OrderWithReversed(s) == IF indexes[s] = <<>> THEN <<s>> \o order ELSE order

OrderWith(s) == IF indexes[s] = <<>> THEN Append(order, s) ELSE order

\* No budget or no document: the input is returned unchanged.
ReturnInput ==
    /\ phase = "start"
    /\ budget <= 0 \/ documents = <<>>
    /\ phase' = "done"
    /\ kept' = [k \in Positions |-> k]
    /\ UNCHANGED <<arguments, groups, at, pass, group, selected, remaining>>

StartGrouping ==
    /\ phase = "start"
    /\ budget > 0
    /\ documents # <<>>
    /\ phase' = "group"
    /\ UNCHANGED <<arguments, groups, at, pass, group, selected, remaining, kept>>

GroupDocument ==
    /\ phase = "group"
    /\ at <= Len(documents)
    /\ LET s == documents[at].section
       IN  /\ order' = OrderWith(s)
           /\ indexes' = [indexes EXCEPT ![s] = Append(@, at)]
    /\ at' = at + 1
    /\ UNCHANGED <<arguments, phase, pass, group, selected, remaining, kept>>

StartPasses ==
    /\ phase = "group"
    /\ at > Len(documents)
    /\ phase' = "offer"
    /\ UNCHANGED <<arguments, groups, at, pass, group, selected, remaining, kept>>

------------------------------------------------------------------------------
(* The round-robin.                                                          *)

\* pass < maxPasses: some section has a chunk left for this pass.
MorePasses == \E g \in 1..Len(order) : pass <= Len(indexes[order[g]])

Offering == phase = "offer" /\ MorePasses

\* The current section has a chunk for this pass, and it is this one.
HasOffer == pass <= Len(indexes[order[group]])
Offered  == indexes[order[group]][pass]

\* Faulty variant: the overhead is forgotten in the comparison.
FitsContentOnly(k) == documents[k].size <= remaining

\* The negation of "cost > remaining".
Fits(k) == Estimate(documents[k]) <= remaining

\* A section with no chunk left for this pass is passed over.
PassOver ==
    /\ Offering
    /\ group <= Len(order)
    /\ ~HasOffer
    /\ group' = group + 1
    /\ UNCHANGED <<arguments, groups, phase, at, pass, selected, remaining, kept>>

\* Faulty variant: a chunk that does not fit ends its pass ("break").
TooBigBreaks ==
    /\ Offering
    /\ group <= Len(order)
    /\ HasOffer
    /\ ~Fits(Offered)
    /\ group' = Len(order) + 1
    /\ UNCHANGED <<arguments, groups, phase, at, pass, selected, remaining, kept>>

\* A chunk that does not fit is skipped for good.
TooBig ==
    /\ Offering
    /\ group <= Len(order)
    /\ HasOffer
    /\ ~Fits(Offered)
    /\ group' = group + 1
    /\ UNCHANGED <<arguments, groups, phase, at, pass, selected, remaining, kept>>

\* Faulty variant: the chunk is not charged.
TakeUncharged ==
    /\ Offering
    /\ group <= Len(order)
    /\ HasOffer
    /\ Fits(Offered)
    /\ selected' = selected \cup {Offered}
    /\ group' = group + 1
    /\ UNCHANGED <<arguments, groups, phase, at, pass, remaining, kept>>

Take ==
    /\ Offering
    /\ group <= Len(order)
    /\ HasOffer
    /\ Fits(Offered)
    /\ selected' = selected \cup {Offered}
    /\ remaining' = remaining - Estimate(documents[Offered])
    /\ group' = group + 1
    /\ UNCHANGED <<arguments, groups, phase, at, pass, kept>>

NextPass ==
    /\ Offering
    /\ group > Len(order)
    /\ pass' = pass + 1
    /\ group' = 1
    /\ UNCHANGED <<arguments, groups, phase, at, selected, remaining, kept>>

StartKeeping ==
    /\ phase = "offer"
    /\ ~MorePasses
    /\ phase' = "keep"
    /\ at' = 1
    /\ UNCHANGED <<arguments, groups, pass, group, selected, remaining, kept>>

\* The result is collected in the order of the input.
KeepDocument ==
    /\ phase = "keep"
    /\ at <= Len(documents)
    /\ kept' = IF at \in selected THEN Append(kept, at) ELSE kept
    /\ at' = at + 1
    /\ UNCHANGED <<arguments, groups, phase, pass, group, selected, remaining>>

Return ==
    /\ phase = "keep"
    /\ at > Len(documents)
    /\ phase' = "done"
    /\ UNCHANGED <<arguments, groups, at, pass, group, selected, remaining, kept>>

Returned == phase = "done" /\ UNCHANGED vars

Next ==
    \/ ReturnInput \/ StartGrouping \/ GroupDocument \/ StartPasses
    \/ PassOver \/ TooBig \/ Take \/ NextPass
    \/ StartKeeping \/ KeepDocument \/ Return \/ Returned

Spec == Init /\ [][Next]_vars

------------------------------------------------------------------------------
(* Properties, stated on the documents alone.                                *)

\* The variables keep their types; in particular an enabled budget is never
\* overdrawn.
TypeOK ==
    /\ documents \in Seq([section : Sections, size : Sizes])
    /\ budget \in Budgets
    /\ phase \in {"start", "group", "offer", "keep", "done"}
    /\ at \in 1..(Len(documents) + 1)
    /\ order \in Seq(Sections)
    /\ indexes \in [Sections -> Seq(Positions)]
    /\ pass \in Nat \ {0}
    /\ group \in 1..(Len(order) + 1)
    /\ selected \subseteq Positions
    /\ remaining \in Int
    /\ budget > 0 => remaining >= 0
    /\ kept \in Seq(Positions)

\* "It never returns a selection whose estimated size exceeds the budget":
\* the estimate of what Build returns, summed as EstimateAll sums it.
WithinBudget == phase = "done" /\ budget > 0 => EstimateAll(kept) <= budget

Kept == {kept[n] : n \in 1..Len(kept)}

\* Nothing that would still fit is left out: skipping a chunk that is too
\* large does not end the selection for the chunks behind it.
Maximal ==
    phase = "done" /\ budget > 0 =>
        \A k \in Positions : k \in Kept \/ ~Fits(k)

\* The documents of its own section ranked before document k.
Siblings(k) ==
    {j \in 1..(k - 1) : documents[j].section = documents[k].section}

\* A document of j's section is ranked before every document of k's section.
Outranks(j, k) ==
    \E f \in Positions :
        /\ documents[f].section = documents[j].section
        /\ \A h \in Positions :
              documents[h].section = documents[k].section => f < h

\* Document j has a better claim to the budget than k: fewer chunks of its own
\* section come before it or, among the n-th chunks, its section ranks higher.
Precedes(j, k) ==
    \/ Cardinality(Siblings(j)) < Cardinality(Siblings(k))
    \/ /\ Cardinality(Siblings(j)) = Cardinality(Siblings(k))
       /\ Outranks(j, k)

\* The budget is spent fairly: a document that was left out loses to a
\* document it precedes only by being larger.  So no section has a second
\* chunk in the context while another section's first, no larger, is missing,
\* and between sections the higher-ranked one is served first.
NoEnvy ==
    phase = "done" /\ budget > 0 =>
        \A j, k \in Positions :
            Precedes(j, k) /\ j \notin Kept /\ k \in Kept =>
                Estimate(documents[k]) < Estimate(documents[j])
==============================================================================
