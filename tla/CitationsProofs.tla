--------------------------- MODULE CitationsProofs ---------------------------
(***************************************************************************)
(* For every answer and every context: the scan of ParseSpans finds every   *)
(* citation that no unclosed "[" takes into a longer one, Strip removes the *)
(* invalid ones it found and nothing else, and what Strip returns reads as  *)
(* the valid ones.  The induction over the two loops rests on brackets      *)
(* lying apart; the last property needs the least "]" of an interval,       *)
(* because what is removed may hide a "]" that another removal hides too.   *)
(***************************************************************************)
EXTENDS Citations, FiniteSetTheorems, WellFoundedInduction, TLAPS

Less == {ss \in Nat \X Nat : ss[1] < ss[2]}

\* A set of natural numbers has a least element.
LEMMA Least ==
  ASSUME NEW T \in SUBSET Nat, T # {}
  PROVE  \E k \in T : \A l \in T : k <= l
<1>1. IsWellFoundedOn(Less, Nat)
  BY NatLessThanWellFounded DEF OpToRel, Less
<1>2. PICK k \in T : \A l \in T : ~(<<l, k>> \in Less)
  BY <1>1, WFMin
<1>3. ASSUME NEW l \in T PROVE k <= l
  <2>1. ~(<<l, k>> \in Less)
    BY <1>2
  <2>2. k \in Nat /\ l \in Nat
    OBVIOUS
  <2> QED
    BY <2>1, <2>2 DEF Less
<1> QED
  BY <1>3

------------------------------------------------------------------------------
(* Brackets.                                                                 *)

IsAnswer == answer \in Seq(STRING)

AtBracketEnd ==
    offset = 0 \/ (offset \in Positions /\ answer[offset] = Close)

\* A bracket ParseSpans reads.
Scans(b) == b \in Brackets /\ BracketIn(Positions, b)

\* The pairs of positions, spelled out.
LEMMA BracketParts ==
  ASSUME IsAnswer, NEW b \in Brackets
  PROVE  /\ Positions = 1..Len(answer) /\ Len(answer) \in Nat
         /\ b[1] \in Positions /\ b[2] \in Positions
         /\ answer[b[1]] = Open /\ answer[b[2]] = Close
         /\ b = <<b[1], b[2]>>
BY DEF IsAnswer, Positions, Brackets

\* Two brackets ParseSpans reads lie apart.
LEMMA Apart ==
  ASSUME IsAnswer, NEW b, NEW c, Scans(b), Scans(c)
  PROVE  b = c \/ b[2] < c[1] \/ c[2] < b[1]
<1>0. b \in Brackets /\ c \in Brackets
  BY DEF Scans
<1>1. /\ Positions = 1..Len(answer) /\ Len(answer) \in Nat
      /\ b[1] \in Positions /\ b[2] \in Positions /\ b[1] < b[2]
      /\ c[1] \in Positions /\ c[2] \in Positions /\ c[1] < c[2]
      /\ answer[b[1]] = Open /\ answer[b[2]] = Close
      /\ answer[c[1]] = Open /\ answer[c[2]] = Close
      /\ b = <<b[1], b[2]>> /\ c = <<c[1], c[2]>>
  BY <1>0, BracketParts DEF Scans, BracketIn
<1>2. /\ \A k \in Positions : b[1] < k /\ k < b[2] => answer[k] # Close
      /\ \A k \in Positions : c[1] < k /\ k < c[2] => answer[k] # Close
      /\ \A k \in Positions : k < b[1] /\ answer[k] = Open
            => \E m \in Positions : k < m /\ m < b[1] /\ answer[m] = Close
      /\ \A k \in Positions : k < c[1] /\ answer[k] = Open
            => \E m \in Positions : k < m /\ m < c[1] /\ answer[m] = Close
  BY DEF Scans, BracketIn
<1>3. CASE b[1] = c[1]
  <2>1. ~(b[2] < c[2]) /\ ~(c[2] < b[2])
    BY <1>1, <1>2, <1>3
  <2>2. b[2] = c[2]
    BY <2>1, <1>1
  <2> QED
    BY <2>2, <1>1, <1>3
<1>4. CASE b[1] < c[1]
  <2>1. PICK m \in Positions : b[1] < m /\ m < c[1] /\ answer[m] = Close
    BY <1>1, <1>2, <1>4
  <2>2. ~(m < b[2])
    BY <2>1, <1>2
  <2> QED
    BY <2>1, <2>2, <1>1
<1>5. CASE c[1] < b[1]
  <2>1. PICK m \in Positions : c[1] < m /\ m < b[1] /\ answer[m] = Close
    BY <1>1, <1>2, <1>5
  <2>2. ~(m < c[2])
    BY <2>1, <1>2
  <2> QED
    BY <2>1, <2>2, <1>1
<1> QED
  BY <1>1, <1>3, <1>4, <1>5

\* What the scan comes upon next is a bracket ParseSpans reads, and the next one.
LEMMA NextIsScanned ==
  ASSUME IsAnswer, AtBracketEnd, NEW b \in Brackets, NextBracket(b)
  PROVE  /\ Scans(b) /\ offset < b[2]
         /\ \A c : Scans(c) => (c[2] <= b[2] <=> c[2] <= offset \/ c = b)
<1>1. /\ Positions = 1..Len(answer) /\ Len(answer) \in Nat
      /\ b[1] \in Positions /\ b[2] \in Positions
      /\ answer[b[1]] = Open /\ answer[b[2]] = Close
  BY BracketParts
<1>2. /\ offset \in Nat /\ offset < b[1] /\ b[1] < b[2]
      /\ \A k \in Positions : offset < k /\ k < b[1] => answer[k] # Open
      /\ \A k \in Positions : b[1] < k /\ k < b[2] => answer[k] # Close
  BY <1>1 DEF AtBracketEnd, NextBracket, NextOpen
<1>3. Open # Close
  BY DEF Open, Close
<1>4. ASSUME NEW k \in Positions, k < b[1], answer[k] = Open
      PROVE  \E m \in Positions : k < m /\ m < b[1] /\ answer[m] = Close
  <2>1. k <= offset
    BY <1>1, <1>2, <1>4
  <2>2. offset \in Positions /\ answer[offset] = Close
    BY <2>1, <1>1 DEF AtBracketEnd
  <2>3. k < offset
    BY <2>1, <2>2, <1>1, <1>3, <1>4
  <2> QED
    BY <2>2, <2>3, <1>2
<1>5. Scans(b)
  BY <1>1, <1>2, <1>4 DEF Scans, BracketIn
<1>6. ASSUME NEW c, Scans(c)
      PROVE  c[2] <= b[2] <=> c[2] <= offset \/ c = b
  <2>1. c = b \/ c[2] < b[1] \/ b[2] < c[1]
    BY <1>5, <1>6, Apart
  <2>2. /\ c[1] \in Positions /\ c[2] \in Positions /\ c[1] < c[2]
        /\ answer[c[1]] = Open
        /\ \A k \in Positions : c[1] < k /\ k < c[2] => answer[k] # Close
    BY <1>6, BracketParts DEF Scans, BracketIn
  <2>3. CASE c[2] < b[1]
    <3>1. c[1] <= offset
      BY <2>2, <2>3, <1>1, <1>2
    <3>2. offset \in Positions /\ answer[offset] = Close
      BY <3>1, <2>2, <1>1 DEF AtBracketEnd
    <3>3. c[1] < offset
      BY <3>1, <3>2, <2>2, <1>1, <1>3
    <3>4. c[2] <= offset
      BY <3>2, <3>3, <2>2, <1>1
    <3> QED
      BY <3>4, <2>2, <2>3, <1>1, <1>2
  <2>4. CASE b[2] < c[1]
    <3>1. b[2] < c[2] /\ offset < c[2]
      BY <2>2, <2>4, <1>1, <1>2
    <3> QED
      BY <3>1, <2>2, <2>4, <1>1, <1>2
  <2>5. CASE c = b
    BY <2>5, <1>1
  <2> QED
    BY <2>1, <2>3, <2>4, <2>5
<1> QED
  BY <1>1, <1>2, <1>5, <1>6

\* When the scan ends no bracket ParseSpans reads is left.
LEMMA EndScanned ==
  ASSUME IsAnswer, AtBracketEnd, EndScan, NEW c, Scans(c)
  PROVE  c[2] <= offset
<1>1. /\ Positions = 1..Len(answer) /\ Len(answer) \in Nat
      /\ c[1] \in Positions /\ c[2] \in Positions /\ c[1] < c[2]
      /\ answer[c[1]] = Open /\ answer[c[2]] = Close
      /\ \A k \in Positions : c[1] < k /\ k < c[2] => answer[k] # Close
  BY BracketParts DEF Scans, BracketIn
<1>2. offset \in Nat
  BY <1>1 DEF AtBracketEnd
<1>3. Open # Close
  BY DEF Open, Close
<1>4. CASE \A k \in Positions : offset < k => answer[k] # Open
  <2>1. c[1] <= offset
    BY <1>1, <1>2, <1>4
  <2> QED
    BY <2>1, <1>1, <1>2, <1>3 DEF AtBracketEnd
<1>5. CASE \E k \in Positions :
              NextOpen(k) /\ \A l \in Positions : k < l => answer[l] # Close
  <2>1. PICK k \in Positions :
              NextOpen(k) /\ \A l \in Positions : k < l => answer[l] # Close
    BY <1>5
  <2>2. c[2] <= k
    BY <2>1, <1>1
  <2>3. \A l \in Positions : offset < l /\ l < k => answer[l] # Open
    BY <2>1, <1>1, <1>2 DEF NextOpen
  <2>4. c[1] <= offset
    BY <2>2, <2>3, <1>1, <1>2
  <2> QED
    BY <2>4, <1>1, <1>2, <1>3 DEF AtBracketEnd
<1> QED
  BY <1>4, <1>5 DEF EndScan

------------------------------------------------------------------------------
(* The invariant.                                                            *)

Removed == UNION {b[1]..b[2] : b \in Invalid}

\* The invalid citations Strip has dealt with.
Handled == {b \in Invalid : b[2] <= offset}

Typed ==
    /\ IsAnswer /\ AtBracketEnd
    /\ phase \in {"scan", "strip", "done"}
    /\ spans \subseteq Brackets
    /\ cursor \in 1..(Len(answer) + 1)
    /\ kept \subseteq Positions
    /\ spaced \subseteq Positions
    /\ stripped \in Nat

\* ParseSpans has found the citations up to the offset, and Strip has not begun.
Scanned ==
    phase = "scan" =>
        /\ spans = {b \in AnswerCitations : b[2] <= offset}
        /\ cursor = 1 /\ kept = {} /\ spaced = {} /\ stripped = 0

Found == phase # "scan" => spans = AnswerCitations

\* Strip has copied what it should up to the cursor; no citation lies across
\* the offset, and none that is left begins before the cursor.
Copied ==
    phase = "strip" =>
        /\ cursor <= offset + 1
        /\ \A b \in AnswerCitations : b[2] <= offset \/ offset < b[1]
        /\ kept = (1..(cursor - 1)) \ Removed
        /\ \A b \in Invalid : b[2] < cursor <=> b[2] <= offset
        /\ stripped = Cardinality(Handled)

Done ==
    phase = "done" =>
        /\ kept = Positions \ Removed
        /\ stripped = Cardinality(Invalid)

\* A space stands where a removed citation began.
Spaces == \A k \in spaced : k \in kept /\ \E b \in Invalid : b[1] = k + 1

IInv == Typed /\ Scanned /\ Found /\ Copied /\ Done /\ Spaces

\* Nothing a loop does changes what the citations are.
LEMMA SameCitations ==
  ASSUME UNCHANGED <<answer, documents>>
  PROVE  /\ Positions' = Positions /\ Brackets' = Brackets
         /\ AnswerCitations' = AnswerCitations /\ Invalid' = Invalid
         /\ Removed' = Removed /\ IsAnswer' = IsAnswer
<1>1. Positions' = Positions /\ IsAnswer' = IsAnswer
  BY DEF Positions, IsAnswer
<1>2. Brackets' = Brackets
  BY <1>1 DEF Brackets
<1>3. ASSUME NEW b PROVE IsCitation(b)' = IsCitation(b)
  BY DEF IsCitation, Inside
<1>4. ASSUME NEW b PROVE BracketIn(Positions, b)' = BracketIn(Positions, b)
  BY <1>1 DEF BracketIn
<1>5. ASSUME NEW b PROVE Resolves(b)' = Resolves(b)
  BY DEF Resolves, Inside
<1>6. AnswerCitations' = AnswerCitations
  BY <1>2, <1>3, <1>4 DEF AnswerCitations
<1>7. Invalid' = Invalid
  BY <1>5, <1>6 DEF Invalid
<1> QED
  BY <1>1, <1>2, <1>6, <1>7 DEF Removed

LEMMA CitationsAreScanned ==
  ASSUME IsAnswer, NEW b \in AnswerCitations
  PROVE  /\ Scans(b) /\ IsCitation(b)
         /\ b[1] \in 1..Len(answer) /\ b[2] \in 1..Len(answer) /\ b[1] < b[2]
BY BracketParts DEF AnswerCitations, Scans, BracketIn

LEMMA InvalidFinite ==
  ASSUME IsAnswer
  PROVE  /\ IsFiniteSet(Invalid) /\ IsFiniteSet(Handled)
<1>1. Positions = 1..Len(answer) /\ Len(answer) \in Nat
  BY DEF IsAnswer, Positions
<1>2. IsFiniteSet(Positions)
  BY <1>1, FS_Interval
<1>3. IsFiniteSet({k \in Positions : answer[k] = Open})
      /\ IsFiniteSet({k \in Positions : answer[k] = Close})
  BY <1>2, FS_Subset
<1>4. IsFiniteSet(Brackets)
  BY <1>3, FS_Product DEF Brackets
<1>5. Invalid \subseteq Brackets /\ Handled \subseteq Brackets
  BY DEF Invalid, Handled, AnswerCitations
<1> QED
  BY <1>4, <1>5, FS_Subset

LEMMA InitIInv == Init => IInv
<1> SUFFICES ASSUME Init PROVE IInv
  OBVIOUS
<1>1. IsAnswer
  BY CitationsAssumption DEF Init, IsAnswer
<1>2. Len(answer) \in Nat /\ Positions = 1..Len(answer)
  BY <1>1 DEF IsAnswer, Positions
<1>3. Typed
  BY <1>1, <1>2 DEF Init, Typed, AtBracketEnd
<1>4. \A b \in AnswerCitations : ~(b[2] <= 0)
  BY <1>1, CitationsAreScanned
<1>5. Scanned
  BY <1>4 DEF Init, Scanned
<1> QED
  BY <1>3, <1>5 DEF Init, IInv, Found, Copied, Done, Spaces

------------------------------------------------------------------------------
(* The steps.                                                                *)

LEMMA ScanBracketStep == IInv /\ ScanBracket => IInv'
<1> SUFFICES ASSUME IInv, ScanBracket PROVE IInv'
  OBVIOUS
<1>1. PICK b \in Brackets :
         /\ NextBracket(b)
         /\ offset' = b[2]
         /\ spans' = IF IsCitation(b) THEN spans \cup {b} ELSE spans
  BY DEF ScanBracket
<1>2. UNCHANGED <<answer, documents, phase, cursor, kept, spaced, stripped>>
      /\ phase = "scan"
  BY DEF ScanBracket
<1>3. /\ Positions' = Positions /\ Brackets' = Brackets
      /\ AnswerCitations' = AnswerCitations /\ IsAnswer' = IsAnswer
  BY <1>2, SameCitations
<1>4. IsAnswer /\ AtBracketEnd
  BY DEF IInv, Typed
<1>5. /\ b[2] \in Positions /\ answer[b[2]] = Close
  BY <1>4, BracketParts
<1>6. Typed'
  <2>1. AtBracketEnd'
    BY <1>1, <1>2, <1>3, <1>5 DEF AtBracketEnd
  <2>2. spans' \subseteq Brackets
    BY <1>1 DEF IInv, Typed
  <2> QED
    BY <2>1, <2>2, <1>2, <1>3 DEF IInv, Typed
<1>7. Scans(b) /\ \A c : Scans(c) => (c[2] <= b[2] <=> c[2] <= offset \/ c = b)
  BY <1>1, <1>4, NextIsScanned
<1>8. spans' = {c \in AnswerCitations : c[2] <= b[2]}
  <2>1. \A c \in AnswerCitations : c[2] <= b[2] <=> c[2] <= offset \/ c = b
    BY <1>4, <1>7, CitationsAreScanned
  <2>2. b \in AnswerCitations <=> IsCitation(b)
    BY <1>7 DEF AnswerCitations, Scans
  <2>3. spans = {c \in AnswerCitations : c[2] <= offset}
    BY <1>2 DEF IInv, Scanned
  <2>4. CASE IsCitation(b)
    BY <2>1, <2>2, <2>3, <2>4, <1>1
  <2>5. CASE ~IsCitation(b)
    BY <2>1, <2>2, <2>3, <2>5, <1>1
  <2> QED
    BY <2>4, <2>5
<1>9. Scanned'
  BY <1>1, <1>2, <1>3, <1>8 DEF IInv, Scanned
<1> QED
  BY <1>2, <1>6, <1>9 DEF IInv, Found, Copied, Done, Spaces, Scanned

LEMMA EndScanStep == IInv /\ EndScan => IInv'
<1> SUFFICES ASSUME IInv, EndScan PROVE IInv'
  OBVIOUS
<1>1. /\ UNCHANGED <<answer, documents, spans, cursor, spaced, stripped>>
      /\ phase = "scan" /\ offset' = 0
      /\ \/ spans = {} /\ phase' = "done" /\ kept' = Positions
         \/ spans # {} /\ phase' = "strip" /\ kept' = kept
  BY DEF EndScan
<1>2. /\ Positions' = Positions /\ Brackets' = Brackets
      /\ AnswerCitations' = AnswerCitations /\ Invalid' = Invalid
      /\ Removed' = Removed /\ IsAnswer' = IsAnswer
  BY <1>1, SameCitations
<1>3. IsAnswer /\ AtBracketEnd /\ Positions = 1..Len(answer) /\ Len(answer) \in Nat
  BY DEF IInv, Typed, IsAnswer, Positions
<1>4. \A c \in AnswerCitations : c[2] <= offset
  BY <1>3, EndScanned, CitationsAreScanned
<1>5. spans = AnswerCitations
  BY <1>1, <1>4 DEF IInv, Scanned
<1>6. cursor = 1 /\ kept = {} /\ spaced = {} /\ stripped = 0
  BY <1>1 DEF IInv, Scanned
<1>7. Typed'
  BY <1>1, <1>2, <1>3 DEF IInv, Typed, AtBracketEnd
<1>8. Spaces' /\ Found' /\ Scanned'
  BY <1>1, <1>2, <1>5, <1>6 DEF Spaces, Found, Scanned
<1>9. Copied'
  <2> SUFFICES ASSUME phase' = "strip" PROVE Copied'
    BY DEF Copied
  <2>1. \A b \in AnswerCitations : 0 < b[1] /\ ~(b[2] <= 0) /\ ~(b[2] < 1)
    BY <1>3, CitationsAreScanned
  <2>2. Invalid \subseteq AnswerCitations
    BY DEF Invalid
  <2>3. Handled' = {}
    BY <2>1, <2>2, <1>1, <1>2 DEF Handled
  <2>4. stripped' = Cardinality(Handled')
    BY <2>3, <1>1, <1>6, FS_EmptySet
  <2>5. kept' = (1..(cursor' - 1)) \ Removed'
    BY <1>1, <1>6
  <2> QED
    BY <2>1, <2>2, <2>4, <2>5, <1>1, <1>2, <1>6 DEF Copied
<1>10. Done'
  <2> SUFFICES ASSUME phase' = "done" PROVE Done'
    BY DEF Done
  <2>1. Invalid = {} /\ kept' = Positions
    BY <1>1, <1>5 DEF Invalid
  <2>2. Removed = {}
    BY <2>1 DEF Removed
  <2> QED
    BY <2>1, <2>2, <1>1, <1>2, <1>6, FS_EmptySet DEF Done
<1> QED
  BY <1>7, <1>8, <1>9, <1>10 DEF IInv

\* Where Strip stands when it takes the next citation.
LEMMA SpanContext ==
  ASSUME IInv, phase = "strip", NEW b \in spans, NextSpan(b)
  PROVE  /\ IsAnswer /\ Positions = 1..Len(answer) /\ Len(answer) \in Nat
         /\ spans = AnswerCitations /\ Invalid \subseteq AnswerCitations
         /\ cursor \in Nat /\ offset \in Nat /\ 1 <= cursor /\ cursor <= offset + 1
         /\ b[1] \in Positions /\ b[2] \in Positions
         /\ offset < b[1] /\ b[1] < b[2] /\ answer[b[2]] = Close
         /\ \A c \in AnswerCitations :
               c = b \/ (c[2] <= offset /\ c[2] < b[1]) \/ b[2] < c[1]
         /\ \A c \in AnswerCitations :
               /\ c[1] \in Positions /\ c[2] \in Positions /\ c[1] < c[2]
               /\ c[2] <= offset \/ offset < c[1]
<1>1. IsAnswer /\ AtBracketEnd /\ cursor \in 1..(Len(answer) + 1)
  BY DEF IInv, Typed
<1>2. Positions = 1..Len(answer) /\ Len(answer) \in Nat
  BY <1>1 DEF IsAnswer, Positions
<1>3. spans = AnswerCitations
  BY DEF IInv, Found
<1>4. Invalid \subseteq AnswerCitations
  BY DEF Invalid
<1>5. offset \in Nat /\ cursor \in Nat /\ 1 <= cursor
  BY <1>1, <1>2 DEF AtBracketEnd
<1>6. cursor <= offset + 1
      /\ \A c \in AnswerCitations : c[2] <= offset \/ offset < c[1]
  BY DEF IInv, Copied
<1>7. offset < b[1] /\ \A c \in AnswerCitations : offset < c[1] => b[1] <= c[1]
  BY <1>3 DEF NextSpan
<1>8. \A c \in AnswerCitations :
         Scans(c) /\ c[1] \in Positions /\ c[2] \in Positions /\ c[1] < c[2]
  BY <1>1, <1>2, CitationsAreScanned
<1>9. answer[b[2]] = Close
  BY <1>1, <1>3, <1>8, BracketParts DEF Scans
<1>10. ASSUME NEW c \in AnswerCitations, c # b
       PROVE  (c[2] <= offset /\ c[2] < b[1]) \/ b[2] < c[1]
  <2>1. c[2] < b[1] \/ b[2] < c[1]
    BY <1>1, <1>3, <1>8, <1>10, Apart
  <2>2. c[1] \in Nat /\ c[2] \in Nat /\ b[1] \in Nat /\ c[1] < c[2]
    BY <1>2, <1>3, <1>8
  <2>3. c[2] < b[1] => c[2] <= offset
    BY <2>2, <1>5, <1>6, <1>7
  <2> QED
    BY <2>1, <2>3
<1> QED
  BY <1>1, <1>2, <1>3, <1>4, <1>5, <1>6, <1>7, <1>8, <1>9, <1>10

LEMMA KeepSpanStep == IInv /\ KeepSpan => IInv'
<1> SUFFICES ASSUME IInv, KeepSpan PROVE IInv'
  OBVIOUS
<1>1. PICK b \in spans : NextSpan(b) /\ Resolves(b) /\ offset' = b[2]
  BY DEF KeepSpan
<1>2. UNCHANGED <<answer, documents, phase, spans, cursor, kept, spaced, stripped>>
      /\ phase = "strip"
  BY DEF KeepSpan
<1>3. /\ Positions' = Positions /\ Brackets' = Brackets
      /\ AnswerCitations' = AnswerCitations /\ Invalid' = Invalid
      /\ Removed' = Removed /\ IsAnswer' = IsAnswer
  BY <1>2, SameCitations
<1>4. /\ Positions = 1..Len(answer) /\ Len(answer) \in Nat
      /\ spans = AnswerCitations /\ Invalid \subseteq AnswerCitations
      /\ cursor \in Nat /\ offset \in Nat /\ cursor <= offset + 1
      /\ b[1] \in Positions /\ b[2] \in Positions
      /\ offset < b[1] /\ b[1] < b[2] /\ answer[b[2]] = Close
      /\ \A c \in AnswerCitations :
            c = b \/ (c[2] <= offset /\ c[2] < b[1]) \/ b[2] < c[1]
      /\ \A c \in AnswerCitations :
            /\ c[1] \in Positions /\ c[2] \in Positions /\ c[1] < c[2]
            /\ c[2] <= offset \/ offset < c[1]
  BY <1>1, <1>2, SpanContext
<1>5. b \notin Invalid
  BY <1>1 DEF Invalid
<1>6. \A c \in Invalid : c[2] <= b[2] <=> c[2] <= offset
  BY <1>4, <1>5
<1>7. Typed'
  BY <1>1, <1>2, <1>3, <1>4 DEF IInv, Typed, AtBracketEnd
<1>8. Copied'
  <2>1. Handled' = Handled
    BY <1>1, <1>3, <1>6 DEF Handled
  <2>2. \A c \in AnswerCitations : c[2] <= b[2] \/ b[2] < c[1]
    BY <1>4
  <2>3. cursor <= b[2] + 1
    BY <1>4
  <2>4. \A c \in Invalid : c[2] < cursor <=> c[2] <= b[2]
    BY <1>2, <1>6 DEF IInv, Copied
  <2>5. kept = (1..(cursor - 1)) \ Removed /\ stripped = Cardinality(Handled)
    BY <1>2 DEF IInv, Copied
  <2> QED
    BY <2>1, <2>2, <2>3, <2>4, <2>5, <1>1, <1>2, <1>3 DEF Copied
<1>9. Scanned' /\ Found' /\ Done' /\ Spaces'
  BY <1>2, <1>3 DEF IInv, Scanned, Found, Done, Spaces
<1> QED
  BY <1>7, <1>8, <1>9 DEF IInv

LEMMA RemoveSpanStep == IInv /\ RemoveSpan => IInv'
<1> SUFFICES ASSUME IInv, RemoveSpan PROVE IInv'
  OBVIOUS
<1>1. PICK b \in spans :
         /\ NextSpan(b) /\ ~Resolves(b)
         /\ kept' = kept \cup cursor..(b[1] - 1)
         /\ spaced' = IF needsSeparator(b) THEN spaced \cup {b[1] - 1} ELSE spaced
         /\ cursor' = b[2] + 1
         /\ offset' = b[2]
  BY DEF RemoveSpan
<1>2. UNCHANGED <<answer, documents, phase, spans>>
      /\ phase = "strip" /\ stripped' = stripped + 1
  BY DEF RemoveSpan
<1>3. /\ Positions' = Positions /\ Brackets' = Brackets
      /\ AnswerCitations' = AnswerCitations /\ Invalid' = Invalid
      /\ Removed' = Removed /\ IsAnswer' = IsAnswer
  BY <1>2, SameCitations
<1>4. /\ IsAnswer /\ Positions = 1..Len(answer) /\ Len(answer) \in Nat
      /\ spans = AnswerCitations /\ Invalid \subseteq AnswerCitations
      /\ cursor \in Nat /\ offset \in Nat /\ 1 <= cursor /\ cursor <= offset + 1
      /\ b[1] \in Positions /\ b[2] \in Positions
      /\ offset < b[1] /\ b[1] < b[2] /\ answer[b[2]] = Close
      /\ \A c \in AnswerCitations :
            c = b \/ (c[2] <= offset /\ c[2] < b[1]) \/ b[2] < c[1]
      /\ \A c \in AnswerCitations :
            /\ c[1] \in Positions /\ c[2] \in Positions /\ c[1] < c[2]
            /\ c[2] <= offset \/ offset < c[1]
  BY <1>1, <1>2, SpanContext
<1>5. b \in Invalid
  BY <1>1, <1>4 DEF Invalid
<1>6. /\ kept = (1..(cursor - 1)) \ Removed
      /\ \A c \in Invalid : c[2] < cursor <=> c[2] <= offset
      /\ stripped = Cardinality(Handled)
  BY <1>2 DEF IInv, Copied
<1>7. ASSUME NEW k \in cursor..(b[1] - 1) PROVE k \notin Removed
  <2> SUFFICES ASSUME NEW c \in Invalid, k \in c[1]..c[2] PROVE FALSE
    BY DEF Removed
  <2>1. c[1] \in Nat /\ c[2] \in Nat /\ b[1] \in Nat /\ b[2] \in Nat
    BY <1>4
  <2>2. ~(c[2] <= offset)
    BY <2>1, <1>4, <1>6
  <2>3. c = b \/ b[2] < c[1]
    BY <2>2, <1>4
  <2> QED
    BY <2>1, <2>3, <1>4
<1>8. ASSUME NEW k \in b[1]..b[2] PROVE k \in Removed
  BY <1>5 DEF Removed
<1>9. kept' = (1..(cursor' - 1)) \ Removed
  <2>1. cursor' - 1 = b[2]
    BY <1>1, <1>4
  <2>2. 1..b[2] = (1..(cursor - 1)) \cup (cursor..(b[1] - 1)) \cup (b[1]..b[2])
    BY <1>4
  <2> QED
    BY <2>1, <2>2, <1>1, <1>6, <1>7, <1>8
<1>10. kept' \subseteq Positions
  BY <1>1, <1>3, <1>4, <1>9
<1>11. needsSeparator(b) => b[1] - 1 \in cursor..(b[1] - 1)
  BY <1>4 DEF needsSeparator
<1>12. Typed'
  <2>1. spaced' \subseteq kept'
    BY <1>1, <1>11 DEF IInv, Spaces
  <2>2. cursor' \in 1..(Len(answer) + 1)
    BY <1>1, <1>4
  <2> QED
    BY <2>1, <2>2, <1>1, <1>2, <1>3, <1>4, <1>10 DEF IInv, Typed, AtBracketEnd
<1>13. Spaces'
  <2>1. ASSUME NEW k \in spaced' PROVE k \in kept' /\ \E c \in Invalid : c[1] = k + 1
    <3>1. CASE k \in spaced
      BY <3>1, <1>1 DEF IInv, Spaces
    <3>2. CASE k \notin spaced
      <4>1. needsSeparator(b) /\ k = b[1] - 1
        BY <3>2, <1>1
      <4> QED
        BY <4>1, <1>1, <1>4, <1>5, <1>11
    <3> QED
      BY <3>1, <3>2
  <2> QED
    BY <2>1, <1>3 DEF Spaces
<1>14. stripped' = Cardinality(Handled')
  <2>1. Handled' = Handled \cup {b}
    <3>1. \A c \in Invalid : c[2] <= b[2] <=> c[2] <= offset \/ c = b
      BY <1>4
    <3> QED
      BY <3>1, <1>1, <1>3, <1>5 DEF Handled
  <2>2. b \notin Handled
    BY <1>4 DEF Handled
  <2>3. IsFiniteSet(Handled)
    BY <1>4, InvalidFinite
  <2> QED
    BY <2>1, <2>2, <2>3, <1>2, <1>6, FS_AddElement
<1>15. Copied'
  <2>1. \A c \in AnswerCitations : c[2] <= b[2] \/ b[2] < c[1]
    BY <1>4
  <2>2. \A c \in Invalid : c[2] < b[2] + 1 <=> c[2] <= b[2]
    BY <1>4
  <2>3. cursor' <= offset' + 1
    BY <1>1, <1>4
  <2> QED
    BY <2>1, <2>2, <2>3, <1>1, <1>2, <1>3, <1>9, <1>14 DEF Copied
<1>16. Scanned' /\ Found' /\ Done'
  BY <1>2, <1>3 DEF IInv, Scanned, Found, Done
<1> QED
  BY <1>12, <1>13, <1>15, <1>16 DEF IInv

LEMMA FinishStep == IInv /\ Finish => IInv'
<1> SUFFICES ASSUME IInv, Finish PROVE IInv'
  OBVIOUS
<1>1. /\ phase = "strip" /\ phase' = "done"
      /\ \A b \in spans : b[1] <= offset
      /\ kept' = kept \cup cursor..Len(answer)
      /\ UNCHANGED <<answer, documents, offset, spans, cursor, spaced, stripped>>
  BY DEF Finish
<1>2. /\ Positions' = Positions /\ Brackets' = Brackets
      /\ AnswerCitations' = AnswerCitations /\ Invalid' = Invalid
      /\ Removed' = Removed /\ IsAnswer' = IsAnswer
  BY <1>1, SameCitations
<1>3. /\ IsAnswer /\ AtBracketEnd /\ cursor \in 1..(Len(answer) + 1)
      /\ Positions = 1..Len(answer) /\ Len(answer) \in Nat
  BY DEF IInv, Typed, IsAnswer, Positions
<1>4. offset \in Nat
  BY <1>3 DEF AtBracketEnd
<1>5. \A b \in Invalid : b \in AnswerCitations /\ b[1] \in Nat /\ b[2] \in Nat
  BY <1>3, CitationsAreScanned DEF Invalid
<1>6. \A b \in AnswerCitations : b[2] <= offset
  <2>1. spans = AnswerCitations
    BY <1>1 DEF IInv, Found
  <2>2. \A b \in AnswerCitations : b[2] <= offset \/ offset < b[1]
    BY <1>1 DEF IInv, Copied
  <2>3. \A b \in AnswerCitations : b[1] \in Nat
    BY <1>3, CitationsAreScanned
  <2> QED
    BY <2>1, <2>2, <2>3, <1>1, <1>4
<1>7. /\ kept = (1..(cursor - 1)) \ Removed
      /\ \A b \in Invalid : b[2] < cursor
      /\ stripped = Cardinality(Handled)
  BY <1>1, <1>5, <1>6 DEF IInv, Copied
<1>8. ASSUME NEW k \in cursor..Len(answer) PROVE k \notin Removed
  <2> SUFFICES ASSUME NEW b \in Invalid, k \in b[1]..b[2] PROVE FALSE
    BY DEF Removed
  <2> QED
    BY <1>3, <1>5, <1>7
<1>9. kept' = Positions \ Removed
  <2>1. 1..Len(answer) = (1..(cursor - 1)) \cup (cursor..Len(answer))
    BY <1>3
  <2> QED
    BY <2>1, <1>1, <1>3, <1>7, <1>8
<1>10. Handled = Invalid
  BY <1>5, <1>6 DEF Handled
<1>11. Done'
  BY <1>1, <1>2, <1>7, <1>9, <1>10 DEF Done
<1>12. Typed'
  BY <1>1, <1>2, <1>3, <1>9 DEF IInv, Typed, AtBracketEnd
<1>13. Spaces'
  BY <1>1, <1>2 DEF IInv, Spaces
<1> QED
  BY <1>1, <1>2, <1>11, <1>12, <1>13 DEF IInv, Scanned, Found, Copied

\* The invariant holds for every answer and every context.
THEOREM Invariance == Spec => []IInv
<1>1. IInv /\ [Next]_vars => IInv'
  <2> SUFFICES ASSUME IInv, [Next]_vars PROVE IInv'
    OBVIOUS
  <2>1. CASE ScanBracket
    BY <2>1, ScanBracketStep
  <2>2. CASE EndScan
    BY <2>2, EndScanStep
  <2>3. CASE KeepSpan
    BY <2>3, KeepSpanStep
  <2>4. CASE RemoveSpan
    BY <2>4, RemoveSpanStep
  <2>5. CASE Finish
    BY <2>5, FinishStep
  <2>6. CASE UNCHANGED vars
    <3>1. /\ UNCHANGED <<answer, documents, phase, offset, spans, cursor, kept,
                         spaced, stripped>>
      BY <2>6 DEF vars
    <3>2. /\ Positions' = Positions /\ Brackets' = Brackets
          /\ AnswerCitations' = AnswerCitations /\ Invalid' = Invalid
          /\ Removed' = Removed /\ IsAnswer' = IsAnswer
      BY <3>1, SameCitations
    <3>3. Typed' /\ Spaces' /\ Found' /\ Scanned' /\ Done'
      BY <3>1, <3>2 DEF IInv, Typed, AtBracketEnd, Spaces, Found, Scanned, Done
    <3>4. Copied'
      BY <3>1, <3>2 DEF IInv, Copied, Handled
    <3> QED
      BY <3>3, <3>4 DEF IInv
  <2> QED
    BY <2>1, <2>2, <2>3, <2>4, <2>5, <2>6 DEF Next, Returned
<1> QED
  BY <1>1, InitIInv, PTL DEF Spec

------------------------------------------------------------------------------
(* What the invariant says of the result.                                    *)

\* No kept token is part of a removed citation.
LEMMA KeptNotRemoved ==
  ASSUME IInv, phase = "done"
  PROVE  /\ kept = Positions \ Removed
         /\ \A k \in kept : \A c \in Invalid : ~(c[1] <= k /\ k <= c[2])
<1>1. kept = Positions \ Removed
  BY DEF IInv, Done
<1>2. IsAnswer /\ Positions = 1..Len(answer) /\ Len(answer) \in Nat
  BY DEF IInv, Typed, IsAnswer, Positions
<1>3. \A c \in Invalid : c[1] \in Nat /\ c[2] \in Nat
  BY <1>2, CitationsAreScanned DEF Invalid
<1>4. ASSUME NEW k \in kept, NEW c \in Invalid PROVE ~(c[1] <= k /\ k <= c[2])
  <2>1. k \notin c[1]..c[2] /\ k \in Nat
    BY <1>1, <1>2 DEF Removed
  <2> QED
    BY <2>1, <1>3
<1> QED
  BY <1>1, <1>4

\* A "]" that was removed is the end of an invalid citation.
LEMMA RemovedToken ==
  ASSUME IInv, phase = "done", NEW k \in Positions, k \notin kept
  PROVE  \E c \in Invalid :
            /\ Scans(c) /\ c[1] \in Positions /\ c[2] \in Positions
            /\ c[1] < c[2] /\ c[1] <= k /\ k <= c[2]
            /\ answer[c[1]] = Open /\ answer[c[2]] = Close
            /\ answer[k] = Close => k = c[2]
            /\ answer[k] = Open => k < c[2]
<1>1. kept = Positions \ Removed
  BY KeptNotRemoved
<1>2. IsAnswer /\ Positions = 1..Len(answer) /\ Len(answer) \in Nat
  BY DEF IInv, Typed, IsAnswer, Positions
<1>3. PICK c \in Invalid : k \in c[1]..c[2]
  BY <1>1 DEF Removed
<1>4. Scans(c) /\ c[1] \in Positions /\ c[2] \in Positions /\ c[1] < c[2]
  BY <1>2, CitationsAreScanned DEF Invalid
<1>5. answer[c[1]] = Open /\ answer[c[2]] = Close
  BY <1>2, <1>4, BracketParts DEF Scans
<1>6. \A l \in Positions : c[1] < l /\ l < c[2] => answer[l] # Close
  BY <1>4 DEF Scans, BracketIn
<1>7. c[1] <= k /\ k <= c[2]
  BY <1>2, <1>3, <1>4
<1>8. Open # Close
  BY DEF Open, Close
<1>9. answer[k] = Close => k = c[2]
  BY <1>2, <1>4, <1>5, <1>6, <1>7, <1>8
<1>10. answer[k] = Open => k < c[2]
  BY <1>2, <1>4, <1>5, <1>7, <1>8
<1> QED
  BY <1>4, <1>5, <1>7, <1>9, <1>10

\* A bracket of the result is one of the answer, and nothing of it was removed.
LEMMA ResultBracket ==
  ASSUME IInv, phase = "done", NEW b \in Brackets, BracketIn(kept, b)
  PROVE  Scans(b) /\ b[1]..b[2] \subseteq kept
<1>1. IsAnswer /\ Positions = 1..Len(answer) /\ Len(answer) \in Nat
      /\ kept \subseteq Positions
  BY DEF IInv, Typed, IsAnswer, Positions
<1>2. /\ b[1] \in kept /\ b[2] \in kept /\ b[1] < b[2]
      /\ answer[b[1]] = Open /\ answer[b[2]] = Close
      /\ \A k \in kept : b[1] < k /\ k < b[2] => answer[k] # Close
      /\ \A k \in kept : k < b[1] /\ answer[k] = Open
            => \E m \in kept : k < m /\ m < b[1] /\ answer[m] = Close
  BY <1>1, BracketParts DEF BracketIn
<1>3. \A k \in kept : \A c \in Invalid : ~(c[1] <= k /\ k <= c[2])
  BY KeptNotRemoved
<1>4. /\ b[1] \in Nat /\ b[2] \in Nat
       /\ b[1] \in 1..Len(answer) /\ b[2] \in 1..Len(answer)
  <2>1. b[1] \in Positions /\ b[2] \in Positions
    BY <1>1, <1>2
  <2>2. b[1] \in 1..Len(answer) /\ b[2] \in 1..Len(answer)
    BY <2>1, <1>1
  <2> QED
    BY <2>2, <1>1
<1>5. \A k \in Positions : b[1] < k /\ k < b[2] => answer[k] # Close
  <2> DEFINE T == {k \in Nat : k \in Positions /\ b[1] < k /\ k < b[2]
                                /\ answer[k] = Close}
  <2> SUFFICES ASSUME T # {} PROVE FALSE
    BY <1>1
  <2>1. PICK k \in T : \A l \in T : k <= l
    <3>1. T \in SUBSET Nat
      OBVIOUS
    <3> HIDE DEF T
    <3> QED
      BY <3>1, Least
  <2>2. k \in Nat /\ k \in Positions /\ b[1] < k /\ k < b[2] /\ answer[k] = Close
    OBVIOUS
  <2>3. k \notin kept
    BY <2>2, <1>2
  <2>4. PICK c \in Invalid :
            /\ Scans(c) /\ c[1] \in Positions /\ c[2] \in Positions
            /\ c[1] < c[2] /\ c[1] <= k /\ k = c[2]
    BY <2>3, <2>2, RemovedToken
  <2>5. c[1] \in Nat /\ c[2] \in Nat
    BY <2>4, <1>1
  <2>6. ~(c[1] <= b[1] /\ b[1] <= c[2])
    BY <1>2, <1>3
  <2>7. b[1] < c[1]
    BY <2>4, <2>5, <2>6, <2>2, <1>4
  <2>8. PICK m \in Positions : b[1] < m /\ m < c[1] /\ answer[m] = Close
    <3>1. b[1] \in Positions /\ answer[b[1]] = Open
      BY <1>1, <1>2
    <3> QED
      BY <2>4, <2>7, <3>1 DEF Scans, BracketIn
  <2>9. m \in Nat
    BY <1>1
  <2>10. m \in T /\ m < k
    BY <2>4, <2>8, <2>5, <2>9, <2>2, <1>4
  <2> QED
    BY <2>1, <2>10, <1>1
<1>6. ASSUME NEW k \in Positions, k < b[1], answer[k] = Open
      PROVE  \E m \in Positions : k < m /\ m < b[1] /\ answer[m] = Close
  <2>1. CASE k \in kept
    BY <2>1, <1>1, <1>2, <1>6
  <2>2. CASE k \notin kept
    <3>1. PICK c \in Invalid :
              /\ c[1] \in Positions /\ c[2] \in Positions /\ c[1] <= k
              /\ k < c[2] /\ answer[c[2]] = Close
      BY <2>2, <1>6, RemovedToken
    <3>2. c[1] \in Nat /\ c[2] \in Nat /\ k \in Nat
      BY <3>1, <1>1
    <3>3. ~(c[1] <= b[1] /\ b[1] <= c[2])
      BY <1>2, <1>3
    <3>4. c[2] < b[1]
      BY <3>1, <3>2, <3>3, <1>4, <1>6
    <3> QED
      BY <3>1, <3>4
  <2> QED
    BY <2>1, <2>2
<1>7. Scans(b)
  BY <1>1, <1>2, <1>5, <1>6 DEF Scans, BracketIn
<1>8. ASSUME NEW k \in b[1]..b[2] PROVE k \in kept
  <2>1. k \in Positions
    BY <1>1, <1>4
  <2> SUFFICES ASSUME k \notin kept PROVE FALSE
    OBVIOUS
  <2>2. PICK c \in Invalid :
            /\ Scans(c) /\ c[1] \in Positions /\ c[2] \in Positions
            /\ c[1] < c[2] /\ c[1] <= k /\ k <= c[2]
    BY <2>1, RemovedToken
  <2>3. b = c \/ b[2] < c[1] \/ c[2] < b[1]
    BY <2>2, <1>1, <1>7, Apart
  <2> QED
    <3>1. c[1] \in Nat /\ c[2] \in Nat /\ k \in Nat /\ b[1] <= k /\ k <= b[2]
      BY <2>1, <2>2, <1>1, <1>4
    <3>2. CASE b = c
      BY <3>2, <2>2, <1>2, <1>3, <1>4
    <3>3. CASE b # c
      BY <3>1, <3>3, <2>2, <2>3, <1>4
    <3> QED
      BY <3>2, <3>3
<1> QED
  BY <1>7, <1>8

\* A valid citation of the answer is a bracket of the result.
LEMMA ValidSurvives ==
  ASSUME IInv, phase = "done", NEW b \in AnswerCitations, b \notin Invalid
  PROVE  BracketIn(kept, b)
<1>1. IsAnswer /\ Positions = 1..Len(answer) /\ Len(answer) \in Nat
      /\ kept \subseteq Positions
  BY DEF IInv, Typed, IsAnswer, Positions
<1>2. Scans(b) /\ b[1] \in Positions /\ b[2] \in Positions /\ b[1] < b[2]
  BY <1>1, CitationsAreScanned
<1>3. \A k \in kept : \A c \in Invalid : ~(c[1] <= k /\ k <= c[2])
  BY KeptNotRemoved
<1>4. ASSUME NEW k \in b[1]..b[2] PROVE k \in kept
  <2>1. k \in Positions
    BY <1>1, <1>2
  <2> SUFFICES ASSUME k \notin kept PROVE FALSE
    OBVIOUS
  <2>2. PICK c \in Invalid :
            /\ Scans(c) /\ c[1] \in Positions /\ c[2] \in Positions
            /\ c[1] < c[2] /\ c[1] <= k /\ k <= c[2]
    BY <2>1, RemovedToken
  <2>3. b = c \/ b[2] < c[1] \/ c[2] < b[1]
    BY <2>2, <1>1, <1>2, Apart
  <2>4. b # c
    OBVIOUS
  <2> QED
    BY <2>2, <2>3, <2>4, <1>1, <1>2
<1>5. b[1] \in kept /\ b[2] \in kept
  BY <1>1, <1>2, <1>4
<1>6. ASSUME NEW k \in kept, k < b[1], answer[k] = Open
      PROVE  \E m \in kept : k < m /\ m < b[1] /\ answer[m] = Close
  <2> DEFINE T == {m \in Nat : m \in Positions /\ k < m /\ m < b[1]
                                /\ answer[m] = Close}
  <2>1. T # {}
    BY <1>1, <1>2, <1>6 DEF Scans, BracketIn
  <2>2. PICK m \in T : \A l \in T : m <= l
    <3>1. T \in SUBSET Nat
      OBVIOUS
    <3> HIDE DEF T
    <3> QED
      BY <2>1, <3>1, Least
  <2>3. CASE m \in kept
    BY <2>2, <2>3
  <2>4. CASE m \notin kept
    <3>1. PICK c \in Invalid :
              /\ Scans(c) /\ c[1] \in Positions /\ c[2] \in Positions
              /\ c[1] < c[2] /\ c[1] <= m /\ m = c[2]
      BY <2>2, <2>4, RemovedToken
    <3>2. k < c[1]
      BY <3>1, <2>2, <1>1, <1>3
    <3>3. PICK l \in Positions : k < l /\ l < c[1] /\ answer[l] = Close
      BY <3>1, <3>2, <1>1, <1>6 DEF Scans, BracketIn
    <3>4. l \in T /\ l < m
      BY <3>1, <3>3, <2>2, <1>1, <1>2
    <3> QED
      BY <3>4, <2>2, <1>1
  <2> QED
    BY <2>3, <2>4
<1> QED
  BY <1>1, <1>2, <1>5, <1>6 DEF Scans, BracketIn

------------------------------------------------------------------------------
(* The properties of Citations.                                              *)

\* The variables keep their types, for any answer.
THEOREM TypeCorrect == Spec => []TypeOK
<1>1. Spec => [](answer \in Seq(STRING) /\ documents \in Contexts)
  <2>1. Init => answer \in Seq(STRING) /\ documents \in Contexts
    BY CitationsAssumption DEF Init
  <2>2. answer \in Seq(STRING) /\ documents \in Contexts /\ [Next]_vars
        => (answer \in Seq(STRING) /\ documents \in Contexts)'
    BY DEF Next, ScanBracket, EndScan, KeepSpan, RemoveSpan, Finish, Returned, vars
  <2> QED
    BY <2>1, <2>2, PTL DEF Spec
<1>2. IInv /\ answer \in Seq(STRING) /\ documents \in Contexts => TypeOK
  BY DEF IInv, Typed, AtBracketEnd, TypeOK
<1> QED
  BY <1>1, <1>2, Invariance, PTL

\* What is behind the "[" of a bracket, token by token.
LEMMA InsideTokens ==
  ASSUME IsAnswer, NEW b \in Brackets, b[1] < b[2]
  PROVE  /\ DOMAIN Inside(b) = 1..(b[2] - 1 - b[1])
         /\ \A k \in DOMAIN Inside(b) :
               Inside(b)[k] = IF answer[b[1] + k] = EnDash THEN Hyphen
                              ELSE answer[b[1] + k]
<1>1. /\ Positions = 1..Len(answer) /\ Len(answer) \in Nat
      /\ b[1] \in 1..Len(answer) /\ b[2] \in 1..Len(answer)
      /\ answer \in Seq(STRING)
  BY BracketParts DEF IsAnswer
<1>2. PICK m \in Nat, n \in Nat : m = b[1] + 1 /\ n = b[2] - 1
  BY <1>1
<1>3. /\ 1 <= m /\ m <= n + 1 /\ n <= Len(answer)
      /\ b[2] - 1 - b[1] = n - m + 1
  BY <1>1, <1>2
<1>4. /\ DOMAIN SubSeq(answer, m, n) = 1..(n - m + 1)
      /\ \A k \in 1..(n - m + 1) : SubSeq(answer, m, n)[k] = answer[m + k - 1]
  BY <1>1, <1>3
<1>5. \A k \in 1..(n - m + 1) : m + k - 1 = b[1] + k
  BY <1>1, <1>2
<1> QED
  BY <1>2, <1>3, <1>4, <1>5 DEF Inside, NormalizeCitation

\* A bracket that begins earlier and ends where a citation ends is one too.
LEMMA LongerCitation ==
  ASSUME IsAnswer, NEW b \in Brackets, NEW c \in Brackets,
         b[1] < b[2], c[1] <= b[1], c[2] = b[2], IsCitation(b)
  PROVE  IsCitation(c)
<1>1. /\ b[1] \in Nat /\ b[2] \in Nat /\ c[1] \in Nat /\ c[2] \in Nat
      /\ c[1] < c[2]
  BY BracketParts
<1>2. PICK k \in DOMAIN Inside(b) : Inside(b)[k] = Hyphen
  BY DEF IsCitation, Separators
<1>3. /\ k \in Nat /\ 1 <= k /\ k <= b[2] - 1 - b[1]
      /\ answer[b[1] + k] \in {EnDash, Hyphen}
  BY <1>1, <1>2, InsideTokens
<1>4. PICK l \in Nat : l = b[1] - c[1] + k
  BY <1>1, <1>3
<1>5. l \in 1..(c[2] - 1 - c[1]) /\ c[1] + l = b[1] + k
  BY <1>1, <1>3, <1>4
<1>6. l \in DOMAIN Inside(c) /\ Inside(c)[l] = Hyphen
  BY <1>1, <1>3, <1>5, InsideTokens
<1> QED
  BY <1>6 DEF IsCitation, Separators

\* Behind an unclosed "[" ParseSpans reads a longer citation with the same end.
LEMMA TakenIntoLonger ==
  ASSUME IsAnswer, NEW b, IsWritten(b), LeftOpen(b[1])
  PROVE  \E c \in AnswerCitations : c[1] < b[1] /\ c[2] = b[2]
<1>1. /\ b \in Brackets /\ b[1] < b[2] /\ IsCitation(b)
      /\ \A k \in Positions : b[1] < k /\ k < b[2] => answer[k] # Close
  BY DEF IsWritten
<1>2. /\ Positions = 1..Len(answer) /\ Len(answer) \in Nat
      /\ b[1] \in Positions /\ b[2] \in Positions
      /\ answer[b[1]] = Open /\ answer[b[2]] = Close
  BY <1>1, BracketParts
<1> DEFINE T == {j \in Nat : /\ j \in Positions /\ j < b[1] /\ answer[j] = Open
                             /\ \A m \in Positions :
                                   j < m /\ m < b[1] => answer[m] # Close}
<1>3. T # {}
  BY <1>2 DEF LeftOpen
<1>4. PICK j \in T : \A l \in T : j <= l
  <2>1. T \in SUBSET Nat
    OBVIOUS
  <2> HIDE DEF T
  <2> QED
    BY <1>3, <2>1, Least
<1>5. /\ j \in Nat /\ j \in Positions /\ j < b[1] /\ answer[j] = Open
      /\ \A m \in Positions : j < m /\ m < b[1] => answer[m] # Close
  OBVIOUS
<1>6. PICK c \in Brackets : c[1] = j /\ c[2] = b[2]
  <2>1. <<j, b[2]>> \in Brackets
    BY <1>2, <1>5 DEF Brackets
  <2>2. <<j, b[2]>>[1] = j /\ <<j, b[2]>>[2] = b[2]
    OBVIOUS
  <2> QED
    BY <2>1, <2>2
<1>7. c[1] < c[2]
  BY <1>1, <1>2, <1>5, <1>6
<1>8. ASSUME NEW k \in Positions, c[1] < k, k < c[2] PROVE answer[k] # Close
  <2>1. k < b[1] \/ k = b[1] \/ b[1] < k
    BY <1>2
  <2>2. Open # Close
    BY DEF Open, Close
  <2> QED
    BY <1>1, <1>2, <1>5, <1>6, <1>8, <2>1, <2>2
<1>9. ASSUME NEW k \in Positions, k < c[1], answer[k] = Open
      PROVE  \E m \in Positions : k < m /\ m < c[1] /\ answer[m] = Close
  <2>1. k \in Nat /\ k < b[1] /\ k \notin T
    <3>1. k \in Nat /\ k < j /\ ~(j <= k)
      BY <1>2, <1>5, <1>6, <1>9
    <3>2. k \notin T
      BY <1>4, <3>1
    <3> QED
      BY <1>2, <1>5, <3>1, <3>2
  <2>2. PICK m \in Positions : k < m /\ m < b[1] /\ answer[m] = Close
    BY <1>9, <2>1
  <2>3. ~(j < m) /\ m # j
    <3>1. Open # Close
      BY DEF Open, Close
    <3> QED
      BY <1>5, <2>2, <3>1
  <2>4. m < j
    BY <1>2, <1>5, <2>3
  <2> QED
    BY <1>6, <2>2, <2>4
<1>10. BracketIn(Positions, c)
  BY <1>2, <1>5, <1>6, <1>7, <1>8, <1>9 DEF BracketIn
<1>11. IsCitation(c)
  BY <1>1, <1>2, <1>5, <1>6, LongerCitation
<1> QED
  BY <1>5, <1>6, <1>10, <1>11 DEF AnswerCitations

\* The invariant implies that the scan is exact.
LEMMA ScanExactInv == IInv => CitationsFound
<1> SUFFICES ASSUME IInv, phase = "done" PROVE CitationsFound
  BY DEF CitationsFound
<1>1. spans = AnswerCitations
  BY DEF IInv, Found
<1>2. IsAnswer /\ Positions = 1..Len(answer) /\ Len(answer) \in Nat
  BY DEF IInv, Typed, IsAnswer, Positions
<1>3. ASSUME NEW b \in Brackets, IsWritten(b)
      PROVE  /\ b \in spans <=> ~LeftOpen(b[1])
             /\ \E c \in spans : c[1] <= b[1] /\ c[2] = b[2]
  <2>1. /\ b[1] \in Positions /\ b[2] \in Positions /\ b[1] < b[2]
        /\ b[1] \in Nat /\ IsCitation(b)
        /\ \A k \in Positions : b[1] < k /\ k < b[2] => answer[k] # Close
    BY <1>2, <1>3, BracketParts DEF IsWritten
  <2>2. BracketIn(Positions, b) <=> ~LeftOpen(b[1])
    BY <2>1 DEF BracketIn, LeftOpen
  <2>3. b \in spans <=> ~LeftOpen(b[1])
    BY <1>1, <2>1, <2>2 DEF AnswerCitations
  <2>4. CASE LeftOpen(b[1])
    <3>1. PICK c \in AnswerCitations : c[1] < b[1] /\ c[2] = b[2]
      BY <1>2, <1>3, <2>4, TakenIntoLonger
    <3>2. c[1] \in Nat
      BY <1>2, CitationsAreScanned
    <3> QED
      BY <1>1, <2>1, <2>3, <3>1, <3>2
  <2>5. CASE ~LeftOpen(b[1])
    BY <2>1, <2>3, <2>5
  <2> QED
    BY <2>4, <2>5
<1>4. \A b, c \in spans : b = c \/ b[2] < c[1] \/ c[2] < b[1]
  BY <1>1, <1>2, Apart, CitationsAreScanned
<1>5. ASSUME NEW c \in spans
      PROVE  IsWritten(c) \/
                \E k \in Positions : c[1] < k /\ k < c[2] /\ answer[k] = Open
  <2>1. Scans(c) /\ IsCitation(c) /\ c[1] < c[2]
    BY <1>1, <1>2, CitationsAreScanned
  <2> QED
    BY <2>1 DEF Scans, BracketIn, IsWritten
<1> QED
  BY <1>3, <1>4, <1>5 DEF CitationsFound

\* The scan finds the citations of an answer, each once, but for those an
\* unclosed "[" takes into a longer one, for any answer.
THEOREM ScanExact == Spec => []CitationsFound
  BY ScanExactInv, Invariance, PTL

\* The invariant implies that what is removed is exact.
LEMMA StripExactInv == IInv => OnlyInvalidRemoved
<1> SUFFICES ASSUME IInv, phase = "done" PROVE OnlyInvalidRemoved
  BY DEF OnlyInvalidRemoved
<1>1. kept = Positions \ UNION {b[1]..b[2] : b \in Invalid}
  BY DEF IInv, Done, Removed
<1>2. stripped = Cardinality(Invalid)
  BY DEF IInv, Done
<1>3. ASSUME NEW k \in spaced PROVE k \in kept /\ k + 1 \notin kept
  <2>1. PICK b \in Invalid : b[1] = k + 1
    BY DEF IInv, Spaces
  <2>2. b[1] \in Nat /\ b[2] \in Nat /\ b[1] < b[2]
    BY <2>1, CitationsAreScanned DEF IInv, Typed, Invalid
  <2>3. ~(b[1] \in kept)
    BY <2>2, KeptNotRemoved
  <2> QED
    BY <2>1, <2>3 DEF IInv, Spaces
<1> QED
  BY <1>1, <1>2, <1>3 DEF OnlyInvalidRemoved

\* Strip removes the invalid citations, nothing else, and counts them.
THEOREM StripExact == Spec => []OnlyInvalidRemoved
  BY StripExactInv, Invariance, PTL

\* The invariant implies that what is returned reads as the valid citations.
LEMMA StripSoundInv == IInv => ResultCitationsValid
<1> SUFFICES ASSUME IInv, phase = "done" PROVE ResultCitationsValid
  BY DEF ResultCitationsValid
<1>0. IsAnswer /\ Positions = 1..Len(answer) /\ Len(answer) \in Nat
      /\ kept \subseteq Positions /\ spaced \subseteq Positions
  BY DEF IInv, Typed, IsAnswer, Positions
<1>1. ASSUME NEW b \in Brackets, BracketIn(kept, b)
      PROVE  b[1]..b[2] \subseteq kept /\ b[1]..(b[2] - 1) \cap spaced = {}
  <2>1. b[1]..b[2] \subseteq kept
    BY <1>1, ResultBracket
  <2>2. b[1] \in Nat /\ b[2] \in Nat
    BY <1>0, BracketParts
  <2>3. ASSUME NEW k \in b[1]..(b[2] - 1), k \in spaced PROVE FALSE
    <3>1. PICK c \in Invalid : c[1] = k + 1
      BY <2>3 DEF IInv, Spaces
    <3>2. c[1] \in Nat /\ c[2] \in Nat /\ c[1] < c[2]
      BY <1>0, CitationsAreScanned DEF Invalid
    <3>3. c[1] \in b[1]..b[2]
      BY <2>2, <2>3, <3>1, <3>2
    <3>4. c[1] \in kept
      BY <2>1, <3>3
    <3> QED
      BY <3>2, <3>4, KeptNotRemoved
  <2> QED
    BY <2>1, <2>3
<1>2. ASSUME NEW b \in Brackets, BracketIn(kept, b), IsCitation(b)
      PROVE  b \in AnswerCitations \ Invalid
  <2>1. b \in AnswerCitations
    BY <1>2, ResultBracket DEF Scans, AnswerCitations
  <2>2. b[1] \in kept /\ b[1] \in Nat /\ b[2] \in Nat /\ b[1] < b[2]
    BY <1>0, <1>2, <2>1, CitationsAreScanned DEF BracketIn
  <2> QED
    BY <2>1, <2>2, KeptNotRemoved
<1>3. ASSUME NEW b \in AnswerCitations \ Invalid
      PROVE  b \in Brackets /\ BracketIn(kept, b) /\ IsCitation(b)
  BY <1>3, ValidSurvives DEF AnswerCitations
<1> QED
  BY <1>1, <1>2, <1>3 DEF ResultCitationsValid

\* What Strip returns reads as the answer's valid citations, whole and no other.
THEOREM StripSound == Spec => []ResultCitationsValid
  BY StripSoundInv, Invariance, PTL
==============================================================================
