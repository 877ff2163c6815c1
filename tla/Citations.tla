------------------------------ MODULE Citations ------------------------------
(***************************************************************************)
(* internal/citations: Strip with ParseSpans, parseCitation and Valid, on   *)
(* an answer the model wrote.  ParseSpans scans the answer's brackets from  *)
(* left to right and keeps the citations among them; Strip walks over these *)
(* and copies everything but the invalid ones.                              *)
(*                                                                          *)
(* An answer is a sequence of tokens: brackets, separators, names, pages    *)
(* and what stands between them.  What the two loops tell apart is kept:    *)
(* where a bracket opens and closes, whether its inside splits into a       *)
(* source, a section and a page, and whether a token begins and ends with a *)
(* letter or digit.  The string builder only ever grows by later parts of   *)
(* the answer, so it is the set of positions written and the set of         *)
(* positions behind which a space was put.                                  *)
(***************************************************************************)
EXTENDS Integers, Sequences, FiniteSets

CONSTANTS Answers,          \* token sequences the model may answer with
          Contexts,         \* sets of documents the answer may be about
          Words,            \* tokens that begin and end with a word byte
          Canon,            \* NormalizeSource of the tokens it changes
          PageNumber        \* the number of each token "p.N"

Open   == "["
Close  == "]"
Hyphen == " - "
EnDash == " -- "            \* a space, an en or em dash, a space
Space  == " "

ASSUME CitationsAssumption ==
    /\ Answers \subseteq Seq(STRING)
    /\ Words \cap {Open, Close, Hyphen, EnDash, Space} = {}

VARIABLES answer,           \* the answer
          documents,        \* the context it is checked against
          phase,            \* "scan" in ParseSpans, "strip" in Strip, "done"
          offset,           \* the loop's place: every token up to it is dealt with
          spans,            \* the brackets found to be citations
          cursor,           \* the first token not copied or removed yet
          kept,             \* the tokens written to the builder
          spaced,           \* the tokens behind which a space was written
          stripped          \* the count returned

vars == <<answer, documents, phase, offset, spans, cursor, kept, spaced,
          stripped>>

------------------------------------------------------------------------------
(* One citation.                                                             *)

NormalizeCitation(t) ==
    [k \in DOMAIN t |-> IF t[k] = EnDash THEN Hyphen ELSE t[k]]

NormalizeSource(t) ==
    [k \in DOMAIN t |-> IF t[k] \in DOMAIN Canon THEN Canon[t[k]] ELSE t[k]]

\* strings.TrimSpace: without the spaces at either end.
TrimSpace(t) ==
    LET text == {k \in DOMAIN t : t[k] # Space}
    IN  IF text = {} THEN <<>>
        ELSE SubSeq(t, CHOOSE k \in text : \A l \in text : k <= l,
                       CHOOSE k \in text : \A l \in text : l <= k)

\* strings.Cut at the first separator: what is before it and what is after it.
Separators(t) == {k \in DOMAIN t : t[k] = Hyphen}
FirstSeparator(t) == CHOOSE k \in Separators(t) : \A l \in Separators(t) : k <= l
Before(t) == SubSeq(t, 1, FirstSeparator(t) - 1)
After(t)  == SubSeq(t, FirstSeparator(t) + 1, Len(t))

\* The second " - " is followed by a page and nothing else.
ClaimsPage(rest) ==
    /\ Separators(rest) # {}
    /\ Len(TrimSpace(After(rest))) = 1
    /\ TrimSpace(After(rest))[1] \in DOMAIN PageNumber

\* The inside of a bracket with a separator.
parseCitation(inside) ==
    LET rest == After(inside)
    IN  IF ClaimsPage(rest)
        THEN [source  |-> TrimSpace(Before(inside)),
              section |-> TrimSpace(Before(rest)),
              page    |-> PageNumber[TrimSpace(After(rest))[1]]]
        ELSE [source  |-> TrimSpace(Before(inside)),
              section |-> TrimSpace(rest),
              page    |-> 0]

Valid(citation, docs) ==
    \E d \in docs :
        /\ NormalizeSource(d.source) = NormalizeSource(citation.source)
        /\ d.section = citation.section
        /\ citation.page \in {0, d.page}

Positions == DOMAIN answer

\* A bracket is a pair of positions, of a "[" and of a "]".
Brackets == {k \in Positions : answer[k] = Open}
            \X {k \in Positions : answer[k] = Close}

Inside(b) == NormalizeCitation(SubSeq(answer, b[1] + 1, b[2] - 1))

\* A bracket is a citation when its inside has a separator.
IsCitation(b) == Separators(Inside(b)) # {}

Resolves(b) == Valid(parseCitation(Inside(b)), documents)

------------------------------------------------------------------------------
Init ==
    /\ answer \in Answers
    /\ documents \in Contexts
    /\ phase = "scan"
    /\ offset = 0
    /\ spans = {}
    /\ cursor = 1
    /\ kept = {}
    /\ spaced = {}
    /\ stripped = 0

\* The first "[" behind the offset.
NextOpen(k) ==
    /\ k \in Positions /\ offset < k /\ answer[k] = Open
    /\ \A l \in (offset + 1)..(k - 1) : answer[l] # Open

\* That and the first "]" behind it.
NextBracket(b) ==
    /\ NextOpen(b[1]) /\ b[1] < b[2]
    /\ \A k \in (b[1] + 1)..(b[2] - 1) : answer[k] # Close

\* Faulty variant: the scan goes on behind the opening bracket.
ScanBracketInside ==
    /\ phase = "scan"
    /\ \E b \in Brackets :
          /\ NextBracket(b)
          /\ offset' = b[1]
          /\ spans' = IF IsCitation(b) THEN spans \cup {b} ELSE spans
    /\ UNCHANGED <<answer, documents, phase, cursor, kept, spaced, stripped>>

\* An iteration of ParseSpans.
ScanBracket ==
    /\ phase = "scan"
    /\ \E b \in Brackets :
          /\ NextBracket(b)
          /\ offset' = b[2]
          /\ spans' = IF IsCitation(b) THEN spans \cup {b} ELSE spans
    /\ UNCHANGED <<answer, documents, phase, cursor, kept, spaced, stripped>>

\* No "[" is left, or no "]" closes it; without a citation Strip returns the
\* answer as it is.
EndScan ==
    /\ phase = "scan"
    /\ \/ \A k \in Positions : offset < k => answer[k] # Open
       \/ \E k \in Positions :
             NextOpen(k) /\ \A l \in Positions : k < l => answer[l] # Close
    /\ offset' = 0
    /\ \/ /\ spans = {}
          /\ phase' = "done"
          /\ kept' = Positions
       \/ /\ spans # {}
          /\ phase' = "strip"
          /\ UNCHANGED kept
    /\ UNCHANGED <<answer, documents, spans, cursor, spaced, stripped>>

------------------------------------------------------------------------------
(* Strip's loop over the citations.                                          *)

NextSpan(b) ==
    /\ b \in spans
    /\ offset < b[1]
    /\ \A c \in spans : offset < c[1] => b[1] <= c[1]

KeepSpan ==
    /\ phase = "strip"
    /\ \E b \in spans :
          /\ NextSpan(b)
          /\ Resolves(b)
          /\ offset' = b[2]
    /\ UNCHANGED <<answer, documents, phase, spans, cursor, kept, spaced, stripped>>

\* The prefix copied before b ends, and the suffix behind b begins, with a word.
needsSeparator(b) ==
    /\ cursor < b[1] /\ b[2] < Len(answer)
    /\ answer[b[1] - 1] \in Words
    /\ answer[b[2] + 1] \in Words

\* Faulty variant: the prefix is cut behind the opening bracket.
RemoveSpanLate ==
    /\ phase = "strip"
    /\ \E b \in spans :
          /\ NextSpan(b)
          /\ ~Resolves(b)
          /\ kept' = kept \cup cursor..b[1]
          /\ spaced' = IF needsSeparator(b) THEN spaced \cup {b[1]} ELSE spaced
          /\ cursor' = b[2] + 1
          /\ offset' = b[2]
    /\ stripped' = stripped + 1
    /\ UNCHANGED <<answer, documents, phase, spans>>

\* Faulty variant: the cursor is set to where the citation begins.
RemoveSpanTwice ==
    /\ phase = "strip"
    /\ \E b \in spans :
          /\ NextSpan(b)
          /\ ~Resolves(b)
          /\ kept' = kept \cup cursor..(b[1] - 1)
          /\ spaced' = IF needsSeparator(b) THEN spaced \cup {b[1] - 1} ELSE spaced
          /\ cursor' = b[1]
          /\ offset' = b[2]
    /\ stripped' = stripped + 1
    /\ UNCHANGED <<answer, documents, phase, spans>>

RemoveSpan ==
    /\ phase = "strip"
    /\ \E b \in spans :
          /\ NextSpan(b)
          /\ ~Resolves(b)
          /\ kept' = kept \cup cursor..(b[1] - 1)
          /\ spaced' = IF needsSeparator(b) THEN spaced \cup {b[1] - 1} ELSE spaced
          /\ cursor' = b[2] + 1
          /\ offset' = b[2]
    /\ stripped' = stripped + 1
    /\ UNCHANGED <<answer, documents, phase, spans>>

\* The rest of the answer is copied.
Finish ==
    /\ phase = "strip"
    /\ \A b \in spans : b[1] <= offset
    /\ kept' = kept \cup cursor..Len(answer)
    /\ phase' = "done"
    /\ UNCHANGED <<answer, documents, offset, spans, cursor, spaced, stripped>>

Returned == phase = "done" /\ UNCHANGED vars

Next == ScanBracket \/ EndScan \/ KeepSpan \/ RemoveSpan \/ Finish \/ Returned

Spec == Init /\ [][Next]_vars
------------------------------------------------------------------------------
(* Properties.                                                               *)

\* The brackets ParseSpans reads in the tokens S: from a "[" that no earlier "["
\* left open, to the first "]" behind it.
BracketIn(S, b) ==
    /\ b[1] \in S /\ b[2] \in S /\ b[1] < b[2]
    /\ \A k \in S : b[1] < k /\ k < b[2] => answer[k] # Close
    /\ \A k \in S : k < b[1] /\ answer[k] = Open
          => \E m \in S : k < m /\ m < b[1] /\ answer[m] = Close

AnswerCitations == {b \in Brackets : BracketIn(Positions, b) /\ IsCitation(b)}
Invalid == {b \in AnswerCitations : ~Resolves(b)}

\* The variables keep their types, and the loops stop behind closing brackets.
TypeOK ==
    /\ answer \in Seq(STRING)
    /\ documents \in Contexts
    /\ phase \in {"scan", "strip", "done"}
    /\ offset = 0 \/ (offset \in Positions /\ answer[offset] = Close)
    /\ spans \subseteq Brackets
    /\ cursor \in 1..(Len(answer) + 1)
    /\ kept \subseteq Positions
    /\ spaced \subseteq Positions
    /\ stripped \in Nat

\* A citation as it is written: a pair of brackets with no bracket between them
\* and a separator.  An unclosed "[" before it is not part of it.
IsWritten(b) ==
    /\ b \in Brackets /\ b[1] < b[2] /\ IsCitation(b)
    /\ \A k \in Positions :
          b[1] < k /\ k < b[2] => answer[k] \notin {Open, Close}

\* A "[" in front of position k that nothing has closed there.
LeftOpen(k) ==
    \E j \in Positions :
        /\ j < k /\ answer[j] = Open
        /\ \A m \in Positions : j < m /\ m < k => answer[m] # Close

\* The one pass over the brackets, which never looks back, finds a citation
\* exactly when no "[" is left open in front of it, and otherwise finds it as the
\* end of a longer one: a stray "]", a bracket that is no citation or another
\* citation never hides one, none is dropped and none is counted twice.  It
\* finds nothing else than citations and brackets that an unclosed "[" begins:
\* such a "[" is not skipped, as citations.go:58-61 says, but hides what it takes.
CitationsFound ==
    phase = "done" =>
        /\ \A b \in Brackets : IsWritten(b) =>
              /\ b \in spans <=> ~LeftOpen(b[1])
              /\ \E c \in spans : c[1] <= b[1] /\ c[2] = b[2]
        /\ \A b, c \in spans : b = c \/ b[2] < c[1] \/ c[2] < b[1]
        /\ \A c \in spans : IsWritten(c) \/
              \E k \in Positions : c[1] < k /\ k < c[2] /\ answer[k] = Open

\* Strip "never removes anything but the invalid citation and that separating
\* space" (citations.go:209-210), and counts what it removed.
OnlyInvalidRemoved ==
    phase = "done" =>
        /\ kept = Positions \ UNION {b[1]..b[2] : b \in Invalid}
        /\ \A k \in spaced : k \in kept /\ k + 1 \notin kept
        /\ stripped = Cardinality(Invalid)

\* "no invalid citation is rendered as if valid" (citations.go:2-3): the brackets
\* of the stripped answer are whole brackets of the answer, although text on
\* both sides of a removal has met, and those that are citations are exactly the
\* answer's valid ones.
ResultCitationsValid ==
    phase = "done" =>
        /\ \A b \in Brackets : BracketIn(kept, b) =>
              b[1]..b[2] \subseteq kept /\ b[1]..(b[2] - 1) \cap spaced = {}
        /\ {b \in Brackets : BracketIn(kept, b) /\ IsCitation(b)}
              = AnswerCitations \ Invalid
==============================================================================
