----------------------------- MODULE MCCitations -----------------------------
(***************************************************************************)
(* Instances of Citations for TLC: every answer put together from up to     *)
(* four pieces: words, punctuation, single brackets, and citations that     *)
(* resolve, do not, or claim a page.                                        *)
(***************************************************************************)
EXTENDS Citations, SequencesExt

Doc(source, section, page) == [source |-> <<source>>, section |-> section, page |-> page]

\* The chunk "Fees", paginated, and a section whose title has a separator.
MCContext  == {Doc("a.md", <<"Fees">>, 3),
               Doc("b.md", <<"Late", Hyphen, "Grace">>, 0)}
MCContexts == {MCContext}

MCWords      == {"word", "a.md", "A", "b.md", "Fees", "Late", "Grace", "p.3", "p.9"}
MCCanon      == [t \in {"a.md", "A", "b.md"} |-> IF t = "b.md" THEN "b" ELSE "a"]
MCPageNumber == [t \in {"p.3", "p.9"} |-> IF t = "p.3" THEN 3 ELSE 9]

MCPieces ==
    {<<"word">>, <<".">>, <<Open>>, <<Close>>, <<Hyphen>>,
     <<Open, Space, "A", EnDash, "Fees", Space, Close>>,
     <<Open, "a.md", Hyphen, "Fees", Hyphen, "p.3", Close>>,
     <<Open, "a.md", Hyphen, "Fees", Hyphen, "p.9", Close>>,
     <<Open, "b.md", Hyphen, "Late", Hyphen, "Grace", Close>>,
     <<Open, "a.md", Hyphen, "Late", Close>>}

MCPieceCount == 4

MCAnswers == {FlattenSeq(p) : p \in UNION {[1..n -> MCPieces] : n \in 0..MCPieceCount}}
==============================================================================
