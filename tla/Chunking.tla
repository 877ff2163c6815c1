------------------------------- MODULE Chunking -------------------------------
(***************************************************************************)
(* What `cmd/ingest` does before it connects: the chunking settings are     *)
(* read and checked (internal/config), the file is loaded as sections by    *)
(* the loader of its format (internal/loader, internal/document), and every *)
(* section is cut into overlapping windows of words (internal/chunking).    *)
(*                                                                          *)
(* A file is a sequence of parts: the text before the first "## " heading   *)
(* and one part per heading for Markdown, the whole file for plain text,    *)
(* the pages for a PDF.  Only the number of words of a part matters: its    *)
(* words are named by their positions, and the content of a section or of a *)
(* chunk by the part and the positions it holds.  A title is a number, page *)
(* N's being N; two titles matter only by being equal.  Positions count     *)
(* from 1 except Chunk.Index, which counts from 0 as in the code.           *)
(***************************************************************************)
EXTENDS Integers, Sequences, FiniteSets, Functions

CONSTANTS WordCounts,        \* the lengths of a part, in words
          MaxParts,          \* bound on the parts of a file
          SizeSettings,      \* the values of CHUNK_SIZE
          OverlapSettings,   \* the values of CHUNK_OVERLAP
          Unset, NotANumber, \* a variable that is blank, or no integer
          DefaultChunkSize,
          DefaultChunkOverlap

ASSUME ChunkingAssumption ==
    /\ WordCounts \subseteq Nat
    /\ MaxParts \in Nat
    /\ Unset \notin Int /\ NotANumber \notin Int
    /\ DefaultChunkSize \in Nat \ {0}
    /\ DefaultChunkOverlap \in Nat

VARIABLES input, size, ovl,    \* the input file and the two settings' values
          stage,               \* "config", "load", "split", and the outcomes
                               \* "chunked", "empty" and "failed"
          chunkSize, overlap,  \* the validated settings
          sections,            \* what the loader returned
          at,                  \* the section FromSections is at
          start,               \* the words splitWords is past in that section
          documentIndex,       \* the counter shared by all sections
          chunks               \* the chunks made so far

chunkingVars == <<input, size, ovl, stage, chunkSize, overlap, sections, at,
                  start, documentIndex, chunks>>

inputs == <<input, size, ovl>>

Titles == 1..2

\* The length of a part that cannot be read: an unreadable file, a page that
\* is a null object or whose text cannot be extracted.
Unreadable == -1

Part == [title : Titles, words : WordCounts \cup {Unreadable}]

PartsOfLength(n) == [1..n -> Part]

Files ==
    [format : {"markdown"}, parts : UNION {PartsOfLength(n) : n \in 1..MaxParts}]
      \cup [format : {"text", "other"}, parts : PartsOfLength(1)]
      \cup [format : {"pdf"},
            parts : UNION {PartsOfLength(n) : n \in 0..MaxParts}]

ChunkingInit ==
    /\ input \in Files
    /\ size \in SizeSettings /\ ovl \in OverlapSettings
    /\ stage = "config"
    /\ chunkSize = 0 /\ overlap = 0
    /\ sections = <<>>
    /\ at = 1 /\ start = 0 /\ documentIndex = 0
    /\ chunks = <<>>

------------------------------------------------------------------------------
(* The settings.  An absent value takes its default; one that is no integer  *)
(* or out of range is an error, and so is an overlap that would stop the     *)
(* window from advancing.                                                    *)

Setting(value, default) == IF value = Unset THEN default ELSE value

PositiveInt(value) == value \in Int /\ value > 0

NonNegativeInt(value) == value \in Int /\ value >= 0

\* Faulty variant: an overlap equal to the chunk size is let through.
SettingsValidOffByOne ==
    /\ PositiveInt(Setting(size, DefaultChunkSize))
    /\ NonNegativeInt(Setting(ovl, DefaultChunkOverlap))
    /\ Setting(ovl, DefaultChunkOverlap) <= Setting(size, DefaultChunkSize)

SettingsValid ==
    /\ PositiveInt(Setting(size, DefaultChunkSize))
    /\ NonNegativeInt(Setting(ovl, DefaultChunkOverlap))
    /\ Setting(ovl, DefaultChunkOverlap) < Setting(size, DefaultChunkSize)

LoadConfig ==
    /\ stage = "config"
    /\ SettingsValid
    /\ chunkSize' = Setting(size, DefaultChunkSize)
    /\ overlap' = Setting(ovl, DefaultChunkOverlap)
    /\ stage' = "load"
    /\ UNCHANGED <<inputs, sections, at, start, documentIndex, chunks>>

ConfigFails ==
    /\ stage = "config"
    /\ ~SettingsValid
    /\ stage' = "failed"
    /\ UNCHANGED <<inputs, chunkSize, overlap, sections, at, start,
                   documentIndex, chunks>>

------------------------------------------------------------------------------
(* The loaders.  A section names the part of the file its content is.        *)

Section(part, title, page) ==
    [title |-> title, part |-> part, words |-> input.parts[part].words,
     page |-> page]

Readable == \A k \in DOMAIN input.parts : input.parts[k].words # Unreadable

\* ParseSections: what precedes the first heading is ignored.
MarkdownSections ==
    [k \in 1..(Len(input.parts) - 1) |->
        Section(k + 1, input.parts[k + 1].title, 0)]

\* A text file is one section under its base name, or none when it is blank.
TextSections ==
    IF input.parts[1].words = 0 THEN <<>> ELSE <<Section(1, 1, 0)>>

\* A page a section, with the page's number.
PDFSections == [k \in DOMAIN input.parts |-> Section(k, k, k)]

\* A PDF without pages or with a page without a text layer is an error.  When
\* other pages do have text the error comes with their sections, which
\* loadChunks drops.
PDFComplete ==
    /\ input.parts # <<>>
    /\ \A k \in DOMAIN input.parts : input.parts[k].words > 0

\* The registry has a loader for the format, and the loader returns no error.
Loads ==
    /\ input.format \in {"markdown", "text", "pdf"}
    /\ Readable
    /\ input.format = "pdf" => PDFComplete

Sections ==
    IF input.format = "markdown" THEN MarkdownSections
    ELSE IF input.format = "text" THEN TextSections
    ELSE PDFSections

LoadFile ==
    /\ stage = "load"
    /\ Loads
    /\ sections' = Sections
    /\ stage' = "split"
    /\ UNCHANGED <<inputs, chunkSize, overlap, at, start, documentIndex,
                   chunks>>

LoadFails ==
    /\ stage = "load"
    /\ ~Loads
    /\ stage' = "failed"
    /\ UNCHANGED <<inputs, chunkSize, overlap, sections, at, start,
                   documentIndex, chunks>>

------------------------------------------------------------------------------
(* FromSections and splitWords.                                              *)

\* splitWords returns nothing for a window that could not advance.
Splits(sec) ==
    sec.words > 0 /\ chunkSize > 0 /\ overlap >= 0 /\ overlap < chunkSize

\* The chunk of words first..last of a section.
Chunk(sec, first, last) ==
    [title |-> sec.title, part |-> sec.part, from |-> first, to |-> last,
     index |-> documentIndex, page |-> sec.page]

AppendChunk(first, last) ==
    /\ chunks' = Append(chunks, Chunk(sections[at], first, last))
    /\ documentIndex' = documentIndex + 1

SkipSection ==
    /\ stage = "split" /\ at \in DOMAIN sections
    /\ ~Splits(sections[at])
    /\ at' = at + 1
    /\ UNCHANGED <<inputs, stage, chunkSize, overlap, sections, start,
                   documentIndex, chunks>>

\* Faulty variant: the counter starts again for the next section.
WholeSectionRestarting ==
    /\ stage = "split" /\ at \in DOMAIN sections
    /\ Splits(sections[at])
    /\ sections[at].words <= chunkSize
    /\ chunks' = Append(chunks, Chunk(sections[at], 1, sections[at].words))
    /\ documentIndex' = 0
    /\ at' = at + 1
    /\ UNCHANGED <<inputs, stage, chunkSize, overlap, sections, start>>

\* A section that fits one window is one chunk.
WholeSection ==
    /\ stage = "split" /\ at \in DOMAIN sections
    /\ Splits(sections[at])
    /\ sections[at].words <= chunkSize
    /\ AppendChunk(1, sections[at].words)
    /\ at' = at + 1
    /\ UNCHANGED <<inputs, stage, chunkSize, overlap, sections, start>>

\* Faulty variant: the loop runs while a window starts inside the section,
\* past the window that reached its end.
WindowUnbroken ==
    /\ stage = "split" /\ at \in DOMAIN sections
    /\ Splits(sections[at])
    /\ sections[at].words > chunkSize
    /\ LET words == sections[at].words
           end   == IF start + chunkSize > words THEN words
                    ELSE start + chunkSize
           step  == chunkSize - overlap
       IN  /\ AppendChunk(start + 1, end)
           /\ start' = IF start + step >= words THEN 0 ELSE start + step
           /\ at' = IF start + step >= words THEN at + 1 ELSE at
    /\ UNCHANGED <<inputs, stage, chunkSize, overlap, sections>>

\* A longer one is cut into windows; the one that reaches its end is the last.
Window ==
    /\ stage = "split" /\ at \in DOMAIN sections
    /\ Splits(sections[at])
    /\ sections[at].words > chunkSize
    /\ LET words == sections[at].words
           end   == IF start + chunkSize > words THEN words
                    ELSE start + chunkSize
           step  == chunkSize - overlap
       IN  /\ AppendChunk(start + 1, end)
           /\ start' = IF end = words THEN 0 ELSE start + step
           /\ at' = IF end = words THEN at + 1 ELSE at
    /\ UNCHANGED <<inputs, stage, chunkSize, overlap, sections>>

\* No chunk at all is the "no sections found" error.
Finish ==
    /\ stage = "split" /\ at \notin DOMAIN sections
    /\ stage' = IF chunks = <<>> THEN "empty" ELSE "chunked"
    /\ UNCHANGED <<inputs, chunkSize, overlap, sections, at, start,
                   documentIndex, chunks>>

Ended == stage \in {"chunked", "empty", "failed"} /\ UNCHANGED chunkingVars

ChunkingNext ==
    \/ LoadConfig \/ ConfigFails
    \/ LoadFile \/ LoadFails
    \/ SkipSection \/ WholeSection \/ Window \/ Finish
    \/ Ended

ChunkingSpec == ChunkingInit /\ [][ChunkingNext]_chunkingVars

------------------------------------------------------------------------------
(* Properties                                                                *)

SectionType == [title : Nat, part : Nat, words : Nat, page : Nat]

ChunkType == [title : Nat, part : Nat, from : Nat, to : Nat, index : Nat,
              page : Nat]

\* Every variable holds a value of its type.
ChunkingTypeOK ==
    /\ input \in Files
    /\ size \in SizeSettings /\ ovl \in OverlapSettings
    /\ stage \in {"config", "load", "split", "chunked", "empty", "failed"}
    /\ chunkSize \in Nat /\ overlap \in Nat
    /\ sections \in Seq(SectionType)
    /\ at \in Nat \ {0} /\ start \in Nat /\ documentIndex \in Nat
    /\ chunks \in Seq(ChunkType)

\* The parts the loader of the file's format is to read: everything from the
\* first heading on, or the whole file.
Visible ==
    IF input.format = "markdown" THEN DOMAIN input.parts \ {1}
    ELSE DOMAIN input.parts

\* Ingestion is told of a document only when it is whole: every word of every
\* visible part is in a chunk and, for a PDF, no page was without text.  A
\* file said to have no sections has no visible word, so a setting that makes
\* no window is never mistaken for an empty file.
NothingLost ==
    /\ stage = "chunked" =>
         \A p \in Visible :
           /\ \A w \in 1..input.parts[p].words :
                \E k \in DOMAIN chunks :
                   chunks[k].part = p /\ w \in chunks[k].from..chunks[k].to
           /\ input.format = "pdf" => input.parts[p].words > 0
    /\ stage = "empty" => \A p \in Visible : input.parts[p].words = 0

\* Two consecutive chunks of a section share exactly the configured overlap
\* and each holds a word the other does not; no chunk exceeds the chunk size.
\* A window repeated or skipped at the end of a section breaks it.
WindowsOverlap ==
    /\ \A k \in DOMAIN chunks :
         chunks[k].to - chunks[k].from + 1 \in 1..chunkSize
    /\ \A k \in 1..(Len(chunks) - 1) :
         chunks[k].part = chunks[k + 1].part =>
           /\ chunks[k].to - chunks[k + 1].from + 1 = overlap
           /\ chunks[k].from < chunks[k + 1].from
           /\ chunks[k].to < chunks[k + 1].to

\* Chunk c is before chunk d in the document.
Before(c, d) == c.part < d.part \/ (c.part = d.part /\ c.from < d.from)

\* Retrieval reads chunks back ordered by chunk_index.  The indexes of a file
\* count from 0 without a gap, and their order is the order of the document
\* over all its sections, repeated headings included; a chunk's page is the page
\* its words are on.
ReadsInOrder ==
    /\ {chunks[k].index : k \in DOMAIN chunks} = 0..(Len(chunks) - 1)
    /\ \A j, k \in DOMAIN chunks :
         chunks[j].index < chunks[k].index <=> Before(chunks[j], chunks[k])
    /\ \A k \in DOMAIN chunks :
         chunks[k].page = IF input.format = "pdf" THEN chunks[k].part ELSE 0
==============================================================================
