--------------------------- MODULE IngestionProofs ---------------------------
(***************************************************************************)
(* Proofs about cmd/ingest: the cutting of a file into chunks (Chunking),   *)
(* the worker pool that embeds them (EmbedPool) and the transaction that    *)
(* stores them (Ingestion), in this order.  The three modules share no      *)
(* name: each theorem is about the specification it names.                  *)
(***************************************************************************)
EXTENDS Ingestion, EmbedPool, Chunking, FiniteSetTheorems, SequenceTheorems,
        TLAPS

------------------------------------------------------------------------------
(* Chunking, for any file, window size and overlap: what is handed on is the *)
(* whole document, in order, in windows that overlap by exactly the setting. *)
(*                                                                           *)
(* The inductive invariant says how far the two loops are: every section     *)
(* before `at` is covered, section `at` is covered up to `start + overlap`,  *)
(* where its last window ends, and every chunk is before what is to come.    *)

Loaded == stage \in {"split", "chunked", "empty"}

Checked == stage = "load" \/ Loaded

\* The settings let a window advance.
WindowAdvances == Checked => chunkSize > 0 /\ overlap < chunkSize

\* Before the sections are there nothing is.
NotBegun ==
    ~Loaded => sections = <<>> /\ chunks = <<>> /\ at = 1 /\ start = 0
               /\ documentIndex = 0

SectionsGiven == Loaded => Loads /\ sections = Sections

AtBound == at <= Len(sections) + 1 /\ (stage \in {"chunked", "empty"} =>
                                          at = Len(sections) + 1)

OutcomeTold == /\ stage = "empty" => chunks = <<>>
               /\ stage = "chunked" => chunks # <<>>

Indexed ==
    /\ documentIndex = Len(chunks)
    /\ \A k \in DOMAIN chunks : chunks[k].index = k - 1

Paged ==
    \A k \in DOMAIN chunks :
        chunks[k].page = IF input.format = "pdf" THEN chunks[k].part ELSE 0

Sized ==
    \A k \in DOMAIN chunks :
        /\ 1 <= chunks[k].from /\ chunks[k].from <= chunks[k].to
        /\ chunks[k].to - chunks[k].from + 1 <= chunkSize

Ordered ==
    \A j, k \in DOMAIN chunks : j < k => Before(chunks[j], chunks[k])

Overlapping ==
    \A k \in 1..(Len(chunks) - 1) :
        chunks[k].part = chunks[k + 1].part =>
          /\ chunks[k].to - chunks[k + 1].from + 1 = overlap
          /\ chunks[k].to < chunks[k + 1].to

\* No chunk is of a section still to come.
Ahead ==
    \A k \in DOMAIN chunks : \A s \in DOMAIN sections :
        s > at \/ (s = at /\ start = 0) => chunks[k].part < sections[s].part

\* In the middle of a section the last chunk is its window before `start`.
Underway ==
    start > 0 =>
      /\ stage = "split" /\ at \in DOMAIN sections
      /\ Len(chunks) > 0
      /\ chunks[Len(chunks)].part = sections[at].part
      /\ chunks[Len(chunks)].from = start - (chunkSize - overlap) + 1
      /\ chunks[Len(chunks)].to = start + overlap
      /\ start + overlap < sections[at].words
      /\ chunkSize < sections[at].words

InChunk(p, w) ==
    \E k \in DOMAIN chunks :
        chunks[k].part = p /\ w \in chunks[k].from..chunks[k].to

Covered ==
    \A s \in DOMAIN sections : \A w \in 1..sections[s].words :
        s < at \/ (s = at /\ start > 0 /\ w <= start + overlap) =>
            InChunk(sections[s].part, w)

Loop ==
    /\ WindowAdvances /\ NotBegun /\ SectionsGiven /\ AtBound /\ OutcomeTold
    /\ Indexed /\ Paged /\ Sized /\ Ordered /\ Overlapping /\ Ahead
    /\ Underway /\ Covered

ChunkingInv == ChunkingTypeOK /\ Loop

------------------------------------------------------------------------------
(* What a loader returns: sections of the file's parts, in order, all of     *)
(* those with a word among them.                                             *)

LEMMA FileType ==
    ASSUME input \in Files
    PROVE  /\ input.parts \in Seq(Part)
           /\ input.format \in {"markdown", "text", "pdf", "other"}
           /\ input.format \in {"text", "markdown"} => 1 \in DOMAIN input.parts
           /\ input.format = "text" => DOMAIN input.parts = {1}
  <1>1. \A n \in Nat : \A parts \in [1..n -> Part] :
          parts \in Seq(Part) /\ DOMAIN parts = 1..n
    OBVIOUS
  <1>2. 1..MaxParts \subseteq Nat /\ 0..MaxParts \subseteq Nat /\ 1 \in Nat
    BY ChunkingAssumption
  <1>3. CASE input.format = "markdown"
    <2>1. PICK n \in 1..MaxParts : input.parts \in [1..n -> Part]
      BY <1>3 DEF Files, PartsOfLength
    <2> QED BY <1>1, <1>2, <1>3, <2>1
  <1>4. CASE input.format \in {"text", "other"}
    <2>1. input.parts \in [1..1 -> Part]
      BY <1>4 DEF Files, PartsOfLength
    <2>2. input.parts \in Seq(Part) /\ DOMAIN input.parts = 1..1
      BY <1>1, <1>2, <2>1
    <2>3. 1..1 = {1}
      OBVIOUS
    <2>4. input.format \in {"markdown", "text", "pdf", "other"}
      BY <1>4
    <2> QED BY <2>2, <2>3, <2>4
  <1>5. CASE input.format = "pdf"
    <2>1. PICK n \in 0..MaxParts : input.parts \in [1..n -> Part]
      BY <1>5 DEF Files, PartsOfLength
    <2> QED BY <1>1, <1>2, <1>5, <2>1
  <1>6. input.format \in {"markdown", "text", "pdf", "other"}
    BY DEF Files
  <1> QED BY <1>3, <1>4, <1>5, <1>6

LEMMA PartWords ==
    ASSUME input \in Files, Loads, NEW p \in DOMAIN input.parts
    PROVE  p \in Nat \ {0} /\ input.parts[p].words \in Nat
                           /\ input.parts[p].title \in Nat
  <1>1. input.parts[p] \in Part /\ p \in 1..Len(input.parts)
          /\ Len(input.parts) \in Nat
    BY FileType
  <1>2. input.parts[p].words # Unreadable
    BY DEF Loads, Readable
  <1>3. input.parts[p].words \in WordCounts \cup {Unreadable}
          /\ input.parts[p].title \in 1..2
    BY <1>1 DEF Part, Titles
  <1>4. input.parts[p].words \in Nat
    BY <1>2, <1>3, ChunkingAssumption
  <1> QED BY <1>1, <1>3, <1>4

LEMMA SectionsOfParts ==
    ASSUME input \in Files, Loads
    PROVE  /\ Sections \in Seq(SectionType)
           /\ \A k \in DOMAIN Sections :
                /\ Sections[k].part \in Visible
                /\ Sections[k].words = input.parts[Sections[k].part].words
                /\ Sections[k].page =
                     IF input.format = "pdf" THEN Sections[k].part ELSE 0
           /\ \A j, k \in DOMAIN Sections :
                j < k => Sections[j].part < Sections[k].part
           /\ \A p \in Visible : input.parts[p].words > 0 =>
                \E k \in DOMAIN Sections : Sections[k].part = p
  <1> DEFINE n == Len(input.parts)
  <1>0. n \in Nat /\ DOMAIN input.parts = 1..n
    BY FileType
  <1>1. CASE input.format = "markdown"
    <2>1. n >= 1
      BY <1>0, <1>1, FileType
    <2>2. Sections = [k \in 1..(n - 1) |-> Section(k + 1,
                                             input.parts[k + 1].title, 0)]
      BY <1>1 DEF Sections, MarkdownSections
    <2>3. \A k \in 1..(n - 1) : Section(k + 1, input.parts[k + 1].title, 0)
                                  \in SectionType
      BY <1>0, <2>1, PartWords DEF Section, SectionType
    <2>4. Sections \in Seq(SectionType) /\ DOMAIN Sections = 1..(n - 1)
      BY <1>0, <2>1, <2>2, <2>3
    <2>5. Visible = 2..n
      BY <1>0, <1>1, <2>1 DEF Visible
    <2>6. \A k \in 1..(n - 1) :
            /\ Sections[k].part = k + 1 /\ Sections[k].page = 0
            /\ Sections[k].words = input.parts[k + 1].words
      BY <2>2 DEF Section
    <2>7. \A p \in 2..n : p - 1 \in 1..(n - 1) /\ (p - 1) + 1 = p
      BY <1>0
    <2>8. \A k \in 1..(n - 1) : k + 1 \in 2..n
      BY <1>0, <2>1
    <2>9. \A p \in Visible : \E k \in DOMAIN Sections : Sections[k].part = p
      <3> TAKE p \in Visible
      <3>1. p - 1 \in 1..(n - 1) /\ (p - 1) + 1 = p
        BY <2>5, <2>7
      <3>2. p - 1 \in DOMAIN Sections /\ Sections[p - 1].part = p
        BY <2>4, <2>6, <3>1
      <3> QED BY <3>2
    <2>10. \A k \in DOMAIN Sections :
             /\ Sections[k].part \in Visible
             /\ Sections[k].words = input.parts[Sections[k].part].words
             /\ Sections[k].page =
                  IF input.format = "pdf" THEN Sections[k].part ELSE 0
      BY <1>1, <2>4, <2>5, <2>6, <2>8
    <2>11. \A j, k \in DOMAIN Sections :
             j < k => Sections[j].part < Sections[k].part
      BY <2>4, <2>6
    <2> QED BY <2>4, <2>9, <2>10, <2>11
  <1>2. CASE input.format = "text"
    <2>1. Visible = {1} /\ DOMAIN input.parts = {1}
      BY <1>2, FileType DEF Visible
    <2>2. input.parts[1].words \in Nat
      BY <2>1, PartWords
    <2>3. Sections = IF input.parts[1].words = 0 THEN <<>>
                                                ELSE <<Section(1, 1, 0)>>
      BY <1>2 DEF Sections, TextSections
    <2>4. Section(1, 1, 0) \in SectionType
      BY <2>2 DEF Section, SectionType
    <2>5. Section(1, 1, 0).part = 1 /\ Section(1, 1, 0).page = 0
            /\ Section(1, 1, 0).words = input.parts[1].words
      BY DEF Section
    <2>6. CASE input.parts[1].words = 0
      BY <2>1, <2>3, <2>6
    <2>7. CASE input.parts[1].words # 0
      <3>1. Sections = <<Section(1, 1, 0)>>
        BY <2>3, <2>7
      <3>2. Sections \in Seq(SectionType) /\ DOMAIN Sections = {1}
              /\ Sections[1] = Section(1, 1, 0)
        BY <2>4, <3>1
      <3> QED BY <1>2, <2>1, <2>5, <3>2
    <2> QED BY <2>6, <2>7
  <1>3. CASE input.format = "pdf"
    <2>1. Sections = [k \in 1..n |-> Section(k, k, k)] /\ Visible = 1..n
      BY <1>0, <1>3 DEF Sections, PDFSections, Visible
    <2>2. \A k \in 1..n : Section(k, k, k) \in SectionType
      BY <1>0, PartWords DEF Section, SectionType
    <2>3. Sections \in Seq(SectionType) /\ DOMAIN Sections = 1..n
      BY <1>0, <2>1, <2>2
    <2>4. \A k \in 1..n : /\ Sections[k].part = k /\ Sections[k].page = k
                          /\ Sections[k].words = input.parts[k].words
      BY <2>1 DEF Section
    <2> QED BY <1>3, <2>1, <2>3, <2>4
  <1> QED BY <1>1, <1>2, <1>3 DEF Loads

------------------------------------------------------------------------------
(* Each conjunct of the invariant survives one more chunk.  The chunk is     *)
(* words start + 1 to last of section `at`; it is the section's last one, or *)
(* it fills a window and the next one starts a step further on.              *)

NextChunk(last) ==
    /\ stage = "split" /\ at \in DOMAIN sections
    /\ Splits(sections[at])
    /\ last \in Nat /\ start + 1 <= last /\ last <= start + chunkSize
    /\ last <= sections[at].words
    /\ start > 0 => start + overlap < last
    /\ chunks' = Append(chunks, Chunk(sections[at], start + 1, last))
    /\ documentIndex' = documentIndex + 1
    /\ \/ /\ last = sections[at].words /\ at' = at + 1 /\ start' = 0
       \/ /\ last < sections[at].words /\ last = start + chunkSize
          /\ at' = at /\ start' = start + (chunkSize - overlap)
    /\ UNCHANGED <<inputs, stage, chunkSize, overlap, sections>>

LEMMA WindowIsNextChunk ==
    ASSUME ChunkingInv, Window
    PROVE  \E last : NextChunk(last)
  <1> DEFINE words == sections[at].words
             end   == IF start + chunkSize > words THEN words
                      ELSE start + chunkSize
  <1>1. /\ stage = "split" /\ at \in DOMAIN sections
        /\ sections[at] \in SectionType /\ Splits(sections[at])
        /\ chunkSize < words
    BY DEF ChunkingInv, ChunkingTypeOK, Window
  <1>2. words \in Nat /\ start \in Nat /\ chunkSize \in Nat /\ overlap \in Nat
          /\ 0 < chunkSize /\ overlap < chunkSize
    BY <1>1 DEF ChunkingInv, ChunkingTypeOK, SectionType, Splits
  <1>3. start > 0 => start + overlap < words
    BY DEF ChunkingInv, Loop, Underway
  <1>4. start < words
    BY <1>1, <1>2, <1>3
  <1>5. end \in Nat /\ start + 1 <= end /\ end <= start + chunkSize
          /\ end <= words /\ (start > 0 => start + overlap < end)
          /\ (end # words => end < words /\ end = start + chunkSize)
    BY <1>2, <1>3, <1>4
  <1>6. /\ chunks' = Append(chunks, Chunk(sections[at], start + 1, end))
        /\ documentIndex' = documentIndex + 1
        /\ start' = IF end = words THEN 0 ELSE start + (chunkSize - overlap)
        /\ at' = IF end = words THEN at + 1 ELSE at
        /\ UNCHANGED <<inputs, stage, chunkSize, overlap, sections>>
    BY DEF Window, AppendChunk
  <1> HIDE DEF end
  <1>7. NextChunk(end)
    BY <1>1, <1>5, <1>6 DEF NextChunk
  <1> QED BY <1>7

LEMMA WholeSectionIsNextChunk ==
    ASSUME ChunkingInv, WholeSection
    PROVE  \E last : NextChunk(last)
  <1>1. /\ stage = "split" /\ at \in DOMAIN sections
        /\ sections[at] \in SectionType /\ Splits(sections[at])
        /\ sections[at].words <= chunkSize
    BY DEF ChunkingInv, ChunkingTypeOK, WholeSection
  <1>2. sections[at].words \in Nat /\ chunkSize \in Nat
          /\ sections[at].words > 0 /\ start \in Nat
    BY <1>1 DEF ChunkingInv, ChunkingTypeOK, SectionType, Splits
  <1>3. start = 0
    BY <1>1, <1>2 DEF ChunkingInv, Loop, Underway
  <1>4. NextChunk(sections[at].words)
    BY <1>1, <1>2, <1>3 DEF WholeSection, AppendChunk, NextChunk
  <1> QED BY <1>4

LEMMA NextChunkKeepsType ==
    ASSUME ChunkingInv, NEW last, NextChunk(last)
    PROVE  ChunkingTypeOK'
  <1> DEFINE new == Chunk(sections[at], start + 1, last)
  <1>1. sections[at] \in SectionType
    BY DEF ChunkingInv, ChunkingTypeOK, NextChunk
  <1>2. new \in ChunkType
    <2>1. start + 1 \in Nat /\ last \in Nat /\ documentIndex \in Nat
      BY DEF ChunkingInv, ChunkingTypeOK, NextChunk
    <2> QED
      BY <1>1, <2>1 DEF Chunk, ChunkType, SectionType
  <1>3. chunks' \in Seq(ChunkType)
    BY <1>2 DEF ChunkingInv, ChunkingTypeOK, NextChunk
  <1>4. start' \in Nat /\ at' \in Nat \ {0}
    BY DEF ChunkingInv, ChunkingTypeOK, NextChunk, Splits
  <1> QED BY <1>3, <1>4 DEF ChunkingInv, ChunkingTypeOK, NextChunk, inputs

LEMMA NextChunkKeepsLoop ==
    ASSUME ChunkingInv, NEW last, NextChunk(last)
    PROVE  Loop'
  <1> DEFINE new  == Chunk(sections[at], start + 1, last)
             c    == chunks[Len(chunks)]
             step == chunkSize - overlap
  <1>1. /\ stage = "split" /\ Loaded /\ at \in DOMAIN sections
        /\ sections \in Seq(SectionType) /\ chunks \in Seq(ChunkType)
        /\ UNCHANGED <<inputs, stage, chunkSize, overlap, sections>>
    BY DEF ChunkingInv, ChunkingTypeOK, NextChunk, Loaded
  <1>2. /\ Len(chunks) \in Nat /\ DOMAIN chunks = 1..Len(chunks)
        /\ Len(sections) \in Nat /\ DOMAIN sections = 1..Len(sections)
        /\ at \in Nat /\ start \in Nat /\ last \in Nat
        /\ chunkSize \in Nat /\ overlap \in Nat /\ documentIndex \in Nat
        /\ sections[at].words \in Nat /\ sections[at].part \in Nat
    <2>1. sections[at] \in SectionType
      BY <1>1
    <2>2. sections[at].words \in Nat /\ sections[at].part \in Nat
      BY <2>1 DEF SectionType
    <2>3. last \in Nat
      BY DEF NextChunk
    <2>4. /\ Len(chunks) \in Nat /\ DOMAIN chunks = 1..Len(chunks)
          /\ Len(sections) \in Nat /\ DOMAIN sections = 1..Len(sections)
      BY <1>1
    <2> QED BY <2>2, <2>3, <2>4 DEF ChunkingInv, ChunkingTypeOK
  <1>3. /\ new.part = sections[at].part /\ new.page = sections[at].page
        /\ new.from = start + 1 /\ new.to = last
        /\ new.index = documentIndex
    BY DEF Chunk
  <1> HIDE DEF new
  <1>4. /\ Len(chunks') = Len(chunks) + 1
        /\ DOMAIN chunks' = 1..(Len(chunks) + 1)
        /\ \A k \in DOMAIN chunks : chunks'[k] = chunks[k]
        /\ chunks'[Len(chunks) + 1] = new
    <2>1. chunks' = Append(chunks, new)
      BY DEF NextChunk, new
    <2> QED BY <1>1, <1>2, <2>1
  <1>5. \A k \in DOMAIN chunks' : k \in DOMAIN chunks \/ k = Len(chunks) + 1
    BY <1>2, <1>4
  <1>6. \A k \in DOMAIN chunks : k \in Nat
          /\ chunks[k].part \in Nat /\ chunks[k].from \in Nat
          /\ chunks[k].to \in Nat
    <2> TAKE k \in DOMAIN chunks
    <2>1. chunks[k] \in ChunkType /\ k \in Nat
      BY <1>1, <1>2
    <2> QED BY <2>1 DEF ChunkType
  <1>7. WindowAdvances' /\ NotBegun' /\ OutcomeTold'
    BY <1>1 DEF ChunkingInv, Loop, WindowAdvances, NotBegun, OutcomeTold, Checked,
                Loaded
  <1>8. SectionsGiven'
    <2>1. UNCHANGED <<input, stage, sections>>
      BY <1>1 DEF inputs
    <2>2. input.format' = input.format /\ input.parts' = input.parts
      BY <2>1
    <2> QED BY <1>1, <2>1, <2>2
        DEF ChunkingInv, Loop, SectionsGiven, Loaded, Loads, Readable, PDFComplete,
            Sections, MarkdownSections, TextSections, PDFSections, Section
  <1>9. AtBound'
    BY <1>1, <1>2 DEF NextChunk, AtBound
  <1>10. Indexed'
    BY <1>2, <1>3, <1>4, <1>5 DEF ChunkingInv, Loop, Indexed, NextChunk
  <1>11. Paged'
    <2>1. input \in Files /\ Loads /\ sections = Sections
      BY <1>1 DEF ChunkingInv, ChunkingTypeOK, Loop, SectionsGiven
    <2>2. new.page = IF input.format = "pdf" THEN new.part ELSE 0
      BY <1>1, <1>3, <2>1, SectionsOfParts
    <2> QED BY <1>1, <1>4, <1>5, <2>2 DEF ChunkingInv, Loop, Paged, inputs
  <1>12. Sized'
    <2>1. 1 <= new.from /\ new.from <= new.to
            /\ new.to - new.from + 1 <= chunkSize
      BY <1>2, <1>3 DEF NextChunk
    <2> QED BY <1>1, <1>4, <1>5, <2>1 DEF ChunkingInv, Loop, Sized
  <1>13. ASSUME start > 0
         PROVE  /\ Len(chunks) \in DOMAIN chunks
                /\ c.part = new.part /\ c.from = new.from - step
                /\ c.to = start + overlap
                /\ c.from < new.from /\ c.to < new.to
                /\ c.to - new.from + 1 = overlap
    <2>1. /\ Len(chunks) > 0 /\ c.part = sections[at].part
          /\ c.from = start - step + 1 /\ c.to = start + overlap
      BY <1>13 DEF ChunkingInv, Loop, Underway
    <2>2. Len(chunks) \in DOMAIN chunks
      BY <1>2, <2>1
    <2>3. start + overlap < last /\ overlap < chunkSize
      BY <1>1, <1>2, <1>13
         DEF NextChunk, ChunkingInv, Loop, WindowAdvances, Checked
    <2>4. c.part = new.part
      BY <1>3, <2>1
    <2>5. c.from \in Nat /\ c.to \in Nat
      BY <1>6, <2>2
    <2>6. c.from = new.from - step /\ c.to - new.from + 1 = overlap
      <3>1. step \in Int
        BY <1>2
      <3>2. \A i, j, k \in Int : i - j + 1 = (i + 1) - j
                                /\ (i + k) - (i + 1) + 1 = k
        OBVIOUS
      <3> HIDE DEF c, step
      <3> QED BY <1>2, <1>3, <2>1, <3>1, <3>2
    <2>7. c.from < new.from /\ c.to < new.to
      BY <1>2, <1>3, <2>1, <2>3
    <2> QED BY <2>1, <2>2, <2>4, <2>6, <2>7
  <1>14. \A k \in DOMAIN chunks : Before(chunks[k], new)
    <2> TAKE k \in DOMAIN chunks
    <2>1. CASE start = 0
      BY <1>1, <1>3, <2>1 DEF ChunkingInv, Loop, Ahead, Before
    <2>2. CASE start > 0
      <3>1. Before(c, new)
        BY <1>13, <2>2 DEF Before
      <3>2. k = Len(chunks) \/ Before(chunks[k], c)
        BY <1>2, <1>13, <2>2 DEF ChunkingInv, Loop, Ordered
      <3>3. new.part \in Nat /\ new.from \in Nat
        BY <1>2, <1>3
      <3>4. c.part \in Nat /\ c.from \in Nat
        BY <1>6, <1>13, <2>2
      <3> HIDE DEF c
      <3>5. CASE k = Len(chunks)
        BY <3>1, <3>5 DEF c
      <3>6. CASE Before(chunks[k], c)
        BY <1>6, <3>1, <3>3, <3>4, <3>6 DEF Before
      <3> QED BY <3>2, <3>5, <3>6
    <2> QED BY <1>2, <2>1, <2>2
  <1>15. Ordered'
    <2> SUFFICES ASSUME NEW j \in DOMAIN chunks', NEW k \in DOMAIN chunks',
                        j < k
                 PROVE  Before(chunks'[j], chunks'[k])
      BY DEF Ordered, Before
    <2>1. CASE k \in DOMAIN chunks
      <3>1. j \in DOMAIN chunks
        BY <1>2, <1>4, <2>1
      <3> QED BY <1>4, <2>1, <3>1 DEF ChunkingInv, Loop, Ordered
    <2>2. CASE k = Len(chunks) + 1
      <3>1. j \in DOMAIN chunks
        BY <1>2, <1>4, <2>2
      <3> QED BY <1>4, <1>14, <2>2, <3>1
    <2> QED BY <1>5, <2>1, <2>2
  <1>16. Overlapping'
    <2> SUFFICES ASSUME NEW k \in 1..Len(chunks),
                        chunks'[k].part = chunks'[k + 1].part
                 PROVE  /\ chunks'[k].to - chunks'[k + 1].from + 1 = overlap
                        /\ chunks'[k].to < chunks'[k + 1].to
      BY <1>1, <1>2, <1>4 DEF Overlapping
    <2>1. CASE k < Len(chunks)
      <3>1. k \in 1..(Len(chunks) - 1) /\ k \in DOMAIN chunks
              /\ k + 1 \in DOMAIN chunks
        BY <1>2, <2>1
      <3> QED BY <1>4, <3>1 DEF ChunkingInv, Loop, Overlapping
    <2>2. CASE k = Len(chunks)
      <3>1. k \in DOMAIN chunks /\ chunks'[k] = c /\ chunks'[k + 1] = new
        BY <1>2, <1>4, <2>2
      <3>2. start > 0
        <4>1. c.part = new.part
          BY <3>1
        <4>2. start = 0 => c.part < new.part
          BY <1>1, <1>3, <2>2, <3>1 DEF ChunkingInv, Loop, Ahead
        <4>3. c.part \in Nat
          BY <1>6, <2>2, <3>1
        <4> QED BY <1>2, <4>1, <4>2, <4>3
      <3> QED BY <1>13, <3>1, <3>2
    <2>3. \A n \in Nat : \A i \in 1..n : i < n \/ i = n
      OBVIOUS
    <2>4. k < Len(chunks) \/ k = Len(chunks)
      BY <1>2, <2>3
    <2> QED BY <2>1, <2>2, <2>4
  <1>17. \A s \in DOMAIN sections : s > at => new.part < sections[s].part
    <2>1. input \in Files /\ Loads /\ sections = Sections
      BY <1>1 DEF ChunkingInv, ChunkingTypeOK, Loop, SectionsGiven
    <2> QED BY <1>1, <1>3, <2>1, SectionsOfParts
  <1>18. Ahead'
    <2> SUFFICES ASSUME NEW k \in DOMAIN chunks', NEW s \in DOMAIN sections,
                        s > at' \/ (s = at' /\ start' = 0)
                 PROVE  chunks'[k].part < sections[s].part
      BY <1>1 DEF Ahead
    <2>1. s > at
      <3>1. s \in Nat
        BY <1>2
      <3>2. CASE at' = at + 1
        BY <1>2, <3>1, <3>2
      <3>3. CASE at' = at /\ start' = start + step
        <4>1. start' > 0
          BY <1>1, <1>2, <3>3 DEF ChunkingInv, Loop, WindowAdvances, Checked
        <4> QED BY <3>1, <3>3, <4>1
      <3> QED BY <3>2, <3>3 DEF NextChunk
    <2>2. CASE k \in DOMAIN chunks
      BY <1>4, <2>1, <2>2 DEF ChunkingInv, Loop, Ahead
    <2>3. CASE k = Len(chunks) + 1
      BY <1>4, <1>17, <2>1, <2>3
    <2> QED BY <1>5, <2>2, <2>3
  <1>19. Underway'
    <2> SUFFICES ASSUME start' > 0
                 PROVE  /\ stage = "split" /\ at' \in DOMAIN sections
                        /\ Len(chunks') > 0
                        /\ chunks'[Len(chunks')].part = sections[at'].part
                        /\ chunks'[Len(chunks')].from = start' - step + 1
                        /\ chunks'[Len(chunks')].to = start' + overlap
                        /\ start' + overlap < sections[at'].words
                        /\ chunkSize < sections[at'].words
      BY <1>1 DEF Underway
    <2>1. at' = at /\ start' = start + step /\ last = start + chunkSize
            /\ last < sections[at].words
      BY DEF NextChunk
    <2>2. chunks'[Len(chunks')] = new /\ Len(chunks') > 0
      BY <1>2, <1>4
    <2>3. start' - step + 1 = start + 1 /\ start' + overlap = last
      BY <1>2, <2>1
    <2>4. chunkSize < sections[at].words
      BY <1>2, <2>1
    <2> QED BY <1>1, <1>3, <2>1, <2>2, <2>3, <2>4
  <1>20. Covered'
    <2> SUFFICES ASSUME NEW s \in DOMAIN sections,
                        NEW w \in 1..sections[s].words,
                        s < at' \/ (s = at' /\ start' > 0
                                      /\ w <= start' + overlap)
                 PROVE  \E k \in DOMAIN chunks' :
                            chunks'[k].part = sections[s].part
                              /\ w \in chunks'[k].from..chunks'[k].to
      BY <1>1 DEF Covered, InChunk
    <2>0. s \in Nat /\ sections[s].words \in Nat /\ w \in Nat
      <3>1. sections[s] \in SectionType
        BY <1>1
      <3> QED BY <1>2, <3>1 DEF SectionType
    <2>1. \A k \in DOMAIN chunks : k \in DOMAIN chunks'
            /\ chunks'[k] = chunks[k]
      BY <1>2, <1>4
    <2>2. s < at \/ (s = at /\ w <= last)
      <3>1. CASE at' = at + 1 /\ last = sections[at].words /\ start' = 0
        BY <1>2, <2>0, <3>1
      <3>2. CASE at' = at /\ start' = start + step
                   /\ last = start + chunkSize
        BY <1>2, <2>0, <3>2
      <3> QED BY <3>1, <3>2 DEF NextChunk
    <2>3. CASE s < at \/ (s = at /\ start > 0 /\ w <= start + overlap)
      BY <2>1, <2>3 DEF ChunkingInv, Loop, Covered, InChunk
    <2>4. CASE s = at /\ ~(start > 0 /\ w <= start + overlap)
      <3>1. w >= start + 1
        BY <1>2, <2>0, <2>4
      <3>2. w <= last
        BY <2>0, <2>2, <2>4, <1>2
      <3>3. Len(chunks) + 1 \in DOMAIN chunks'
        BY <1>2, <1>4
      <3>4. w \in new.from..new.to
        BY <1>2, <1>3, <2>0, <3>1, <3>2
      <3> QED BY <1>3, <1>4, <2>4, <3>3, <3>4
    <2> QED BY <2>2, <2>3, <2>4
  <1> QED BY <1>7, <1>8, <1>9, <1>10, <1>11, <1>12, <1>15, <1>16, <1>18,
             <1>19, <1>20 DEF Loop
------------------------------------------------------------------------------
(* The other steps.                                                          *)

LEMMA LoopUnchanged ==
    ASSUME UNCHANGED chunkingVars
    PROVE  (Loop' <=> Loop) /\ (ChunkingTypeOK' <=> ChunkingTypeOK)
  BY DEF chunkingVars, Loop, ChunkingTypeOK, WindowAdvances, NotBegun, SectionsGiven, AtBound,
         OutcomeTold, Indexed, Paged, Sized, Ordered, Overlapping, Ahead,
         Underway, Covered, InChunk, Checked, Loaded, Before, Loads, Readable,
         PDFComplete, Sections, MarkdownSections, TextSections, PDFSections,
         Section

\* What depends on the chunks alone holds while there are none.
LEMMA NoChunksYet ==
    ASSUME chunks = <<>>, documentIndex = 0, start = 0, at = 1,
           sections \in Seq(SectionType)
    PROVE  /\ Indexed /\ Paged /\ Sized /\ Ordered /\ Overlapping /\ Ahead
           /\ Underway /\ Covered
  <1>1. DOMAIN chunks = {} /\ Len(chunks) = 0 /\ 1..(0 - 1) = {}
    OBVIOUS
  <1>2. \A s \in DOMAIN sections : ~(s < 1)
    OBVIOUS
  <1> QED BY <1>1, <1>2
      DEF Indexed, Paged, Sized, Ordered, Overlapping, Ahead, Underway, Covered

LEMMA InitInv == ChunkingInit => ChunkingInv
  <1> SUFFICES ASSUME ChunkingInit PROVE ChunkingInv
    OBVIOUS
  <1>1. sections \in Seq(SectionType) /\ chunks \in Seq(ChunkType)
    BY DEF ChunkingInit
  <1>2. ChunkingTypeOK
    BY <1>1 DEF ChunkingInit, ChunkingTypeOK
  <1>3. WindowAdvances /\ NotBegun /\ SectionsGiven /\ AtBound /\ OutcomeTold
    BY DEF ChunkingInit, WindowAdvances, NotBegun, SectionsGiven, AtBound,
           OutcomeTold, Checked, Loaded
  <1>4. chunks = <<>> /\ documentIndex = 0 /\ start = 0 /\ at = 1
    BY DEF ChunkingInit
  <1> QED BY <1>1, <1>2, <1>3, <1>4, NoChunksYet DEF ChunkingInv, Loop

\* The chunks and the sections stay, and so does the place in them.
LEMMA Carried ==
    ASSUME ChunkingInv, UNCHANGED <<inputs, chunkSize, overlap, sections, at, start,
                             documentIndex, chunks>>,
           start > 0 => stage' = "split"
    PROVE  /\ Indexed' /\ Paged' /\ Sized' /\ Ordered' /\ Overlapping'
           /\ Ahead' /\ Underway' /\ Covered'
  BY DEF ChunkingInv, Loop, inputs, Indexed, Paged, Sized, Ordered, Overlapping,
         Ahead, Underway, Covered, InChunk, Before

LEMMA LoadConfigInv == ChunkingInv /\ (LoadConfig \/ ConfigFails) => ChunkingInv'
  <1> SUFFICES ASSUME ChunkingInv, LoadConfig \/ ConfigFails PROVE ChunkingInv'
    OBVIOUS
  <1>1. /\ stage = "config" /\ ~Loaded /\ start = 0
        /\ UNCHANGED <<inputs, sections, at, start, documentIndex, chunks>>
    BY DEF ChunkingInv, Loop, NotBegun, LoadConfig, ConfigFails, Loaded
  <1>2. /\ chunks = <<>> /\ documentIndex = 0 /\ at = 1 /\ sections = <<>>
    BY <1>1 DEF ChunkingInv, Loop, NotBegun
  <1>3. CASE LoadConfig
    <2>1. chunkSize' \in Nat /\ overlap' \in Nat /\ chunkSize' > 0
            /\ overlap' < chunkSize'
      BY <1>3, ChunkingAssumption
         DEF LoadConfig, SettingsValid, PositiveInt, NonNegativeInt
    <2>2. stage' = "load"
      BY <1>3 DEF LoadConfig
    <2>3. ChunkingTypeOK'
      BY <1>1, <2>1, <2>2 DEF ChunkingInv, ChunkingTypeOK, inputs
    <2>4. WindowAdvances' /\ NotBegun' /\ SectionsGiven' /\ OutcomeTold'
      BY <1>1, <1>2, <2>1, <2>2
         DEF WindowAdvances, NotBegun, SectionsGiven, OutcomeTold, Checked,
             Loaded
    <2>5. AtBound'
      BY <1>1, <2>2 DEF ChunkingInv, Loop, AtBound
    <2>6. (Indexed /\ Paged /\ Sized /\ Ordered /\ Overlapping /\ Ahead
             /\ Underway /\ Covered)'
      <3>1. DOMAIN chunks' = {} /\ Len(chunks') = 0 /\ DOMAIN sections' = {}
              /\ 1..(0 - 1) = {}
        BY <1>1, <1>2
      <3> QED BY <1>1, <1>2, <3>1
          DEF Indexed, Paged, Sized, Ordered, Overlapping, Ahead, Underway,
              Covered
    <2> QED BY <2>3, <2>4, <2>5, <2>6 DEF ChunkingInv, Loop
  <1>4. CASE ConfigFails
    <2>1. stage' = "failed" /\ UNCHANGED <<chunkSize, overlap>>
      BY <1>4 DEF ConfigFails
    <2>2. ChunkingTypeOK'
      BY <1>1, <2>1 DEF ChunkingInv, ChunkingTypeOK, inputs
    <2>3. (WindowAdvances /\ NotBegun /\ SectionsGiven /\ AtBound
             /\ OutcomeTold)'
      BY <1>1, <1>2, <2>1
         DEF ChunkingInv, Loop, WindowAdvances, NotBegun, SectionsGiven, AtBound,
             OutcomeTold, Checked, Loaded
    <2>4. ~(start > 0)
      BY <1>1
    <2> QED BY <1>1, <2>1, <2>2, <2>3, <2>4, Carried DEF ChunkingInv, Loop
  <1> QED BY <1>3, <1>4

LEMMA LoadInv == ChunkingInv /\ (LoadFile \/ LoadFails) => ChunkingInv'
  <1> SUFFICES ASSUME ChunkingInv, LoadFile \/ LoadFails PROVE ChunkingInv'
    OBVIOUS
  <1>1. /\ stage = "load" /\ ~Loaded /\ start = 0
        /\ UNCHANGED <<inputs, chunkSize, overlap, at, start, documentIndex,
                       chunks>>
    BY DEF ChunkingInv, Loop, NotBegun, LoadFile, LoadFails, Loaded
  <1>2. /\ chunks = <<>> /\ documentIndex = 0 /\ at = 1
        /\ sections = <<>>
    BY <1>1 DEF ChunkingInv, Loop, NotBegun
  <1>3. UNCHANGED input /\ chunkSize \in Nat /\ overlap \in Nat
          /\ chunkSize > 0 /\ overlap < chunkSize
    BY <1>1 DEF inputs, ChunkingInv, ChunkingTypeOK, Loop, WindowAdvances, Checked
  <1>4. CASE LoadFile
    <2>1. stage' = "split" /\ Loads /\ sections' = Sections
      BY <1>4 DEF LoadFile
    <2>2. sections' \in Seq(SectionType)
      BY <2>1, SectionsOfParts DEF ChunkingInv, ChunkingTypeOK
    <2>3. ChunkingTypeOK'
      BY <1>1, <2>1, <2>2 DEF ChunkingInv, ChunkingTypeOK, inputs
    <2>4. WindowAdvances' /\ NotBegun' /\ OutcomeTold' /\ AtBound'
      BY <1>1, <1>2, <1>3, <2>1, <2>2
         DEF WindowAdvances, NotBegun, OutcomeTold, AtBound, Checked, Loaded
    <2>5. SectionsGiven'
      <3>1. input.format' = input.format /\ input.parts' = input.parts
        BY <1>3
      <3> QED BY <1>3, <2>1, <3>1
          DEF SectionsGiven, Loaded, Loads, Readable, PDFComplete, Sections,
              MarkdownSections, TextSections, PDFSections, Section
    <2>6. (Indexed /\ Paged /\ Sized /\ Ordered /\ Overlapping /\ Ahead
             /\ Underway /\ Covered)'
      <3>1. DOMAIN chunks' = {} /\ Len(chunks') = 0 /\ 1..(0 - 1) = {}
        BY <1>1, <1>2
      <3>2. \A s \in DOMAIN sections' : ~(s < 1)
        BY <2>2
      <3>3. chunks' = chunks /\ documentIndex' = 0 /\ start' = 0 /\ at' = 1
        BY <1>1, <1>2
      <3> QED BY <3>1, <3>2, <3>3
          DEF Indexed, Paged, Sized, Ordered, Overlapping, Ahead, Underway,
              Covered
    <2> QED BY <2>3, <2>4, <2>5, <2>6 DEF ChunkingInv, Loop
  <1>5. CASE LoadFails
    <2>1. stage' = "failed" /\ UNCHANGED sections
      BY <1>5 DEF LoadFails
    <2>2. ChunkingTypeOK'
      BY <1>1, <2>1 DEF ChunkingInv, ChunkingTypeOK, inputs
    <2>3. (WindowAdvances /\ NotBegun /\ SectionsGiven /\ AtBound
             /\ OutcomeTold)'
      BY <1>1, <1>2, <2>1
         DEF ChunkingInv, Loop, WindowAdvances, NotBegun, SectionsGiven, AtBound,
             OutcomeTold, Checked, Loaded
    <2>4. ~(start > 0)
      BY <1>1
    <2> QED BY <1>1, <2>1, <2>2, <2>3, <2>4, Carried DEF ChunkingInv, Loop
  <1> QED BY <1>4, <1>5

\* With valid settings only a section without a word is passed over.
LEMMA SkipSectionInv == ChunkingInv /\ SkipSection => ChunkingInv'
  <1> SUFFICES ASSUME ChunkingInv, SkipSection PROVE ChunkingInv'
    OBVIOUS
  <1>1. /\ stage = "split" /\ Loaded /\ at \in DOMAIN sections /\ at' = at + 1
        /\ sections \in Seq(SectionType) /\ chunks \in Seq(ChunkType)
        /\ UNCHANGED <<inputs, stage, chunkSize, overlap, sections, start,
                       documentIndex, chunks>>
    BY DEF ChunkingInv, ChunkingTypeOK, SkipSection, Loaded
  <1>2. /\ Len(sections) \in Nat /\ DOMAIN sections = 1..Len(sections)
        /\ at \in Nat \ {0} /\ start \in Nat /\ overlap \in Nat
        /\ chunkSize \in Nat
    BY <1>1 DEF ChunkingInv, ChunkingTypeOK
  <1>3. sections[at].words = 0
    <2>1. sections[at] \in SectionType
      BY <1>1
    <2>2. sections[at].words \in Nat
      BY <2>1 DEF SectionType
    <2>3. chunkSize > 0 /\ overlap < chunkSize
      BY <1>1 DEF ChunkingInv, Loop, WindowAdvances, Checked
    <2> QED BY <1>2, <2>2, <2>3 DEF SkipSection, Splits
  <1>4. start = 0
    BY <1>2, <1>3 DEF ChunkingInv, Loop, Underway
  <1>5. ChunkingTypeOK'
    BY <1>1, <1>2 DEF ChunkingInv, ChunkingTypeOK, inputs
  <1>6. (WindowAdvances /\ NotBegun /\ SectionsGiven /\ OutcomeTold)'
    <2>1. UNCHANGED input
      BY <1>1 DEF inputs
    <2>2. input.format' = input.format /\ input.parts' = input.parts
      BY <2>1
    <2> QED BY <1>1, <2>1, <2>2
        DEF ChunkingInv, Loop, WindowAdvances, NotBegun, SectionsGiven, OutcomeTold,
            Checked, Loaded, Loads, Readable, PDFComplete, Sections,
            MarkdownSections, TextSections, PDFSections, Section
  <1>7. AtBound'
    BY <1>1, <1>2 DEF AtBound
  <1>8. (Indexed /\ Paged /\ Sized /\ Ordered /\ Overlapping /\ Underway)'
    BY <1>1, <1>4 DEF ChunkingInv, Loop, inputs, Indexed, Paged, Sized, Ordered,
                      Overlapping, Underway, Before
  <1>9. Ahead'
    <2>1. \A s \in DOMAIN sections : s > at + 1 \/ s = at + 1 => s > at
      BY <1>2
    <2> QED BY <1>1, <1>4, <2>1 DEF ChunkingInv, Loop, Ahead
  <1>10. Covered'
    <2>1. \A s \in DOMAIN sections : s < at + 1 => s < at \/ s = at
      BY <1>2
    <2>2. 1..sections[at].words = {}
      BY <1>3
    <2> QED BY <1>1, <1>4, <2>1, <2>2 DEF ChunkingInv, Loop, Covered, InChunk
  <1> QED BY <1>5, <1>6, <1>7, <1>8, <1>9, <1>10 DEF ChunkingInv, Loop

LEMMA FinishInv == ChunkingInv /\ Finish => ChunkingInv'
  <1> SUFFICES ASSUME ChunkingInv, Finish PROVE ChunkingInv'
    OBVIOUS
  <1>1. /\ stage = "split" /\ Loaded /\ at \notin DOMAIN sections
        /\ sections \in Seq(SectionType)
        /\ stage' \in {"empty", "chunked"} /\ (stage' = "empty" <=> chunks = <<>>)
        /\ UNCHANGED <<inputs, chunkSize, overlap, sections, at, start,
                       documentIndex, chunks>>
    BY DEF ChunkingInv, ChunkingTypeOK, Finish, Loaded
  <1>2. ChunkingTypeOK'
    BY <1>1 DEF ChunkingInv, ChunkingTypeOK, inputs
  <1>3. start = 0
    BY <1>1 DEF ChunkingInv, ChunkingTypeOK, Loop, Underway
  <1>4. at = Len(sections) + 1
    <2>1. Len(sections) \in Nat /\ DOMAIN sections = 1..Len(sections)
            /\ at \in Nat \ {0} /\ at <= Len(sections) + 1
      BY <1>1 DEF ChunkingInv, ChunkingTypeOK, Loop, AtBound
    <2> QED BY <1>1, <2>1
  <1>5. (WindowAdvances /\ NotBegun /\ SectionsGiven /\ OutcomeTold /\ AtBound)'
    <2>1. UNCHANGED input
      BY <1>1 DEF inputs
    <2>2. input.format' = input.format /\ input.parts' = input.parts
      BY <2>1
    <2> QED BY <1>1, <1>4, <2>1, <2>2
        DEF ChunkingInv, Loop, WindowAdvances, NotBegun, SectionsGiven, OutcomeTold,
            AtBound, Checked, Loaded, Loads, Readable, PDFComplete, Sections,
            MarkdownSections, TextSections, PDFSections, Section
  <1>6. ~(start > 0)
    BY <1>3
  <1> QED BY <1>1, <1>2, <1>5, <1>6, Carried DEF ChunkingInv, Loop

LEMMA NextInv == ChunkingInv /\ [ChunkingNext]_chunkingVars => ChunkingInv'
  <1> SUFFICES ASSUME ChunkingInv, [ChunkingNext]_chunkingVars PROVE ChunkingInv'
    OBVIOUS
  <1>1. CASE Window \/ WholeSection
    <2>1. PICK last : NextChunk(last)
      BY <1>1, WindowIsNextChunk, WholeSectionIsNextChunk
    <2> QED BY <2>1, NextChunkKeepsType, NextChunkKeepsLoop DEF ChunkingInv
  <1>2. CASE UNCHANGED chunkingVars
    BY <1>2, LoopUnchanged DEF ChunkingInv
  <1> QED BY <1>1, <1>2, LoadConfigInv, LoadInv, SkipSectionInv, FinishInv
      DEF ChunkingNext, Ended

\* The invariant holds in every reachable state, for every file and setting.
THEOREM ChunkingInvariance == ChunkingSpec => []ChunkingInv
  <1> QED BY InitInv, NextInv, PTL DEF ChunkingSpec

------------------------------------------------------------------------------
(* What it gives.                                                            *)

\* chunking.go: consecutive chunks of a section share exactly the overlap and
\* none exceeds the chunk size, whatever the two settings.
THEOREM Overlap == ChunkingSpec => []WindowsOverlap
  <1>1. ChunkingInv => WindowsOverlap
    <2> SUFFICES ASSUME ChunkingInv PROVE WindowsOverlap
      OBVIOUS
    <2>1. chunks \in Seq(ChunkType) /\ Len(chunks) \in Nat
            /\ DOMAIN chunks = 1..Len(chunks) /\ chunkSize \in Nat
      BY DEF ChunkingInv, ChunkingTypeOK
    <2>2. \A k \in DOMAIN chunks : chunks[k].part \in Nat
            /\ chunks[k].from \in Nat /\ chunks[k].to \in Nat
      <3> TAKE k \in DOMAIN chunks
      <3>1. chunks[k] \in ChunkType
        BY <2>1
      <3> QED BY <3>1 DEF ChunkType
    <2>3. \A k \in DOMAIN chunks :
            chunks[k].to - chunks[k].from + 1 \in 1..chunkSize
      BY <2>1, <2>2 DEF ChunkingInv, Loop, Sized
    <2>4. ASSUME NEW k \in 1..(Len(chunks) - 1),
                 chunks[k].part = chunks[k + 1].part
          PROVE  chunks[k].from < chunks[k + 1].from
      <3>1. k \in DOMAIN chunks /\ k + 1 \in DOMAIN chunks /\ k < k + 1
        BY <2>1
      <3>2. Before(chunks[k], chunks[k + 1])
        BY <3>1 DEF ChunkingInv, Loop, Ordered
      <3> QED BY <2>2, <2>4, <3>1, <3>2 DEF Before
    <2> QED BY <2>3, <2>4 DEF ChunkingInv, Loop, Overlapping, WindowsOverlap
  <1> QED BY <1>1, ChunkingInvariance, PTL

\* chunking.go's counter: the indexes of a file count from 0 without a gap and
\* their order is the document's, repeated headings included, each chunk with
\* its own page.
THEOREM ReadBack == ChunkingSpec => []ReadsInOrder
  <1>1. ASSUME ChunkingInv, NEW j \in DOMAIN chunks, NEW k \in DOMAIN chunks
        PROVE  chunks[j].index < chunks[k].index <=> Before(chunks[j], chunks[k])
    <2>1. chunks \in Seq(ChunkType) /\ j \in Nat /\ k \in Nat
      BY <1>1 DEF ChunkingInv, ChunkingTypeOK
    <2>2. chunks[j].index = j - 1 /\ chunks[k].index = k - 1
      BY <1>1 DEF ChunkingInv, Loop, Indexed
    <2>3. /\ j < k => Before(chunks[j], chunks[k])
          /\ k < j => Before(chunks[k], chunks[j])
      BY <1>1 DEF ChunkingInv, Loop, Ordered
    <2>4. chunks[j] \in ChunkType /\ chunks[k] \in ChunkType
      BY <1>1, <2>1
    <2>5. ~(Before(chunks[j], chunks[k]) /\ Before(chunks[k], chunks[j]))
            /\ ~Before(chunks[j], chunks[j])
      BY <2>4 DEF Before, ChunkType
    <2>6. j < k \/ k < j \/ j = k
      BY <2>1
    <2> QED BY <2>1, <2>2, <2>3, <2>5, <2>6
  <1>2. ASSUME ChunkingInv
        PROVE  {chunks[k].index : k \in DOMAIN chunks} = 0..(Len(chunks) - 1)
    <2>1. DOMAIN chunks = 1..Len(chunks) /\ Len(chunks) \in Nat
      BY <1>2 DEF ChunkingInv, ChunkingTypeOK
    <2>2. \A k \in DOMAIN chunks : chunks[k].index = k - 1
      BY <1>2 DEF ChunkingInv, Loop, Indexed
    <2>3. \A k \in DOMAIN chunks : chunks[k].index \in 0..(Len(chunks) - 1)
      BY <2>1, <2>2
    <2>4. \A i \in 0..(Len(chunks) - 1) :
             i + 1 \in DOMAIN chunks /\ chunks[i + 1].index = i
      BY <2>1, <2>2
    <2> QED BY <2>3, <2>4
  <1>3. ChunkingInv => ReadsInOrder
    BY <1>1, <1>2 DEF ChunkingInv, Loop, Paged, ReadsInOrder
  <1> QED BY <1>3, ChunkingInvariance, PTL

\* cmd/ingest goes on only with the whole document, and calls a file empty
\* only when it is.
THEOREM Whole == ChunkingSpec => []NothingLost
  <1>1. ChunkingInv => NothingLost
    <2> SUFFICES ASSUME ChunkingInv, stage \in {"chunked", "empty"}, NEW p \in Visible
                 PROVE  /\ stage = "chunked" =>
                             /\ \A w \in 1..input.parts[p].words : InChunk(p, w)
                             /\ input.format = "pdf" => input.parts[p].words > 0
                        /\ stage = "empty" => input.parts[p].words = 0
      BY DEF NothingLost, InChunk
    <2>1. input \in Files /\ Loads /\ sections = Sections
            /\ sections \in Seq(SectionType) /\ at = Len(sections) + 1
      BY DEF ChunkingInv, ChunkingTypeOK, Loop, SectionsGiven, AtBound, Loaded
    <2>2. p \in DOMAIN input.parts
      BY DEF Visible
    <2>3. input.parts[p].words \in Nat
      BY <2>1, <2>2, PartWords
    <2>4. input.format = "pdf" => input.parts[p].words > 0
      BY <2>1, <2>2 DEF Loads, PDFComplete
    <2>5. ASSUME NEW w \in 1..input.parts[p].words
          PROVE  InChunk(p, w)
      <3>1. input.parts[p].words > 0
        BY <2>3
      <3>2. PICK s \in DOMAIN sections :
              sections[s].part = p /\ sections[s].words = input.parts[p].words
        BY <2>1, <3>1, SectionsOfParts
      <3>3. s < at
        BY <2>1
      <3> QED BY <3>2, <3>3 DEF ChunkingInv, Loop, Covered
    <2>6. stage = "empty" => input.parts[p].words = 0
      <3> SUFFICES ASSUME stage = "empty", input.parts[p].words # 0
                   PROVE  FALSE
        OBVIOUS
      <3>1. DOMAIN chunks = {}
        BY DEF ChunkingInv, Loop, OutcomeTold
      <3>2. 1 \in 1..input.parts[p].words
        BY <2>3
      <3> QED BY <2>5, <3>1, <3>2 DEF InChunk
    <2> QED BY <2>4, <2>5, <2>6
  <1> QED BY <1>1, ChunkingInvariance, PTL

------------------------------------------------------------------------------
(* EmbedPool, for every number of chunks, workers and retries.               *)
(*                                                                           *)
(* The invariants of the run are not inductive by themselves.  The worker    *)
(* bound needs that the semaphore counts exactly the workers that hold a     *)
(* token; the root-cause property needs what each worker's state says about  *)
(* the contexts and its attempts; the contract needs that the WaitGroup      *)
(* counts exactly the workers alive and that a finished worker left either   *)
(* its result or an error behind.                                            *)

\* The semaphore and the WaitGroup count the workers they should.
Counters ==
    /\ sem = Cardinality(At(Holding))
    /\ wg = Cardinality(At(Live))

\* What a worker's state says of its attempts and of the contexts.
Attempts ==
    \A i \in Inputs :
        /\ worker[i] = "idle" => attempts[i] = 0
        /\ worker[i] \in {"embed", "check"} => attempts[i] \in 1..(Retries + 1)
        /\ worker[i] = "sleep" => attempts[i] \in 1..Retries
        /\ worker[i] = "exhausted" => attempts[i] = Retries + 1
        /\ worker[i] = "ctxErr" => CtxDone

\* The child is cancelled exactly when an error was recorded.
Cancellation == cancelled <=> firstErr # NoErr

\* Inputs not reached are idle; an input passed over means a done context; a
\* worker that left fn left its result or found an error recorded.
Progress ==
    \A i \in Inputs :
        /\ i >= next => worker[i] = "idle"
        /\ i < next /\ worker[i] = "idle" => CtxDone
        /\ worker[i] \in {"release", "done", "exited"} =>
               i \in embedded \/ firstErr # NoErr

\* After the return no worker is alive and no input is left.
Quiet == outcome # "none" => wg = 0 /\ next = N + 1

PoolInv ==
    /\ PoolTypeOK
    /\ Counters
    /\ Attempts
    /\ Cancellation
    /\ ErrorIsRootCause
    /\ Progress
    /\ Quiet

------------------------------------------------------------------------------
(* The clamped arguments and the set of chunks.                              *)

LEMMA Clamped == Workers \in Nat \ {0} /\ Retries \in Nat
BY PoolAssumption DEF Workers, Retries

LEMMA AtFinite ==
    ASSUME NEW A
    PROVE  IsFiniteSet(At(A)) /\ Cardinality(At(A)) \in Nat
<1>1. IsFiniteSet(Inputs)
  BY PoolAssumption, FS_Interval DEF Inputs
<1>2. At(A) \subseteq Inputs
  BY DEF At
<1>3. IsFiniteSet(At(A))
  BY <1>1, <1>2, FS_Subset
<1> QED
  BY <1>3, FS_CardinalityType

\* How the number of workers in a set of states changes when one worker moves.
LEMMA Move ==
    ASSUME worker \in [Inputs -> PCStates], NEW k \in Inputs, NEW s,
           worker' = [worker EXCEPT ![k] = s], NEW A
    PROVE  /\ s \in A /\ worker[k] \notin A =>
                 Cardinality(At(A)') = Cardinality(At(A)) + 1
           /\ s \notin A /\ worker[k] \in A =>
                 Cardinality(At(A)') = Cardinality(At(A)) - 1
           /\ (s \in A <=> worker[k] \in A) =>
                 Cardinality(At(A)') = Cardinality(At(A))
<1>1. k \in At(A) <=> worker[k] \in A
  BY DEF At
<1>2. IsFiniteSet(At(A)) /\ Cardinality(At(A)) \in Nat
  BY AtFinite
<1>3. CASE s \in A
  <2>1. At(A)' = At(A) \cup {k}
    BY <1>3 DEF At
  <2>2. Cardinality(At(A) \cup {k}) =
          IF k \in At(A) THEN Cardinality(At(A)) ELSE Cardinality(At(A)) + 1
    BY <1>2, FS_AddElement
  <2> QED
    BY <1>1, <1>2, <1>3, <2>1, <2>2
<1>4. CASE s \notin A
  <2>1. At(A)' = At(A) \ {k}
    BY <1>4 DEF At
  <2>2. Cardinality(At(A) \ {k}) =
          IF k \in At(A) THEN Cardinality(At(A)) - 1 ELSE Cardinality(At(A))
    BY <1>2, FS_RemoveElement
  <2> QED
    BY <1>1, <1>2, <1>4, <2>1, <2>2
<1> QED
  BY <1>3, <1>4

LEMMA Unmoved ==
    ASSUME UNCHANGED worker, NEW A
    PROVE  At(A)' = At(A)
BY DEF At

------------------------------------------------------------------------------
LEMMA InitPoolInv == PoolInit => PoolInv
<1> SUFFICES ASSUME PoolInit PROVE PoolInv
  OBVIOUS
<1> USE PoolAssumption, Clamped
<1>1. PoolTypeOK
  <2>1. "idle" \in PCStates
    BY DEF PCStates
  <2>2. firstErr \in {NoErr} /\ next \in 1..(N + 1) /\ sem \in 0..Workers
    BY DEF PoolInit
  <2>3. attempts \in [Inputs -> 0..(Retries + 1)]
    BY DEF PoolInit
  <2> QED
    BY <2>1, <2>2, <2>3 DEF PoolInit, PoolTypeOK
<1>2. Counters
  <2>1. At(Holding) = {} /\ At(Live) = {}
    BY DEF PoolInit, At, Live, Holding, Calling
  <2> QED
    BY <2>1, FS_EmptySet DEF PoolInit, Counters
<1>3. Attempts /\ Cancellation /\ ErrorIsRootCause /\ Progress /\ Quiet
  BY DEF PoolInit, Attempts, Cancellation, ErrorIsRootCause, Progress, Quiet, Inputs
<1> QED
  BY <1>1, <1>2, <1>3 DEF PoolInv

\* Each step keeps the counters equal to what they count.
LEMMA NextCounters == PoolInv /\ [PoolNext]_poolVars => Counters'
<1> SUFFICES ASSUME PoolInv, [PoolNext]_poolVars PROVE Counters'
  OBVIOUS
<1>a. Cardinality(At(Holding)) \in Nat /\ Cardinality(At(Live)) \in Nat
  BY AtFinite
<1>b. /\ worker \in [Inputs -> PCStates]
      /\ Counters
      /\ Progress
      /\ next \in 1..(N + 1) /\ N \in Nat
  BY PoolAssumption DEF PoolInv, PoolTypeOK
<1>1. CASE UNCHANGED <<worker, sem, wg>>
  BY <1>1, <1>b, Unmoved DEF Counters
<1>2. CASE Launch
  <2>1. next \in Inputs /\ worker[next] = "idle" /\ worker' = [worker EXCEPT ![next] = "embed"]
    BY <1>2, <1>b DEF Launch, Progress, Inputs
  <2>2. /\ "embed" \in Holding /\ "embed" \in Live
        /\ "idle" \notin Holding /\ "idle" \notin Live
    BY DEF Holding, Calling, Live
  <2>3. /\ Cardinality(At(Holding)') = Cardinality(At(Holding)) + 1
        /\ Cardinality(At(Live)') = Cardinality(At(Live)) + 1
    BY <1>a, <1>b, <2>1, <2>2, Move
  <2> QED
    BY <1>2, <1>b, <2>3 DEF Launch, Counters
<1>3. ASSUME NEW i \in Inputs, Worker(i) PROVE Counters'
  <2>1. CASE EmbedOK(i) \/ EmbedErr(i) \/ CheckErr(i) \/ Wake(i)
             \/ SleepAborted(i) \/ Fail(i)
    <3>1. PICK s \in Holding : worker' = [worker EXCEPT ![i] = s]
      BY <2>1, <1>b DEF EmbedOK, EmbedErr, CheckErr, AfterError, Wake, SleepAborted,
                  Fail, Holding, Calling
    <3>2. worker[i] \in Holding /\ UNCHANGED <<sem, wg>>
      BY <2>1 DEF EmbedOK, EmbedErr, CheckErr, Wake, SleepAborted, Fail,
                  Holding, Calling
    <3>3. s \in Live /\ worker[i] \in Live
      BY <3>2 DEF Live
    <3>4. /\ Cardinality(At(Holding)') = Cardinality(At(Holding))
          /\ Cardinality(At(Live)') = Cardinality(At(Live))
      BY <1>a, <1>b, <3>1, <3>2, <3>3, Move
    <3> QED
      BY <1>b, <3>2, <3>4 DEF Counters
  <2>2. CASE Release(i)
    <3>1. worker[i] = "release" /\ worker' = [worker EXCEPT ![i] = "done"]
      BY <2>2 DEF Release
    <3>2. /\ "release" \in Holding /\ "release" \in Live
          /\ "done" \notin Holding /\ "done" \in Live
      BY DEF Holding, Calling, Live
    <3>3. /\ Cardinality(At(Holding)') = Cardinality(At(Holding)) - 1
          /\ Cardinality(At(Live)') = Cardinality(At(Live))
      BY <1>a, <1>b, <3>1, <3>2, Move
    <3> QED
      BY <1>b, <2>2, <3>3 DEF Release, Counters
  <2>3. CASE Exit(i)
    <3>1. worker[i] = "done" /\ worker' = [worker EXCEPT ![i] = "exited"]
      BY <2>3 DEF Exit
    <3>2. /\ "done" \notin Holding /\ "done" \in Live
          /\ "exited" \notin Holding /\ "exited" \notin Live
      BY DEF Holding, Calling, Live
    <3>3. /\ Cardinality(At(Holding)') = Cardinality(At(Holding))
          /\ Cardinality(At(Live)') = Cardinality(At(Live)) - 1
      BY <1>a, <1>b, <3>1, <3>2, Move
    <3> QED
      BY <1>b, <2>3, <3>3 DEF Exit, Counters
  <2> QED
    BY <1>3, <2>1, <2>2, <2>3 DEF Worker
<1> QED
  BY <1>1, <1>2, <1>3
     DEF PoolNext, Launcher, Skip, Return, ParentEnds, Returned, poolVars

\* Each step keeps the types; the counters' meaning bounds sem and wg.
LEMMA PoolStepType == PoolInv /\ [PoolNext]_poolVars => PoolTypeOK'
<1> SUFFICES ASSUME PoolInv, [PoolNext]_poolVars PROVE PoolTypeOK'
  OBVIOUS
<1> USE PoolAssumption, Clamped
<1>a. PoolTypeOK /\ Counters /\ Attempts
  BY DEF PoolInv
<1>1. /\ Cardinality(At(Holding)) \in Nat /\ Cardinality(At(Live)) \in Nat
      /\ Cardinality(At(Holding)') \in Nat /\ Cardinality(At(Live)') \in Nat
  <2>1. IsFiniteSet(At(Holding)) /\ IsFiniteSet(At(Live))
    BY AtFinite
  <2>2. IsFiniteSet(At(Holding)') /\ IsFiniteSet(At(Live)')
    <3>1. IsFiniteSet(1..N)
      BY FS_Interval
    <3>2. At(Holding)' \subseteq 1..N /\ At(Live)' \subseteq 1..N
      BY DEF At, Inputs
    <3> QED
      BY <3>1, <3>2, FS_Subset
  <2> QED
    BY <2>1, <2>2, FS_CardinalityType
<1>2. sem' \in Nat /\ wg' \in Nat
  BY <1>1, NextCounters DEF Counters
<1>3. sem' <= Workers
  BY <1>a DEF PoolTypeOK, PoolNext, Launcher, Skip, Launch, Return, ParentEnds, Returned,
     Worker, EmbedOK, EmbedErr, CheckErr, Wake, SleepAborted, Fail, Release,
     Exit, poolVars
<1>4. worker' \in [Inputs -> PCStates]
  BY <1>a DEF PoolTypeOK, PCStates, Live, Holding, Calling, PoolNext, Launcher, Skip,
     Launch, Return, ParentEnds, Returned, Worker, EmbedOK, EmbedErr, CheckErr,
     AfterError, Wake, SleepAborted, Fail, Release, Exit, poolVars
<1>5. next' \in 1..(N + 1)
  BY <1>a DEF PoolTypeOK, Inputs, PoolNext, Launcher, Skip, Launch, Return, ParentEnds,
     Returned, Worker, EmbedOK, EmbedErr, CheckErr, Wake, SleepAborted, Fail,
     Release, Exit, poolVars
<1>6. attempts' \in [Inputs -> 0..(Retries + 1)]
  <2>1. CASE Launch
    BY <1>a, <2>1 DEF PoolTypeOK, Launch
  <2>2. ASSUME NEW i \in Inputs, Wake(i) PROVE attempts' \in [Inputs -> 0..(Retries + 1)]
    <3>1. attempts[i] \in 1..Retries
      BY <1>a, <2>2 DEF Attempts, Wake
    <3> QED
      BY <1>a, <2>2, <3>1 DEF PoolTypeOK, Wake
  <2> QED
    BY <1>a, <2>1, <2>2 DEF PoolTypeOK, PoolNext, Launcher, Skip, Return, ParentEnds,
       Returned, Worker, EmbedOK, EmbedErr, CheckErr, SleepAborted, Fail,
       Release, Exit, poolVars
<1>7. /\ embedded' \subseteq Inputs
      /\ cancelled' \in BOOLEAN /\ parentDone' \in BOOLEAN
      /\ outcome' \in {"none", "results", "error"}
  BY <1>a DEF PoolTypeOK, PoolNext, Launcher, Skip, Launch, Return, ParentEnds, Returned,
     Worker, EmbedOK, EmbedErr, CheckErr, Wake, SleepAborted, Fail, Release,
     Exit, poolVars
<1>8. firstErr' \in {NoErr} \cup [kind : {"ctxErr", "exhausted"}, chunk : Inputs]
  BY <1>a DEF PoolTypeOK, PoolNext, Launcher, Skip, Launch, Return, ParentEnds, Returned,
     Worker, EmbedOK, EmbedErr, CheckErr, Wake, SleepAborted, Fail, Release,
     Exit, poolVars
<1> QED
  BY <1>2, <1>3, <1>4, <1>5, <1>6, <1>7, <1>8 DEF PoolTypeOK

\* A recorded error differs from nil.
LEMMA RecordedError == \A k \in {"ctxErr", "exhausted"}, i \in Inputs :
                          [kind |-> k, chunk |-> i] # NoErr
BY DEF NoErr

LEMMA NextCancellation == PoolInv /\ [PoolNext]_poolVars => Cancellation'
<1> SUFFICES ASSUME PoolInv, [PoolNext]_poolVars PROVE Cancellation'
  OBVIOUS
<1>a. PoolTypeOK /\ Cancellation
  BY DEF PoolInv
<1>1. ASSUME NEW i \in Inputs, Fail(i) PROVE Cancellation'
  BY <1>a, <1>1, RecordedError DEF Fail, Cancellation
<1>2. CASE UNCHANGED <<cancelled, firstErr>>
  BY <1>a, <1>2 DEF Cancellation
<1> QED
  BY <1>1, <1>2 DEF PoolNext, Launcher, Skip, Launch, Return, ParentEnds, Returned,
     Worker, EmbedOK, EmbedErr, CheckErr, Wake, SleepAborted, Release, Exit, poolVars

\* A worker moves only its own attempts, and a done context stays done.
LEMMA NextAttempts == PoolInv /\ [PoolNext]_poolVars => Attempts'
<1> SUFFICES ASSUME PoolInv, [PoolNext]_poolVars PROVE Attempts'
  OBVIOUS
<1> USE PoolAssumption, Clamped
<1>a. PoolTypeOK /\ Attempts /\ Progress
  BY DEF PoolInv
<1>1. CtxDone => CtxDone'
  BY DEF CtxDone, PoolNext, Launcher, Skip, Launch, Return, ParentEnds, Returned,
     Worker, EmbedOK, EmbedErr, CheckErr, Wake, SleepAborted, Fail, Release,
     Exit, poolVars
<1>2. CASE UNCHANGED <<worker, attempts>>
  BY <1>a, <1>1, <1>2 DEF Attempts
<1>3. CASE Launch
  BY <1>a, <1>1, <1>3 DEF Attempts, Launch, PoolTypeOK, Inputs
<1>4. ASSUME NEW i \in Inputs, CheckErr(i) PROVE Attempts'
  BY <1>a, <1>1, <1>4 DEF Attempts, CheckErr, AfterError, PoolTypeOK, CtxDone
<1>5. ASSUME NEW i \in Inputs, Wake(i) PROVE Attempts'
  BY <1>a, <1>1, <1>5 DEF Attempts, Wake, PoolTypeOK
<1>6. ASSUME NEW i \in Inputs, SleepAborted(i) PROVE Attempts'
  BY <1>a, <1>1, <1>6 DEF Attempts, SleepAborted, PoolTypeOK, CtxDone
<1>7. ASSUME NEW i \in Inputs,
             EmbedOK(i) \/ EmbedErr(i) \/ Fail(i) \/ Release(i) \/ Exit(i)
      PROVE  Attempts'
  BY <1>a, <1>1, <1>7 DEF Attempts, EmbedOK, EmbedErr, Fail, Release, Exit,
     PoolTypeOK
<1> QED
  BY <1>2, <1>3, <1>4, <1>5, <1>6, <1>7
     DEF PoolNext, Launcher, Skip, Return, ParentEnds, Returned, Worker, poolVars

\* The recorded error stays the root cause: only the first failing worker
\* records one, and while none is recorded the child is not cancelled.
LEMMA NextRootCause == PoolInv /\ [PoolNext]_poolVars => ErrorIsRootCause'
<1> SUFFICES ASSUME PoolInv, [PoolNext]_poolVars PROVE ErrorIsRootCause'
  OBVIOUS
<1> USE PoolAssumption, Clamped
<1>a. PoolTypeOK /\ Attempts /\ Cancellation /\ ErrorIsRootCause /\ Progress
  BY DEF PoolInv
<1>1. ASSUME NEW i \in Inputs, Fail(i), firstErr = NoErr PROVE ErrorIsRootCause'
  <2>1. firstErr' = [kind |-> worker[i], chunk |-> i] /\ ~cancelled
    BY <1>1, <1>a DEF Fail, Cancellation
  <2>2. worker[i] = "ctxErr" => parentDone'
    BY <1>1, <1>a, <2>1 DEF Attempts, CtxDone, Fail
  <2>3. worker[i] # "ctxErr" => attempts'[i] = Retries + 1
    BY <1>1, <1>a DEF Attempts, Fail
  <2> QED
    BY <2>1, <2>2, <2>3 DEF ErrorIsRootCause
<1>2. ASSUME NEW i \in Inputs, Wake(i) PROVE ErrorIsRootCause'
  <2>1. attempts[i] < Retries + 1
    BY <1>2, <1>a DEF Attempts, Wake
  <2>2. firstErr' = firstErr /\ parentDone' = parentDone
    BY <1>2 DEF Wake
  <2>3. ASSUME firstErr # NoErr, firstErr.kind # "ctxErr"
        PROVE  attempts'[firstErr.chunk] = Retries + 1
    <3>1. firstErr.chunk # i
      BY <1>a, <2>1, <2>3 DEF ErrorIsRootCause
    <3> QED
      BY <1>2, <1>a, <2>3, <3>1 DEF ErrorIsRootCause, Wake, PoolTypeOK
  <2> QED
    BY <1>a, <2>2, <2>3 DEF ErrorIsRootCause
<1>3. CASE Launch
  <2>1. firstErr' = firstErr /\ parentDone' = parentDone
    BY <1>3 DEF Launch
  <2>2. ASSUME firstErr # NoErr, firstErr.kind # "ctxErr"
        PROVE  attempts'[firstErr.chunk] = Retries + 1
    <3>1. firstErr.chunk # next
      BY <1>a, <1>3, <2>2
         DEF ErrorIsRootCause, Attempts, Progress, PoolTypeOK, Launch, Inputs
    <3> QED
      BY <1>3, <1>a, <2>2, <3>1 DEF ErrorIsRootCause, Launch, PoolTypeOK
  <2> QED
    BY <1>a, <2>1, <2>2 DEF ErrorIsRootCause
<1>4. CASE UNCHANGED <<firstErr, attempts>> /\ (parentDone => parentDone')
  BY <1>a, <1>4 DEF ErrorIsRootCause
<1>5. ASSUME NEW i \in Inputs, Fail(i), firstErr # NoErr PROVE ErrorIsRootCause'
  BY <1>4, <1>5 DEF Fail
<1>6. ASSUME NEW i \in Inputs,
             \/ EmbedOK(i) \/ EmbedErr(i) \/ CheckErr(i) \/ SleepAborted(i)
             \/ Release(i) \/ Exit(i)
      PROVE  ErrorIsRootCause'
  BY <1>4, <1>6 DEF EmbedOK, EmbedErr, CheckErr, SleepAborted, Release, Exit
<1>7. CASE Skip \/ Return \/ ParentEnds \/ Returned \/ UNCHANGED poolVars
  BY <1>4, <1>7 DEF Skip, Return, ParentEnds, Returned, poolVars
<1> QED
  BY <1>1, <1>2, <1>3, <1>5, <1>6, <1>7 DEF PoolNext, Launcher, Worker

\* An input not reached yet is idle, one passed over saw a done context, and a
\* worker that left fn left a result or an error.
LEMMA NextProgress == PoolInv /\ [PoolNext]_poolVars => Progress'
<1> SUFFICES ASSUME PoolInv, [PoolNext]_poolVars PROVE Progress'
  OBVIOUS
<1> USE PoolAssumption, Clamped
<1>a. PoolTypeOK /\ Progress
  BY DEF PoolInv
<1>b. CtxDone => CtxDone'
  BY DEF CtxDone, PoolNext, Launcher, Skip, Launch, Return, ParentEnds, Returned,
     Worker, EmbedOK, EmbedErr, CheckErr, Wake, SleepAborted, Fail, Release,
     Exit, poolVars
<1>c. firstErr # NoErr => firstErr' # NoErr
  BY DEF PoolNext, Launcher, Skip, Launch, Return, ParentEnds, Returned, Worker,
     EmbedOK, EmbedErr, CheckErr, Wake, SleepAborted, Fail, Release, Exit, poolVars
<1>1. CASE Skip
  BY <1>a, <1>b, <1>c, <1>1 DEF Progress, Skip, PoolTypeOK, Inputs
<1>2. CASE Launch
  BY <1>a, <1>b, <1>c, <1>2 DEF Progress, Launch, PoolTypeOK, Inputs
<1>3. ASSUME NEW i \in Inputs,
             \/ EmbedErr(i) \/ CheckErr(i) \/ Wake(i) \/ SleepAborted(i)
      PROVE  Progress'
  BY <1>a, <1>b, <1>c, <1>3 DEF Progress, EmbedErr, CheckErr, AfterError, Wake,
     SleepAborted, PoolTypeOK, Inputs
<1>4. ASSUME NEW i \in Inputs, EmbedOK(i) PROVE Progress'
  BY <1>a, <1>b, <1>c, <1>4 DEF Progress, EmbedOK, PoolTypeOK, Inputs
<1>5. ASSUME NEW i \in Inputs, Fail(i) PROVE Progress'
  <2>1. firstErr' # NoErr
    BY <1>c, <1>5, RecordedError DEF Fail
  <2> QED
    BY <1>a, <1>b, <1>5, <2>1 DEF Progress, Fail, PoolTypeOK, Inputs
<1>6. ASSUME NEW i \in Inputs, Release(i) \/ Exit(i) PROVE Progress'
  BY <1>a, <1>b, <1>c, <1>6 DEF Progress, Release, Exit, PoolTypeOK, Inputs
<1>7. CASE Return \/ ParentEnds \/ Returned \/ UNCHANGED poolVars
  BY <1>a, <1>b, <1>c, <1>7 DEF Progress, Return, ParentEnds, Returned, poolVars
<1> QED
  BY <1>1, <1>2, <1>3, <1>4, <1>5, <1>6, <1>7 DEF PoolNext, Launcher, Worker

\* A worker that moves is alive, so none moves once the counter is zero.
LEMMA NobodyAlive == PoolInv /\ wg = 0 => \A i \in Inputs : worker[i] \in {"idle", "exited"}
<1> SUFFICES ASSUME PoolInv, wg = 0 PROVE \A i \in Inputs : worker[i] \in {"idle", "exited"}
  OBVIOUS
<1>1. IsFiniteSet(At(Live)) /\ Cardinality(At(Live)) = 0
  BY AtFinite DEF PoolInv, Counters
<1>2. At(Live) = {}
  BY <1>1, FS_EmptySet
<1> QED
  BY <1>2 DEF At, PoolInv, PoolTypeOK, PCStates

LEMMA WorkerAlive ==
    ASSUME NEW i \in Inputs, Worker(i)
    PROVE  worker[i] \notin {"idle", "exited"}
BY DEF Worker, EmbedOK, EmbedErr, CheckErr, Wake, SleepAborted, Fail, Release,
   Exit

LEMMA NextQuiet == PoolInv /\ [PoolNext]_poolVars => Quiet'
<1> SUFFICES ASSUME PoolInv, [PoolNext]_poolVars PROVE Quiet'
  OBVIOUS
<1>1. CASE Return
  BY <1>1 DEF Return, Quiet
<1>2. CASE outcome = "none" /\ outcome' = "none"
  BY <1>2 DEF Quiet
<1>3. CASE outcome # "none" /\ ~Return
  <2>1. wg = 0 /\ next = N + 1
    BY <1>3 DEF PoolInv, Quiet
  <2>2. \A i \in Inputs : ~Worker(i)
    BY <2>1, NobodyAlive, WorkerAlive
  <2>3. ~Skip /\ ~Launch
    BY <2>1, PoolAssumption DEF Skip, Launch, Inputs
  <2> QED
    BY <1>3, <2>1, <2>2, <2>3
       DEF PoolNext, Launcher, ParentEnds, Returned, poolVars, Quiet
<1> QED
  BY <1>1, <1>2, <1>3 DEF PoolNext, Launcher, Skip, Launch, ParentEnds, Returned,
     Worker, EmbedOK, EmbedErr, CheckErr, Wake, SleepAborted, Fail, Release,
     Exit, poolVars

------------------------------------------------------------------------------
\* The inductive invariant holds in every behaviour, for every number of
\* chunks, workers and retries.
THEOREM PoolInvariance == PoolSpec => []PoolInv
<1>1. PoolInv /\ [PoolNext]_poolVars => PoolInv'
  BY PoolStepType, NextCounters, NextAttempts, NextCancellation, NextRootCause,
     NextProgress, NextQuiet DEF PoolInv
<1> QED
  BY InitPoolInv, <1>1, PTL DEF PoolSpec

\* The semaphore's occupancy, the attempts and every other variable keep their
\* types and bounds (mapOrdered and retryEmbed).
THEOREM PoolTyped == PoolSpec => []PoolTypeOK
<1>1. PoolInv => PoolTypeOK
  BY DEF PoolInv
<1> QED
  BY <1>1, PoolInvariance, PTL

\* mapOrdered never has more than `workers` calls of fn in progress.
THEOREM BoundedWorkers == PoolSpec => []WorkerBound
<1>1. PoolInv => WorkerBound
  <2> SUFFICES ASSUME PoolInv PROVE Cardinality(At(Calling)) <= Workers
    BY DEF WorkerBound
  <2>1. At(Calling) \subseteq At(Holding)
    BY DEF At, Holding
  <2>2. IsFiniteSet(At(Holding))
    BY AtFinite
  <2>3. Cardinality(At(Calling)) <= Cardinality(At(Holding))
    BY <2>1, <2>2, FS_Subset
  <2>4. Cardinality(At(Holding)) = sem /\ sem \in 0..Workers
    BY DEF PoolInv, Counters, PoolTypeOK
  <2>5. Cardinality(At(Calling)) \in Nat
    BY AtFinite
  <2> QED
    BY <2>3, <2>4, <2>5, Clamped
<1> QED
  BY <1>1, PoolInvariance, PTL

\* The error mapOrdered returns is never the echo of its own cancellation.
THEOREM RootCause == PoolSpec => []ErrorIsRootCause
<1>1. PoolInv => ErrorIsRootCause
  BY DEF PoolInv
<1> QED
  BY <1>1, PoolInvariance, PTL

------------------------------------------------------------------------------
\* A return of results means that every slot is filled, unless the caller's
\* context ended first.
LEMMA ReturnComplete ==
    PoolInv /\ Return /\ firstErr = NoErr => embedded = 1..N \/ parentDone
<1> SUFFICES ASSUME PoolInv, Return, firstErr = NoErr, ~parentDone PROVE embedded = 1..N
  OBVIOUS
<1>1. ~CtxDone
  BY DEF CtxDone, PoolInv, Cancellation
<1>2. \A i \in Inputs : worker[i] = "exited"
  <2>1. \A i \in Inputs : worker[i] \in {"idle", "exited"}
    BY NobodyAlive DEF Return
  <2>2. \A i \in Inputs : i < next
    BY PoolAssumption DEF Return, Inputs
  <2> QED
    BY <1>1, <2>1, <2>2 DEF PoolInv, Progress
<1>3. Inputs \subseteq embedded
  BY <1>2 DEF PoolInv, Progress
<1> QED
  BY <1>3 DEF PoolInv, PoolTypeOK, Inputs

\* Every step of the pool is a step of the contract or leaves it unchanged.
LEMMA StepSimulation ==
    PoolInv /\ [PoolNext]_poolVars => [Contract!Next]_Contract!contractVars
<1> SUFFICES ASSUME PoolInv, [PoolNext]_poolVars PROVE [Contract!Next]_Contract!contractVars
  OBVIOUS
<1> USE DEF Contract!Next, Contract!contractVars
<1>1. ASSUME NEW i \in Inputs, EmbedOK(i) PROVE Contract!Embed(i)
  <2>1. wg # 0
    BY <1>1, NobodyAlive DEF EmbedOK
  <2> QED
    BY <1>1, <2>1 DEF EmbedOK, Contract!Embed, PoolInv, Quiet, PoolTypeOK
<1>2. CASE Return
  <2>1. CASE firstErr = NoErr
    BY <1>2, <2>1, ReturnComplete DEF Return, Contract!ReturnResults
  <2>2. CASE firstErr # NoErr
    BY <1>2, <2>2 DEF Return, Contract!ReturnError
  <2> QED
    BY <2>1, <2>2
<1>3. CASE ParentEnds
  BY <1>3 DEF ParentEnds, Contract!EndParent
<1>4. CASE UNCHANGED <<embedded, parentDone, outcome>>
  BY <1>4
<1> QED
  BY <1>1, <1>2, <1>3, <1>4 DEF PoolNext, Launcher, Skip, Launch, Returned, Worker,
     EmbedErr, CheckErr, Wake, SleepAborted, Fail, Release, Exit, poolVars, Inputs

\* mapOrdered implements the contract its caller relies on, for every number
\* of chunks, workers and retries: nothing changes after the return, and
\* results with an empty slot are returned only once the caller's context
\* ended.
THEOREM Refinement == PoolSpec => ImplementsContract
<1>1. PoolInit => Contract!Init
  BY DEF PoolInit, Contract!Init
<1> QED
  BY <1>1, StepSimulation, PoolInvariance, PTL
     DEF PoolSpec, ImplementsContract, Contract!Spec

------------------------------------------------------------------------------
(* Ingestion, for every number of shells, sources, versions, batches and     *)
(* invocations, with files edited at any time and several shells on one      *)
(* source.                                                                   *)
(*                                                                           *)
(* WholeDocuments is not inductive: that a commit removes and adds only      *)
(* whole documents needs that a DELETE's snapshot is closed under "written   *)
(* by the same invocation" and stays so while others commit, that numbers of *)
(* running invocations appear nowhere in the table, and that a transaction   *)
(* is only ever opened when every chunk has its vector.                      *)

InTx == {"delete", "deleting", "insert", "committing"}

\* The number of a running invocation is its own and not yet in the table.
FreshRuns ==
    /\ \A p \in Procs : pc[p] # "off" => run[p] \in 1..runs
    /\ \A p, q \in Procs :
          p # q /\ pc[p] # "off" /\ pc[q] # "off" => run[p] # run[q]
    /\ \A p, q \in Procs : \A x \in rows \cup targets[p] \cup deleted[p] :
          x.run \in 1..runs /\ (pc[q] # "off" => x.run # run[q])

\* A transaction is open only with every vector there.
Embedded ==
    \A p \in Procs :
        /\ pc[p] = "begin" => vectors[p] = Chunks(loaded[p]) \/ ctxDone[p]
        /\ pc[p] \in InTx => vectors[p] = Chunks(loaded[p])

\* What the INSERTs have written is a prefix of the document, all of it at
\* COMMIT, and nothing outside the transaction.
Written ==
    \A p \in Procs :
        /\ pc[p] \in {"insert", "committing"} =>
               inserted[p] = RowsOf(p, 1..sent[p])
        /\ pc[p] = "committing" => sent[p] = Size[loaded[p]]
        /\ pc[p] \notin {"insert", "committing"} => inserted[p] = {} /\ sent[p] = 0

\* The set S contains all the committed rows of an invocation or none.
Closed(S) == \A x \in S : \A y \in rows : y.run = x.run => y \in S

Snapshots == \A p \in Procs : Closed(targets[p]) /\ Closed(deleted[p])

IInv ==
    /\ TypeOK
    /\ FreshRuns
    /\ Embedded
    /\ Written
    /\ Snapshots
    /\ WholeDocuments

USE IngestionAssumption

------------------------------------------------------------------------------
LEMMA InitIInv == Init => IInv
<1> SUFFICES ASSUME Init PROVE IInv
  OBVIOUS
<1>1. TypeOK
  BY DEF Init, TypeOK, Versions, Active, Waiting
<1>2. FreshRuns /\ Embedded /\ Written /\ Snapshots /\ WholeDocuments
  BY DEF Init, FreshRuns, Embedded, Written, Snapshots, Closed, WholeDocuments,
     InTx
<1> QED
  BY <1>1, <1>2 DEF IInv

\* The fields of the rows an invocation writes.
LEMMA RowFields ==
    ASSUME NEW p \in Procs, NEW I, NEW x \in RowsOf(p, I)
    PROVE  /\ x.source = SourceOf[p] /\ x.run = run[p]
           /\ x.version = loaded[p] /\ x.hash = hashed[p] /\ x.key = key[p]
           /\ x.index \in I
           /\ x.embedded = (x.index \in vectors[p])
BY DEF RowsOf, Row

\* What the INSERTs have written when the COMMIT is sent is a whole document.
LEMMA InsertedWhole ==
    ASSUME IInv, NEW p \in Procs, pc[p] = "committing"
    PROVE  inserted[p] = Document(SourceOf[p], run[p], loaded[p], hashed[p], key[p])
<1>1. inserted[p] = RowsOf(p, Chunks(loaded[p]))
  BY DEF IInv, Written, Chunks
<1>2. vectors[p] = Chunks(loaded[p])
  BY DEF IInv, Embedded, InTx
<1>3. \A i \in Chunks(loaded[p]) : (i \in vectors[p]) = TRUE
  BY <1>2
<1> QED
  BY <1>1, <1>3 DEF RowsOf, Document

------------------------------------------------------------------------------
(* One lemma for each part of the invariant.                                 *)

\* A row of a running invocation is a row.
LEMMA RowsTyped ==
    ASSUME TypeOK, FreshRuns, NEW p \in Procs, pc[p] # "off", NEW I \in SUBSET Nat
    PROVE  RowsOf(p, I) \subseteq AllRows
<1> SUFFICES ASSUME NEW i \in I
             PROVE  Row(SourceOf[p], run[p], i, loaded[p], hashed[p], key[p],
                        i \in vectors[p]) \in AllRows
  BY DEF RowsOf
<1>1. run[p] \in 1..MaxRuns
  BY DEF FreshRuns, TypeOK
<1>2. (i \in vectors[p]) \in BOOLEAN
  OBVIOUS
<1> QED
  BY <1>1, <1>2 DEF Row, AllRows, TypeOK

LEMMA NextType == IInv /\ [Next]_vars => TypeOK'
<1> SUFFICES ASSUME IInv, [Next]_vars PROVE TypeOK'
  OBVIOUS
<1>a. TypeOK /\ Written /\ FreshRuns
  BY DEF IInv
<1>b. \A v \in Versions : Size[v] \in Nat
  OBVIOUS
<1> USE DEF TypeOK, Goto, End, TxClosed, client, tx
<1>1. ASSUME NEW s \in Sources, Edit(s) PROVE TypeOK'
  BY <1>a, <1>1 DEF Edit, Versions
<1>2. ASSUME NEW p \in Procs, Deadline(p) PROVE TypeOK'
  BY <1>a, <1>2 DEF Deadline
<1>3. ASSUME NEW p \in Procs, Start(p) PROVE TypeOK'
  BY <1>a, <1>3 DEF Start, Active
<1>4. ASSUME NEW p \in Procs, Load(p) PROVE TypeOK'
  <2>1. sent[p] = 0
    BY <1>a, <1>4 DEF Load, Written
  <2>2. \A q \in Procs : sent'[q] <= Size[loaded'[q]]
    BY <1>a, <1>b, <1>4, <2>1 DEF Load
  <2> QED
    BY <1>a, <1>4, <2>2 DEF Load, Active, Waiting
<1>5. ASSUME NEW p \in Procs, Connect(p) PROVE TypeOK'
  BY <1>a, <1>5 DEF Connect, Active
<1>6. ASSUME NEW p \in Procs, Fingerprint(p) PROVE TypeOK'
  BY <1>a, <1>6 DEF Fingerprint, Active, Waiting
<1>7. ASSUME NEW p \in Procs, Check(p) PROVE TypeOK'
  BY <1>a, <1>7 DEF Check, Active, Waiting
<1>8. ASSUME NEW p \in Procs, EmbedAll(p) PROVE TypeOK'
  BY <1>a, <1>8 DEF EmbedAll, Active, Waiting, Chunks
<1>9. ASSUME NEW p \in Procs, Begin(p) PROVE TypeOK'
  BY <1>a, <1>9 DEF Begin, Active, Waiting
<1>10. ASSUME NEW p \in Procs, Delete(p) PROVE TypeOK'
  BY <1>a, <1>10 DEF Delete, Active, Waiting, StoredFor
<1>11. ASSUME NEW p \in Procs, Deleted(p) PROVE TypeOK'
  BY <1>a, <1>11 DEF Deleted, Active, Waiting
<1>12. ASSUME NEW p \in Procs, InsertBatch(p) PROVE TypeOK'
  <2> DEFINE end == IF sent[p] + BatchSize > Size[loaded[p]]
                      THEN Size[loaded[p]] ELSE sent[p] + BatchSize
  <2>1. end \in Nat /\ end <= Size[loaded[p]]
    BY <1>a, <1>b
  <2>2. RowsOf(p, (sent[p] + 1)..end) \subseteq AllRows
    <3>1. (sent[p] + 1)..end \in SUBSET Nat
      BY <1>a, <2>1
    <3>2. pc[p] # "off"
      BY <1>12 DEF InsertBatch
    <3> QED
      BY <1>a, <3>1, <3>2, RowsTyped
  <2>3. inserted' \in [Procs -> SUBSET AllRows]
    BY <1>a, <1>12, <2>2 DEF InsertBatch
  <2>4. sent' = [sent EXCEPT ![p] = end]
    BY <1>12 DEF InsertBatch
  <2>5. sent' \in [Procs -> Nat] /\ \A q \in Procs : sent'[q] <= Size[loaded[q]]
    BY <1>a, <2>1, <2>4
  <2> QED
    BY <1>a, <1>12, <2>3, <2>5 DEF InsertBatch
<1>13. ASSUME NEW p \in Procs, Commit(p) PROVE TypeOK'
  BY <1>a, <1>13 DEF Commit, Active, Waiting
<1>c. \A p \in Procs : Size[loaded[p]] >= 0
  BY <1>a, <1>b
<1>14. ASSUME NEW p \in Procs, Committed(p) PROVE TypeOK'
  BY <1>a, <1>c, <1>14 DEF Committed
<1>15. ASSUME NEW p \in Procs, Abort(p) PROVE TypeOK'
  BY <1>a, <1>c, <1>15 DEF Abort
<1>16. CASE UNCHANGED vars
  BY <1>a, <1>16 DEF vars
<1> QED
  BY <1>1, <1>2, <1>3, <1>4, <1>5, <1>6, <1>7, <1>8, <1>9, <1>10, <1>11, <1>12,
     <1>13, <1>14, <1>15, <1>16 DEF Next, Step

LEMMA NextFresh == IInv /\ [Next]_vars => FreshRuns'
<1> SUFFICES ASSUME IInv, [Next]_vars PROVE FreshRuns'
  OBVIOUS
<1>a. TypeOK /\ Written /\ FreshRuns
  BY DEF IInv
<1> USE DEF Goto, End, TxClosed, client, tx
\* Nothing starts: the running invocations keep their numbers, or end.
<1>b. ASSUME UNCHANGED <<rows, runs, run, targets, deleted>>,
             \A p \in Procs : pc'[p] # "off" => pc[p] # "off"
      PROVE  FreshRuns'
  BY <1>a, <1>b DEF FreshRuns
<1>1. ASSUME NEW p \in Procs, Start(p) PROVE FreshRuns'
  <2>1. runs \in Nat /\ runs' = runs + 1 /\ run'[p] = runs + 1
    BY <1>a, <1>1 DEF Start, TypeOK
  <2>2. \A q \in Procs \ {p} : run'[q] = run[q] /\ pc'[q] = pc[q]
    BY <1>a, <1>1 DEF Start, TypeOK
  <2>3. UNCHANGED <<rows, targets, deleted>>
    BY <1>1 DEF Start
  <2>4. \A q \in Procs : pc'[q] # "off" => run'[q] \in 1..runs'
    BY <1>a, <2>1, <2>2 DEF FreshRuns
  <2>5. \A q, r \in Procs :
          q # r /\ pc'[q] # "off" /\ pc'[r] # "off" => run'[q] # run'[r]
    BY <1>a, <2>1, <2>2 DEF FreshRuns
  <2>6. \A q, r \in Procs : \A x \in rows \cup targets[q] \cup deleted[q] :
          x.run \in 1..runs' /\ (pc'[r] # "off" => x.run # run'[r])
    BY <1>a, <2>1, <2>2 DEF FreshRuns
  <2> QED
    BY <2>3, <2>4, <2>5, <2>6 DEF FreshRuns
<1>2. ASSUME NEW p \in Procs,
             \/ Load(p) \/ Connect(p) \/ Fingerprint(p) \/ Check(p) \/ EmbedAll(p)
             \/ Begin(p) \/ InsertBatch(p) \/ Commit(p) \/ Deadline(p)
      PROVE  FreshRuns'
  BY <1>a, <1>b, <1>2 DEF Load, Connect, Fingerprint, Check, EmbedAll, Begin,
     InsertBatch, Commit, Deadline, TypeOK
<1>3. ASSUME NEW s \in Sources, Edit(s) PROVE FreshRuns'
  BY <1>b, <1>3 DEF Edit
<1>4. CASE UNCHANGED vars
  BY <1>b, <1>4 DEF vars
<1>5. ASSUME NEW p \in Procs,
             UNCHANGED <<runs, run>>,
             \A q \in Procs : pc'[q] # "off" => pc[q] # "off",
             \A q \in Procs : rows' \cup targets'[q] \cup deleted'[q]
                 \subseteq rows \cup targets[q] \cup deleted[q]
      PROVE  FreshRuns'
  BY <1>a, <1>5 DEF FreshRuns
<1>6. ASSUME NEW p \in Procs, Abort(p) PROVE FreshRuns'
  <2>1. \A q \in Procs : targets'[q] \in {{}, targets[q]} /\ deleted'[q] \in {{}, deleted[q]}
    BY <1>6 DEF Abort
  <2> QED
    BY <1>a, <1>b, <1>6 DEF Abort, TypeOK, FreshRuns
<1>7. ASSUME NEW p \in Procs, Delete(p) \/ Deleted(p) PROVE FreshRuns'
  <2>1. \A q \in Procs : targets'[q] \subseteq targets[q] \cup rows
    BY <1>a, <1>7 DEF Delete, Deleted, StoredFor, TypeOK
  <2>2. \A q \in Procs : deleted'[q] \subseteq deleted[q] \cup rows
    BY <1>a, <1>7 DEF Delete, Deleted, TypeOK
  <2>3. \A q \in Procs : pc'[q] # "off" => pc[q] # "off"
    BY <1>a, <1>7 DEF Delete, Deleted, TypeOK
  <2>4. UNCHANGED <<rows, runs, run>>
    BY <1>7 DEF Delete, Deleted
  <2> QED
    BY <1>5, <2>1, <2>2, <2>3, <2>4
<1>8. ASSUME NEW p \in Procs, Committed(p) PROVE FreshRuns'
  <2>1. \A x \in inserted[p] : x.run = run[p]
    BY <1>a, <1>8, RowFields DEF Committed, Written
  <2>2. pc[p] # "off" /\ pc'[p] = "off" /\ UNCHANGED <<runs, run>>
    BY <1>a, <1>8 DEF Committed, TypeOK
  <2>3. \A q \in Procs : pc'[q] # "off" => pc[q] # "off" /\ q # p
    BY <1>a, <1>8 DEF Committed, TypeOK
  <2>4. rows' \subseteq rows \cup inserted[p]
    BY <1>8 DEF Committed
  <2>5. \A q \in Procs : targets'[q] \subseteq targets[q] /\ deleted'[q] \subseteq deleted[q]
    BY <1>8 DEF Committed
  <2> QED
    BY <1>a, <2>1, <2>2, <2>3, <2>4, <2>5 DEF FreshRuns
<1> QED
  BY <1>1, <1>2, <1>3, <1>4, <1>6, <1>7, <1>8 DEF Next, Step

LEMMA NextEmbedded == IInv /\ [Next]_vars => Embedded'
<1> SUFFICES ASSUME IInv, [Next]_vars PROVE Embedded'
  OBVIOUS
<1>a. TypeOK /\ Embedded
  BY DEF IInv
<1> USE DEF Goto, End, TxClosed, client, tx
<1>1. ASSUME NEW p \in Procs, Deadline(p) PROVE Embedded'
  BY <1>a, <1>1 DEF Deadline, Embedded, TypeOK
\* A shell before its transaction that has no vectors yet, or moves on without.
<1>b. ASSUME NEW p \in Procs, NEW w \in {"off", "connect", "fingerprint", "check", "embed"},
             pc' = [pc EXCEPT ![p] = w],
             UNCHANGED <<vectors, ctxDone>>,
             \A q \in Procs \ {p} : loaded'[q] = loaded[q]
      PROVE  Embedded'
  BY <1>a, <1>b DEF Embedded, InTx, TypeOK
<1>2. ASSUME NEW p \in Procs, Start(p) PROVE Embedded'
  BY <1>a, <1>2 DEF Start, Embedded, InTx, TypeOK
<1>3. ASSUME NEW p \in Procs, Load(p) PROVE Embedded'
  <2>1. \A q \in Procs \ {p} : loaded'[q] = loaded[q]
    BY <1>a, <1>3 DEF Load, TypeOK
  <2>2. UNCHANGED <<vectors, ctxDone>>
    BY <1>3 DEF Load
  <2>3. pc' = [pc EXCEPT ![p] = "off"] \/ pc' = [pc EXCEPT ![p] = "connect"]
    BY <1>3 DEF Load
  <2> QED
    BY <1>b, <2>1, <2>2, <2>3
<1>10. ASSUME NEW p \in Procs, Connect(p) \/ Fingerprint(p) \/ Check(p) PROVE Embedded'
  <2>1. UNCHANGED <<vectors, ctxDone, loaded>>
    BY <1>10 DEF Connect, Fingerprint, Check
  <2>2. \/ pc' = [pc EXCEPT ![p] = "off"] \/ pc' = [pc EXCEPT ![p] = "fingerprint"]
        \/ pc' = [pc EXCEPT ![p] = "check"] \/ pc' = [pc EXCEPT ![p] = "embed"]
    BY <1>10 DEF Connect, Fingerprint, Check
  <2> QED
    BY <1>b, <2>1, <2>2
<1>4. ASSUME NEW p \in Procs, EmbedAll(p) PROVE Embedded'
  BY <1>a, <1>4 DEF EmbedAll, Embedded, InTx, TypeOK
<1>5. ASSUME NEW p \in Procs, Begin(p) PROVE Embedded'
  BY <1>a, <1>5 DEF Begin, Embedded, InTx, TypeOK
<1>6. ASSUME NEW p \in Procs,
             Delete(p) \/ Deleted(p) \/ InsertBatch(p) \/ Commit(p)
      PROVE  Embedded'
  BY <1>a, <1>6 DEF Delete, Deleted, InsertBatch, Commit, Embedded, InTx, TypeOK
<1>7. ASSUME NEW p \in Procs, Committed(p) \/ Abort(p) PROVE Embedded'
  BY <1>a, <1>7 DEF Committed, Abort, Embedded, InTx, TypeOK
<1>8. ASSUME NEW s \in Sources, Edit(s) PROVE Embedded'
  BY <1>a, <1>8 DEF Edit, Embedded
<1>9. CASE UNCHANGED vars
  BY <1>a, <1>9 DEF vars, Embedded
<1> QED
  BY <1>1, <1>2, <1>3, <1>4, <1>5, <1>6, <1>7, <1>8, <1>9, <1>10 DEF Next, Step

\* The rows an INSERT adds are the rows of its batch.
LEMMA NextWritten == IInv /\ [Next]_vars => Written'
<1> SUFFICES ASSUME IInv, [Next]_vars PROVE Written'
  OBVIOUS
<1>a. TypeOK /\ Written
  BY DEF IInv
<1> USE DEF Goto, End, TxClosed, client, tx
\* A shell outside its INSERTs moves, staying outside.
<1>b. ASSUME NEW p \in Procs, pc[p] \notin {"insert", "committing"},
             NEW w, w \notin {"insert", "committing"},
             pc' = [pc EXCEPT ![p] = w],
             UNCHANGED <<inserted, sent>>,
             \A q \in Procs \ {p} : /\ run'[q] = run[q] /\ loaded'[q] = loaded[q]
                                    /\ hashed'[q] = hashed[q] /\ key'[q] = key[q]
                                    /\ vectors'[q] = vectors[q]
      PROVE  Written'
  BY <1>a, <1>b DEF Written, RowsOf, TypeOK
<1>1. CASE UNCHANGED <<pc, run, key, loaded, hashed, vectors, inserted, sent>>
  BY <1>a, <1>1 DEF Written, RowsOf
<1>2. ASSUME NEW p \in Procs, Start(p) PROVE Written'
  BY <1>a, <1>b, <1>2 DEF Start, TypeOK
<1>3. ASSUME NEW p \in Procs, Load(p) PROVE Written'
  BY <1>a, <1>b, <1>3 DEF Load, TypeOK
<1>4. ASSUME NEW p \in Procs,
             Connect(p) \/ Check(p) \/ Begin(p) \/ Delete(p)
      PROVE  Written'
  BY <1>a, <1>b, <1>4 DEF Connect, Check, Begin, Delete, TypeOK
<1>5. ASSUME NEW p \in Procs, Fingerprint(p) \/ EmbedAll(p) PROVE Written'
  BY <1>a, <1>b, <1>5 DEF Fingerprint, EmbedAll, TypeOK
<1>6. ASSUME NEW p \in Procs, Deleted(p) PROVE Written'
  <2>1. inserted[p] = {} /\ sent[p] = 0
    BY <1>a, <1>6 DEF Deleted, Written
  <2>2. RowsOf(p, 1..0) = {}
    BY DEF RowsOf
  <2> QED
    BY <1>a, <1>6, <2>1, <2>2 DEF Deleted, Written, RowsOf, TypeOK
<1>7. ASSUME NEW p \in Procs, InsertBatch(p) PROVE Written'
  <2> DEFINE end == IF sent[p] + BatchSize > Size[loaded[p]]
                      THEN Size[loaded[p]] ELSE sent[p] + BatchSize
  <2>1. Size[loaded[p]] \in Nat /\ sent[p] \in Nat /\ sent[p] < Size[loaded[p]]
    BY <1>a, <1>7 DEF TypeOK, InsertBatch
  <2>2. (1..sent[p]) \cup ((sent[p] + 1)..end) = 1..end
    BY <2>1
  <2>3. inserted'[p] = RowsOf(p, 1..end)
    <3>1. inserted[p] = RowsOf(p, 1..sent[p])
      BY <1>a, <1>7 DEF InsertBatch, Written
    <3>2. inserted'[p] = inserted[p] \cup RowsOf(p, (sent[p] + 1)..end)
      BY <1>a, <1>7 DEF InsertBatch, TypeOK
    <3>3. RowsOf(p, 1..sent[p]) \cup RowsOf(p, (sent[p] + 1)..end)
            = RowsOf(p, (1..sent[p]) \cup ((sent[p] + 1)..end))
      <4> HIDE DEF end
      <4> QED
        BY DEF RowsOf
    <3> QED
      BY <2>2, <3>1, <3>2, <3>3
  <2>4. sent'[p] = end
    BY <1>a, <1>7 DEF InsertBatch, TypeOK
  <2> HIDE DEF end
  <2>5. \A q \in Procs \ {p} : inserted'[q] = inserted[q] /\ sent'[q] = sent[q]
    BY <1>a, <1>7 DEF InsertBatch, TypeOK
  <2>6. /\ UNCHANGED <<pc, run, key, loaded, hashed, vectors>>
        /\ pc[p] = "insert"
    BY <1>7 DEF InsertBatch
  <2> QED
    BY <1>a, <2>3, <2>4, <2>5, <2>6 DEF Written, RowsOf
<1>8. ASSUME NEW p \in Procs, Commit(p) PROVE Written'
  BY <1>a, <1>8 DEF Commit, Written, RowsOf, TypeOK
<1>9. ASSUME NEW p \in Procs, Committed(p) \/ Abort(p) PROVE Written'
  BY <1>a, <1>9 DEF Committed, Abort, Written, RowsOf, TypeOK
<1>10. ASSUME NEW p \in Procs, Deadline(p) PROVE Written'
  BY <1>1, <1>10 DEF Deadline
<1>11. ASSUME NEW s \in Sources, Edit(s) PROVE Written'
  BY <1>1, <1>11 DEF Edit
<1>12. CASE UNCHANGED vars
  BY <1>1, <1>12 DEF vars
<1> QED
  BY <1>2, <1>3, <1>4, <1>5, <1>6, <1>7, <1>8, <1>9, <1>10, <1>11, <1>12
     DEF Next, Step

\* What a DELETE finds or removes is closed when it is taken, and a commit of
\* another transaction only adds rows of an invocation that is in no snapshot.
LEMMA NextSnapshots == IInv /\ [Next]_vars => Snapshots'
<1> SUFFICES ASSUME IInv, [Next]_vars PROVE Snapshots'
  OBVIOUS
<1>a. TypeOK /\ FreshRuns /\ Snapshots /\ WholeDocuments /\ Written
  BY DEF IInv
<1> USE DEF Goto, End, TxClosed, client, tx
<1>1. CASE UNCHANGED <<rows, targets, deleted>>
  BY <1>a, <1>1 DEF Snapshots, Closed
<1>2. ASSUME NEW p \in Procs, Delete(p) PROVE Snapshots'
  <2>1. \A x, y \in rows : x.run = y.run => x.source = y.source
    <3> SUFFICES ASSUME NEW x \in rows, NEW y \in rows, x.run = y.run
                 PROVE  x.source = y.source
      OBVIOUS
    <3>1. y \in Document(x.source, x.run, x.version, x.hash, x.key)
      BY <1>a DEF WholeDocuments, RowsOfRun
    <3> QED
      BY <3>1 DEF Document, Row
  <2>2. Closed(StoredFor(SourceOf[p]))
    BY <2>1 DEF Closed, StoredFor
  <2>3. targets' = [targets EXCEPT ![p] = StoredFor(SourceOf[p])]
    BY <1>2 DEF Delete
  <2>4. UNCHANGED <<rows, deleted>>
    BY <1>2 DEF Delete
  <2> QED
    BY <1>a, <2>2, <2>3, <2>4 DEF Snapshots, Closed, TypeOK
<1>3. ASSUME NEW p \in Procs, Deleted(p) PROVE Snapshots'
  <2>1. Closed(targets[p] \cap rows)
    BY <1>a DEF Snapshots, Closed
  <2>2. deleted' = [deleted EXCEPT ![p] = targets[p] \cap rows]
    BY <1>3 DEF Deleted
  <2>3. UNCHANGED <<rows, targets>>
    BY <1>3 DEF Deleted
  <2> QED
    BY <1>a, <2>1, <2>2, <2>3 DEF Snapshots, Closed, TypeOK
<1>4. ASSUME NEW p \in Procs, Committed(p) PROVE Snapshots'
  <2>1. \A x \in inserted[p] : x.run = run[p]
    BY <1>a, <1>4, RowFields DEF Committed, Written
  <2>2. rows' \subseteq rows \cup inserted[p]
    BY <1>4 DEF Committed
  <2>3. pc[p] # "off"
    BY <1>4 DEF Committed
  <2>4. \A q \in Procs : targets'[q] \in {{}, targets[q]} /\ deleted'[q] \in {{}, deleted[q]}
    BY <1>a, <1>4 DEF Committed, TypeOK
  <2>5. \A q \in Procs : \A x \in targets[q] \cup deleted[q] : x.run # run[p]
    BY <1>a, <2>3 DEF FreshRuns
  <2> QED
    BY <1>a, <2>1, <2>2, <2>4, <2>5 DEF Snapshots, Closed
<1>5. ASSUME NEW p \in Procs, Abort(p) PROVE Snapshots'
  <2>1. \A q \in Procs : targets'[q] \in {{}, targets[q]} /\ deleted'[q] \in {{}, deleted[q]}
    BY <1>a, <1>5 DEF Abort, TypeOK
  <2> QED
    BY <1>a, <1>5, <2>1 DEF Abort, Snapshots, Closed
<1>6. ASSUME NEW p \in Procs,
             \/ Start(p) \/ Load(p) \/ Connect(p) \/ Fingerprint(p) \/ Check(p)
             \/ EmbedAll(p) \/ Begin(p) \/ InsertBatch(p) \/ Commit(p) \/ Deadline(p)
      PROVE  Snapshots'
  BY <1>1, <1>6 DEF Start, Load, Connect, Fingerprint, Check, EmbedAll, Begin,
     InsertBatch, Commit, Deadline
<1>7. ASSUME NEW s \in Sources, Edit(s) PROVE Snapshots'
  BY <1>1, <1>7 DEF Edit
<1>8. CASE UNCHANGED vars
  BY <1>1, <1>8 DEF vars
<1> QED
  BY <1>2, <1>3, <1>4, <1>5, <1>6, <1>7, <1>8 DEF Next, Step

\* A commit removes whole documents and adds one.
LEMMA NextWhole == IInv /\ [Next]_vars => WholeDocuments'
<1> SUFFICES ASSUME IInv, [Next]_vars PROVE WholeDocuments'
  OBVIOUS
<1>a. TypeOK /\ FreshRuns /\ Snapshots /\ WholeDocuments
  BY DEF IInv
<1>1. CASE UNCHANGED rows
  BY <1>a, <1>1 DEF WholeDocuments, RowsOfRun
<1>2. ASSUME NEW p \in Procs, Committed(p) PROVE WholeDocuments'
  <2>1. /\ rows' = (rows \ deleted[p]) \cup inserted[p]
        /\ pc[p] = "committing"
    BY <1>2 DEF Committed
  <2>2. inserted[p] = Document(SourceOf[p], run[p], loaded[p], hashed[p], key[p])
    BY <2>1, InsertedWhole
  <2>3. \A x \in inserted[p] :
          /\ x.source = SourceOf[p] /\ x.run = run[p]
          /\ x.version = loaded[p] /\ x.hash = hashed[p] /\ x.key = key[p]
    BY <2>2 DEF Document, Row
  <2>4. \A x \in rows : x.run # run[p]
    BY <1>a, <2>1 DEF FreshRuns
  <2> SUFFICES ASSUME NEW x \in rows'
               PROVE  RowsOfRun(x.run)' =
                        Document(x.source, x.run, x.version, x.hash, x.key)
    BY DEF WholeDocuments
  <2>5. CASE x \in inserted[p]
    <3>1. RowsOfRun(x.run)' = inserted[p]
      BY <2>1, <2>3, <2>4, <2>5 DEF RowsOfRun
    <3> QED
      BY <2>2, <2>3, <2>5, <3>1
  <2>6. CASE x \in rows \ deleted[p]
    <3>1. \A y \in rows : y.run = x.run => y \notin deleted[p]
      BY <1>a, <2>6 DEF Snapshots, Closed
    <3>2. RowsOfRun(x.run)' = RowsOfRun(x.run)
      BY <2>1, <2>3, <2>4, <2>6, <3>1 DEF RowsOfRun
    <3> QED
      BY <1>a, <2>6, <3>2 DEF WholeDocuments
  <2> QED
    BY <2>1, <2>5, <2>6
<1> QED
  BY <1>1, <1>2 DEF Next, Step, Edit, Deadline, Start, Load, Connect,
     Fingerprint, Check, EmbedAll, Begin, Delete, Deleted, InsertBatch, Commit,
     Abort, vars

------------------------------------------------------------------------------
THEOREM Invariance == Spec => []IInv
<1>1. IInv /\ [Next]_vars => IInv'
  BY NextType, NextFresh, NextEmbedded, NextWritten, NextSnapshots, NextWhole
     DEF IInv
<1> QED
  BY InitIInv, <1>1, PTL DEF Spec

\* cmd/ingest's state and the table keep their types for every instance, and
\* no INSERT batch passes the end of the document.
THEOREM TypeCorrect == Spec => []TypeOK
<1>1. IInv => TypeOK
  BY DEF IInv
<1> QED
  BY <1>1, Invariance, PTL

\* ReplaceDocumentWithProvenance stores an invocation's chunks all together
\* and removes them all together, each with its vector, however many shells
\* ingest the same file and whenever deadlines, failures and edits strike.
THEOREM StoredWhole == Spec => []WholeDocuments
<1>1. IInv => WholeDocuments
  BY DEF IInv
<1> QED
  BY <1>1, Invariance, PTL

------------------------------------------------------------------------------
(* One shell at a time per source.                                           *)

OwnSource == \A p, q \in Procs : SourceOf[p] = SourceOf[q] => p = q

\* With no other writer of its source, what a DELETE finds is still what is
\* stored when the transaction ends, and each source stores one document.
SoloStore ==
    /\ \A p \in Procs :
          /\ pc[p] = "deleting" => targets[p] = StoredFor(SourceOf[p])
          /\ pc[p] \in {"insert", "committing"} => deleted[p] = StoredFor(SourceOf[p])
          /\ pc[p] \notin {"off", "load"} => Size[loaded[p]] > 0
    /\ \A s \in Sources : StoredFor(s) = {} \/ WholeDocument(s, StoredFor(s))

\* A commit replaces the stored rows of its own source and no others.
LEMMA CommitReplaces ==
    ASSUME OwnSource, IInv, SoloStore, NEW p \in Procs, Committed(p)
    PROVE  /\ StoredFor(SourceOf[p])' = inserted[p]
           /\ \A s \in Sources \ {SourceOf[p]} : StoredFor(s)' = StoredFor(s)
           /\ inserted[p] = Document(SourceOf[p], run[p], loaded[p], hashed[p], key[p])
           /\ WholeDocument(SourceOf[p], inserted[p])
<1>1. /\ rows' = (rows \ deleted[p]) \cup inserted[p]
      /\ pc[p] = "committing"
      /\ deleted[p] = StoredFor(SourceOf[p])
      /\ Size[loaded[p]] > 0
  BY DEF Committed, SoloStore
<1>2. inserted[p] = Document(SourceOf[p], run[p], loaded[p], hashed[p], key[p])
  BY <1>1, InsertedWhole
<1>3. \A x \in inserted[p] :
          /\ x.source = SourceOf[p] /\ x.run = run[p]
          /\ x.version = loaded[p] /\ x.hash = hashed[p] /\ x.key = key[p]
  BY <1>2 DEF Document, Row
<1>4. StoredFor(SourceOf[p])' = inserted[p]
  BY <1>1, <1>3 DEF StoredFor
<1>5. \A s \in Sources \ {SourceOf[p]} : StoredFor(s)' = StoredFor(s)
  BY <1>1, <1>3 DEF StoredFor
<1>6. Row(SourceOf[p], run[p], 1, loaded[p], hashed[p], key[p], TRUE) \in inserted[p]
  <2>1. Size[loaded[p]] \in Nat
    BY DEF IInv, TypeOK
  <2>2. 1 \in Chunks(loaded[p])
    BY <1>1, <2>1 DEF Chunks
  <2> QED
    BY <1>2, <2>2 DEF Document
<1>7. WholeDocument(SourceOf[p], inserted[p])
  BY <1>2, <1>3, <1>6 DEF WholeDocument
<1> QED
  BY <1>2, <1>4, <1>5, <1>7

LEMMA InitSolo == Init => SoloStore
BY DEF Init, SoloStore, StoredFor

LEMMA NextSolo ==
    ASSUME OwnSource
    PROVE  IInv /\ SoloStore /\ [Next]_vars => SoloStore'
<1> SUFFICES ASSUME IInv, SoloStore, [Next]_vars PROVE SoloStore'
  OBVIOUS
<1>a. TypeOK
  BY DEF IInv
<1> USE DEF Goto, End, TxClosed, client, tx
<1>1. ASSUME NEW p \in Procs, Committed(p) PROVE SoloStore'
  <2>1. /\ StoredFor(SourceOf[p])' = inserted[p]
        /\ \A s \in Sources \ {SourceOf[p]} : StoredFor(s)' = StoredFor(s)
        /\ WholeDocument(SourceOf[p], inserted[p])
    BY <1>1, CommitReplaces
  <2>2. \A s \in Sources : StoredFor(s)' = {} \/ WholeDocument(s, StoredFor(s)')
    BY <2>1 DEF SoloStore
  <2>3. \A q \in Procs \ {p} :
          /\ SourceOf[q] \in Sources \ {SourceOf[p]}
          /\ pc'[q] = pc[q] /\ targets'[q] = targets[q]
          /\ deleted'[q] = deleted[q] /\ loaded'[q] = loaded[q]
    BY <1>1, <1>a DEF Committed, TypeOK, OwnSource
  <2>4. pc'[p] = "off"
    BY <1>1, <1>a DEF Committed, TypeOK
  <2> QED
    BY <2>1, <2>2, <2>3, <2>4 DEF SoloStore, WholeDocument
\* Every other step leaves the table alone.
<1>2. ASSUME UNCHANGED rows
      PROVE  /\ \A s : StoredFor(s)' = StoredFor(s)
             /\ \A s \in Sources : (StoredFor(s) = {} \/ WholeDocument(s, StoredFor(s)))'
  BY <1>2 DEF StoredFor, SoloStore, WholeDocument
<1>3. ASSUME NEW p \in Procs, Load(p) PROVE SoloStore'
  <2>1. UNCHANGED <<rows, targets, deleted>>
    BY <1>3 DEF Load
  <2>2. \A q \in Procs \ {p} : pc'[q] = pc[q] /\ loaded'[q] = loaded[q]
    BY <1>3, <1>a DEF Load, TypeOK
  <2>3. pc'[p] \in {"off", "connect"} /\ (pc'[p] = "connect" => Size[loaded'[p]] > 0)
    BY <1>3, <1>a DEF Load, TypeOK
  <2> QED
    BY <1>2, <2>1, <2>2, <2>3 DEF SoloStore
<1>4. ASSUME NEW p \in Procs, Start(p) \/ Abort(p) PROVE SoloStore'
  <2>1. UNCHANGED <<rows, loaded>>
    BY <1>4 DEF Start, Abort
  <2>2. \A q \in Procs \ {p} : /\ pc'[q] = pc[q] /\ targets'[q] = targets[q]
                                /\ deleted'[q] = deleted[q]
    BY <1>4, <1>a DEF Start, Abort, TypeOK
  <2>3. pc'[p] \in {"off", "load"}
    BY <1>4, <1>a DEF Start, Abort, TypeOK
  <2> QED
    BY <1>2, <2>1, <2>2, <2>3 DEF SoloStore
<1>5. ASSUME NEW p \in Procs,
             \/ Connect(p) \/ Fingerprint(p) \/ Check(p) \/ EmbedAll(p) \/ Begin(p)
      PROVE  SoloStore'
  <2>1. UNCHANGED <<rows, loaded, targets, deleted>>
    BY <1>5 DEF Connect, Fingerprint, Check, EmbedAll, Begin
  <2>2. \A q \in Procs \ {p} : pc'[q] = pc[q]
    BY <1>5, <1>a DEF Connect, Fingerprint, Check, EmbedAll, Begin, TypeOK
  <2>3. /\ pc[p] \notin {"off", "load"}
        /\ pc'[p] \in {"off", "fingerprint", "check", "embed", "begin", "delete"}
    BY <1>5, <1>a DEF Connect, Fingerprint, Check, EmbedAll, Begin, TypeOK
  <2> QED
    BY <1>2, <2>1, <2>2, <2>3 DEF SoloStore
<1>6. ASSUME NEW p \in Procs, Delete(p) PROVE SoloStore'
  BY <1>2, <1>6, <1>a DEF Delete, SoloStore, TypeOK
<1>7. ASSUME NEW p \in Procs, Deleted(p) PROVE SoloStore'
  <2>1. targets[p] \cap rows = StoredFor(SourceOf[p])
    BY <1>7 DEF Deleted, SoloStore, StoredFor
  <2> QED
    BY <1>2, <1>7, <1>a, <2>1 DEF Deleted, SoloStore, TypeOK
<1>8. ASSUME NEW p \in Procs, InsertBatch(p) \/ Commit(p) PROVE SoloStore'
  BY <1>2, <1>8, <1>a DEF InsertBatch, Commit, SoloStore, TypeOK
<1>9. CASE UNCHANGED <<rows, pc, loaded, targets, deleted>>
  BY <1>2, <1>9 DEF SoloStore
<1>10. ASSUME NEW p \in Procs, Deadline(p) PROVE SoloStore'
  BY <1>9, <1>10 DEF Deadline
<1>11. ASSUME NEW s \in Sources, Edit(s) PROVE SoloStore'
  BY <1>9, <1>11 DEF Edit
<1>12. CASE UNCHANGED vars
  BY <1>9, <1>12 DEF vars
<1> QED
  BY <1>1, <1>3, <1>4, <1>5, <1>6, <1>7, <1>8, <1>10, <1>11, <1>12 DEF Next, Step

\* With one shell per source, cmd/ingest implements DocumentStore: each source
\* holds nothing or one whole document, replaced in one step by another, and
\* no other source is touched, whatever fails on the way.
THEOREM StoreRefinement ==
    ASSUME OwnSource
    PROVE  Spec => ImplementsStore
<1>1. Init => Store!Init
  BY DEF Init, Store!Init, StoredFor
<1>2. IInv /\ SoloStore /\ [Next]_vars => [Store!Next]_([s \in Sources |-> StoredFor(s)])
  <2> SUFFICES ASSUME IInv, SoloStore, [Next]_vars
               PROVE  [Store!Next]_([s \in Sources |-> StoredFor(s)])
    OBVIOUS
  <2>1. ASSUME NEW p \in Procs, Committed(p) PROVE Store!Replace(SourceOf[p])
    <3>1. /\ StoredFor(SourceOf[p])' = inserted[p]
          /\ \A s \in Sources \ {SourceOf[p]} : StoredFor(s)' = StoredFor(s)
          /\ WholeDocument(SourceOf[p], inserted[p])
      BY <2>1, CommitReplaces
    <3> QED
      BY <3>1 DEF Store!Replace
  <2>2. CASE UNCHANGED rows
    BY <2>2 DEF StoredFor
  <2> QED
    BY <2>1, <2>2 DEF Store!Next, Next, Step, Edit, Deadline, Start, Load,
       Connect, Fingerprint, Check, EmbedAll, Begin, Delete, Deleted,
       InsertBatch, Commit, Abort, vars
<1>3. Spec => []SoloStore
  BY InitSolo, NextSolo, Invariance, PTL DEF Spec
<1> QED
  BY <1>1, <1>2, <1>3, Invariance, PTL DEF Spec, ImplementsStore, Store!Spec

------------------------------------------------------------------------------
(* One shell at a time per source, and no edit while it runs.                *)

\* The two reads of a running invocation saw the file as it still is, and a
\* stored row's fingerprint is the fingerprint of its own content.
Undisturbed ==
    /\ \A p \in Procs :
          /\ pc[p] # "off" => result[p] = "none"
          /\ pc[p] \notin {"off", "load"} => loaded[p] = file[SourceOf[p]]
          /\ pc[p] \notin {"off", "load", "connect", "fingerprint"} =>
                 hashed[p] = file[SourceOf[p]]
    /\ \A x \in rows : x.version = x.hash

LEMMA NextUndisturbed ==
    ASSUME OwnSource, ~EditWhileRunning
    PROVE  IInv /\ SoloStore /\ Undisturbed /\ [Next]_vars => Undisturbed'
<1> SUFFICES ASSUME IInv, SoloStore, Undisturbed, [Next]_vars PROVE Undisturbed'
  OBVIOUS
<1>a. TypeOK
  BY DEF IInv
<1> USE DEF Goto, End, TxClosed, client, tx
<1>1. ASSUME NEW s \in Sources, Edit(s) PROVE Undisturbed'
  <2>1. \A p \in Procs : SourceOf[p] = s => pc[p] = "off"
    BY <1>1 DEF Edit
  <2>2. \A p \in Procs : SourceOf[p] # s => file'[SourceOf[p]] = file[SourceOf[p]]
    BY <1>1, <1>a DEF Edit, TypeOK
  <2>3. UNCHANGED <<rows, pc, result, loaded, hashed>>
    BY <1>1 DEF Edit
  <2> QED
    BY <2>1, <2>2, <2>3 DEF Undisturbed
<1>2. ASSUME NEW p \in Procs, Start(p) PROVE Undisturbed'
  BY <1>2, <1>a DEF Start, Undisturbed, TypeOK
<1>3. ASSUME NEW p \in Procs, Load(p) PROVE Undisturbed'
  BY <1>3, <1>a DEF Load, Undisturbed, TypeOK
<1>4. ASSUME NEW p \in Procs, Fingerprint(p) PROVE Undisturbed'
  BY <1>4, <1>a DEF Fingerprint, Undisturbed, TypeOK
<1>5. ASSUME NEW p \in Procs, Connect(p) \/ Check(p) \/ EmbedAll(p) \/ Begin(p)
      PROVE  Undisturbed'
  BY <1>5, <1>a DEF Connect, Check, EmbedAll, Begin, Undisturbed, TypeOK
<1>6. ASSUME NEW p \in Procs,
             \/ Delete(p) \/ Deleted(p) \/ InsertBatch(p) \/ Commit(p) \/ Abort(p)
      PROVE  Undisturbed'
  <2>1. UNCHANGED <<file, rows, loaded, hashed>>
    BY <1>6 DEF Delete, Deleted, InsertBatch, Commit, Abort
  <2>2. \A q \in Procs \ {p} : pc'[q] = pc[q] /\ result'[q] = result[q]
    BY <1>6, <1>a DEF Delete, Deleted, InsertBatch, Commit, Abort, TypeOK
  <2>3. \/ pc'[p] = "off"
        \/ /\ pc[p] \in {"delete", "deleting", "insert"}
           /\ pc'[p] \in {"deleting", "insert", "committing"}
           /\ result'[p] = result[p]
    BY <1>6, <1>a DEF Delete, Deleted, InsertBatch, Commit, Abort, TypeOK
  <2> QED
    BY <2>1, <2>2, <2>3 DEF Undisturbed
<1>7. ASSUME NEW p \in Procs, Committed(p) PROVE Undisturbed'
  <2>1. \A x \in inserted[p] : x.version = x.hash
    <3>1. inserted[p] = Document(SourceOf[p], run[p], loaded[p], hashed[p], key[p])
      BY <1>7, CommitReplaces
    <3>2. loaded[p] = hashed[p]
      BY <1>7 DEF Committed, Undisturbed
    <3> QED
      BY <3>1, <3>2 DEF Document, Row
  <2>2. \A x \in rows' : x \in rows \/ x \in inserted[p]
    BY <1>7 DEF Committed
  <2>3. UNCHANGED <<file, loaded, hashed>>
    BY <1>7 DEF Committed
  <2>4. \A q \in Procs : pc'[q] # "off" => pc'[q] = pc[q] /\ result'[q] = result[q]
    BY <1>7, <1>a DEF Committed, TypeOK
  <2> QED
    BY <2>1, <2>2, <2>3, <2>4 DEF Undisturbed
<1>8. CASE UNCHANGED <<file, rows, pc, result, loaded, hashed>>
  BY <1>8 DEF Undisturbed
<1>9. ASSUME NEW p \in Procs, Deadline(p) PROVE Undisturbed'
  BY <1>8, <1>9 DEF Deadline
<1>10. CASE UNCHANGED vars
  BY <1>8, <1>10 DEF vars
<1> QED
  BY <1>1, <1>2, <1>3, <1>4, <1>5, <1>6, <1>7, <1>9, <1>10 DEF Next, Step

\* A whole document's rows are one for each chunk.
LEMMA DocumentRows ==
    ASSUME NEW s, NEW r, NEW v, NEW h, NEW k
    PROVE  /\ {x.index : x \in Document(s, r, v, h, k)} = Chunks(v)
           /\ \A x, y \in Document(s, r, v, h, k) : x.index = y.index => x = y
           /\ \A x \in Document(s, r, v, h, k) :
                 x.version = v /\ x.hash = h /\ x.key = k
<1>1. \A i : /\ Row(s, r, i, v, h, k, TRUE).index = i
             /\ Row(s, r, i, v, h, k, TRUE).version = v
             /\ Row(s, r, i, v, h, k, TRUE).hash = h
             /\ Row(s, r, i, v, h, k, TRUE).key = k
  BY DEF Row
<1>2. \A x \in Document(s, r, v, h, k) :
          \E i \in Chunks(v) : x = Row(s, r, i, v, h, k, TRUE)
  BY DEF Document
<1>3. \A i \in Chunks(v) : Row(s, r, i, v, h, k, TRUE) \in Document(s, r, v, h, k)
  BY DEF Document
<1>4. {x.index : x \in Document(s, r, v, h, k)} = Chunks(v)
  BY <1>1, <1>2, <1>3
<1>5. \A x \in Document(s, r, v, h, k) :
          /\ x = Row(s, r, x.index, v, h, k, TRUE)
          /\ x.version = v /\ x.hash = h /\ x.key = k
  BY <1>1, <1>2
<1>6. \A x, y \in Document(s, r, v, h, k) : x.index = y.index => x = y
  <2> TAKE x, y \in Document(s, r, v, h, k)
  <2> HAVE x.index = y.index
  <2>1. x = Row(s, r, x.index, v, h, k, TRUE) /\ y = Row(s, r, y.index, v, h, k, TRUE)
    BY <1>5
  <2> QED
    BY <2>1, Zenon
<1> QED
  BY <1>4, <1>5, <1>6

\* Success means the store is current: if a shell's invocation ends as ingested
\* or skipped, the table holds exactly the file's present chunks, embedded with
\* that invocation's configuration, when each source has one shell and no file
\* is edited while it is being ingested.  (MCIngestionStale and
\* MCIngestionDuplicates show that neither assumption can be dropped.)
THEOREM SuccessIsCurrent ==
    ASSUME OwnSource, ~EditWhileRunning
    PROVE  Spec => SuccessMeansCurrent
<1>1. Init => Undisturbed
  BY DEF Init, Undisturbed
<1>2. IInv /\ SoloStore /\ Undisturbed /\ [Next]_vars =>
        [\A p \in Procs :
            /\ pc[p] # "off" /\ result'[p] \in {"ingested", "skipped"}
            /\ loaded[p] = file[SourceOf[p]]
            => HoldsCurrent(p)']_vars
  <2> SUFFICES ASSUME IInv, SoloStore, Undisturbed, Next,
                      NEW p \in Procs, pc[p] # "off",
                      result'[p] \in {"ingested", "skipped"},
                      loaded[p] = file[SourceOf[p]]
               PROVE  HoldsCurrent(p)'
    OBVIOUS
  <2>a. TypeOK /\ result[p] = "none" /\ result'[p] # result[p]
    BY DEF IInv, Undisturbed
  <2>b. SourceOf[p] \in Sources
    OBVIOUS
  <2>1. (Check(p) /\ UpToDate(p)) \/ Committed(p)
    BY <2>a DEF Next, Step, Edit, Deadline, Start, Load, Connect, Fingerprint,
       Check, EmbedAll, Begin, Delete, Deleted, InsertBatch, Commit, Committed,
       Abort, End, TypeOK
  <2>2. CASE Check(p) /\ UpToDate(p)
    <3> DEFINE S == StoredFor(SourceOf[p])
    <3>1. UNCHANGED <<file, rows, key>>
      BY <2>2 DEF Check, client
    <3>2. S # {} /\ \A x \in S : x.hash = hashed[p] /\ x.key = key[p]
      BY <2>2 DEF UpToDate
    <3>3. hashed[p] = file[SourceOf[p]]
      BY <2>2 DEF Check, Undisturbed
    <3>4. PICK x \in S : S = Document(SourceOf[p], x.run, x.version, x.hash, x.key)
      BY <2>b, <3>2 DEF SoloStore, WholeDocument
    <3>5. x.version = file[SourceOf[p]]
      BY <3>2, <3>3, <3>4 DEF Undisturbed, StoredFor
    <3>6. /\ {y.index : y \in S} = Chunks(file[SourceOf[p]])
          /\ \A y, z \in S : y.index = z.index => y = z
          /\ \A y \in S : y.version = file[SourceOf[p]]
      BY <3>4, <3>5, DocumentRows
    <3>7. StoredFor(SourceOf[p])' = S
      BY <3>1 DEF StoredFor
    <3> HIDE DEF S
    <3> QED
      BY <3>1, <3>2, <3>6, <3>7 DEF HoldsCurrent, Chunks
  <2>3. CASE Committed(p)
    <3> DEFINE S == inserted[p]
    <3>1. UNCHANGED <<file, key>>
      BY <2>3 DEF Committed, client
    <3>2. /\ StoredFor(SourceOf[p])' = S
          /\ S = Document(SourceOf[p], run[p], loaded[p], hashed[p], key[p])
          /\ S # {}
      BY <2>3, CommitReplaces DEF WholeDocument
    <3>3. /\ {y.index : y \in S} = Chunks(file[SourceOf[p]])
          /\ \A y, z \in S : y.index = z.index => y = z
          /\ \A y \in S : y.version = file[SourceOf[p]] /\ y.key = key[p]
      BY <3>2, DocumentRows
    <3> HIDE DEF S
    <3> QED
      BY <3>1, <3>2, <3>3 DEF HoldsCurrent, Chunks
  <2> QED
    BY <2>1, <2>2, <2>3
<1>3. Spec => [](IInv /\ SoloStore)
  BY InitSolo, NextSolo, Invariance, PTL DEF Spec
<1>4. Spec => []Undisturbed
  BY <1>1, <1>3, NextUndisturbed, PTL DEF Spec
<1> QED
  BY <1>2, <1>3, <1>4, PTL DEF Spec, SuccessMeansCurrent
==============================================================================
