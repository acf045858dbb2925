------------------------------ MODULE Chunker -------------------------------
(***************************************************************************)
(* The loop by which chunk_snapshot (backend/app/rag/indexing/chunker.py)    *)
(* cuts one file into overlapping chunks, iteration by iteration.  The file   *)
(* is the sequence of its segments: a line with its ending, or the pieces of  *)
(* max_chars of a line that is longer.                                       *)
(***************************************************************************)
EXTENDS Naturals, Sequences

CONSTANTS
  Segment,        \* the segments of files: .line, .chars
  Sources,        \* the files, as sequences of segments
  LinesPerChunk,  \* segments in a chunk (48 in the code)
  OverlapLines,   \* segments a chunk repeats of the one before (6)
  MaxChars        \* characters in a chunk (8000)

\* All pieces of a line but the last have max_chars characters.
WellCut(s) ==
  \A i \in 1..(Len(s) - 1) :
    \/ s[i + 1].line = s[i].line + 1
    \/ s[i + 1].line = s[i].line /\ s[i].chars = MaxChars

ASSUME ChunkerAssumption ==
  /\ LinesPerChunk \in Nat \ {0} /\ OverlapLines \in 0..(LinesPerChunk - 1)
  /\ MaxChars \in Nat \ {0}
  /\ \A g \in Segment : g.line \in Nat \ {0} /\ g.chars \in 1..MaxChars
  /\ Sources \subseteq Seq(Segment)
  /\ \A s \in Sources : WellCut(s)

VARIABLES
  source,                \* the file
  position, end, chars,  \* the chunk being collected: segments position + 1 .. end
  chunks,                \* the chunks made
  done

loop == <<source, position, end, chars, chunks, done>>

Chunk == [first : Nat \ {0}, last : Nat]

TypeOK ==
  /\ source \in Sources
  /\ position \in Nat /\ end \in Nat /\ chars \in 0..MaxChars
  /\ chunks \in Seq(Chunk) /\ done \in BOOLEAN

Init ==
  /\ source \in Sources
  /\ position = 0 /\ end = 0 /\ chars = 0 /\ chunks = <<>>
  /\ done = (Len(source) = 0)

Fits ==
  /\ end - position < LinesPerChunk
  /\ chars + source[end + 1].chars <= MaxChars

More == end < Len(source) /\ Fits

Take ==
  /\ ~done /\ More
  /\ end' = end + 1 /\ chars' = chars + source[end + 1].chars
  /\ UNCHANGED <<source, position, chunks, done>>

\* Mutant of Back: one segment left out when none is repeated.
BackSkips ==
  IF OverlapLines <= end - position - 1 THEN end - OverlapLines
  ELSE IF end = position + 1 THEN end + 1 ELSE position + 1
\* end - min(overlap_lines, end - position - 1): where the next chunk begins.
Back ==
  IF OverlapLines <= end - position - 1 THEN end - OverlapLines ELSE position + 1

\* The chunk is complete; unless it reaches the end of the file another one follows.
Cut ==
  /\ ~done /\ ~More
  /\ chunks' = Append(chunks, [first |-> position + 1, last |-> end])
  /\ IF end >= Len(source)
     THEN done' = TRUE /\ UNCHANGED <<position, end, chars>>
     ELSE position' = Back /\ end' = Back /\ chars' = 0 /\ UNCHANGED done
  /\ UNCHANGED source

Next == Take \/ Cut

Spec == Init /\ [][Next]_loop

-----------------------------------------------------------------------------
In(i, c) == i \in c.first..c.last

\* The segments of a chunk lie on consecutive lines, one segment each: only so does the n-th
\* line of its text lie n - 1 lines after start_line, as everything that cites a chunk counts.
ChunkIsLines ==
  \A k \in 1..Len(chunks) : \A i \in chunks[k].first..chunks[k].last :
    source[i].line = source[chunks[k].first].line + (i - chunks[k].first)

\* When the loop ends every segment of the file is in a chunk.
NothingLeftOut ==
  done => \A i \in 1..Len(source) : \E k \in 1..Len(chunks) : In(i, chunks[k])

\* Every chunk holds a segment and begins after the one before it, so that the loop ends
\* whatever the overlap and however long the lines.
StartsLater ==
  /\ \A k \in 1..Len(chunks) : chunks[k].first <= chunks[k].last
  /\ \A k \in 1..(Len(chunks) - 1) : chunks[k].first < chunks[k + 1].first
=============================================================================
