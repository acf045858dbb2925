---------------------------- MODULE Parts_proofs ----------------------------
(***************************************************************************)
(* Proofs about the parts that stand alone, for every value of their         *)
(* constants: Chunker (files and lines of any length, every overlap shorter  *)
(* than a chunk), Citations (any such file and its chunks, whatever is found, *)
(* selected or quoted), Dependencies (any files, imports and re-exports, and  *)
(* any graph of files), Retrieval (any number of callers, of snapshots and of *)
(* chunks), Architecture (any files, packages and dependencies) and Merge    *)
(* (any results).                                                            *)
(***************************************************************************)
EXTENDS Citations, Dependencies, Retrieval, Architecture, Merge, FiniteSetTheorems,
        SequenceTheorems, NaturalsInduction, WellFoundedInduction, TLAPS

\* Chunker.

\* The chunk being collected is a window of the file, on consecutive lines, whose
\* characters have been counted, its last segment's among them.
WindowInv ==
  /\ position <= end /\ end <= Len(source)
  /\ ~done => position < Len(source)
  /\ end = position => chars = 0
  /\ end > position => chars >= source[end].chars
  /\ \A i \in (position + 1)..end :
       source[i].line = source[position + 1].line + (i - (position + 1))

\* The chunks made begin at or before the window's start, each later than its number says.
StartInv ==
  /\ ~done => \A k \in 1..Len(chunks) : chunks[k].first <= position
  /\ ~done => Len(chunks) <= position
  /\ Len(chunks) <= Len(source)

\* Everything before the window is in a chunk, and everything once the loop has ended.
CoverInv ==
  \A i \in 1..(IF done THEN Len(source) ELSE position) :
    \E k \in 1..Len(chunks) : In(i, chunks[k])

IInv ==
  TypeOK /\ WindowInv /\ StartInv /\ CoverInv /\ ChunkIsLines /\ StartsLater

\* A file is never cut into more chunks than it has segments.
NoMoreThanSegments == Len(chunks) <= Len(source)

-----------------------------------------------------------------------------
\* The loop begins with an empty window and no chunk.
LEMMA InitInv == Init => IInv
<1> SUFFICES ASSUME Init PROVE IInv OBVIOUS
<1> USE ChunkerAssumption
<1>1. TypeOK BY DEF Init, TypeOK
<1>2. Len(source) \in Nat BY DEF Init
<1>3. ~done => Len(source) # 0 BY Zenon DEF Init
<1>4. position = 0 /\ end = 0 /\ chars = 0 /\ chunks = <<>> BY DEF Init
<1>5. Len(chunks) = 0 BY <1>4
<1>6. done => Len(source) = 0 BY Zenon DEF Init
<1>7. WindowInv BY <1>2, <1>3, <1>4 DEF WindowInv
<1>8. StartInv BY <1>2, <1>4, <1>5 DEF StartInv
<1>9. CoverInv BY <1>2, <1>4, <1>6 DEF CoverInv
<1>10. ChunkIsLines /\ StartsLater BY <1>5 DEF ChunkIsLines, StartsLater
<1> QED BY <1>1, <1>7, <1>8, <1>9, <1>10 DEF IInv

\* A segment that fits goes on the line after the last one: the pieces of a long line are
\* as long as a chunk, so that no other fits beside them.
LEMMA TakeInv == IInv /\ Take => IInv'
<1> SUFFICES ASSUME IInv, Take PROVE IInv' OBVIOUS
<1> USE ChunkerAssumption
<1>1. /\ source \in Sources /\ source \in Seq(Segment) /\ WellCut(source)
      /\ position \in Nat /\ end \in Nat /\ chars \in 0..MaxChars
      /\ Len(source) \in Nat /\ end < Len(source)
  BY DEF IInv, TypeOK, Take, More
<1>2. source[end + 1] \in Segment BY <1>1
<1>3. source[end + 1].chars \in 1..MaxChars /\ source[end + 1].line \in Nat
  BY <1>2
<1>4. chars + source[end + 1].chars <= MaxChars BY DEF Take, More, Fits
<1>5. TypeOK' BY <1>1, <1>3, <1>4 DEF IInv, TypeOK, Take
<1>6. ASSUME end > position
      PROVE  source[end + 1].line = source[end].line + 1
  <2>1. chars >= source[end].chars BY <1>6 DEF IInv, WindowInv
  <2>2. end \in 1..(Len(source) - 1) BY <1>1, <1>6
  <2>3. source[end].chars # MaxChars BY <1>1, <1>3, <1>4, <2>1
  <2> QED BY <1>1, <2>2, <2>3 DEF WellCut
<1>7. WindowInv'
  <2>1. position' = position /\ end' = end + 1 /\ source' = source /\ done' = done
        /\ chars' = chars + source[end + 1].chars /\ ~done
    BY DEF Take
  <2>2. ASSUME NEW i \in (position + 1)..(end + 1)
        PROVE  source[i].line = source[position + 1].line + (i - (position + 1))
    <3>1. CASE i \in (position + 1)..end BY <3>1 DEF IInv, WindowInv
    <3>2. CASE i = end + 1 /\ end > position
      <4>1. source[end].line = source[position + 1].line + (end - (position + 1))
        BY <1>1, <3>2 DEF IInv, WindowInv
      <4>2. source[position + 1] \in Segment BY <1>1
      <4>3. source[position + 1].line \in Nat BY <4>2
      <4> QED BY <1>1, <1>6, <3>2, <4>1, <4>3
    <3>3. CASE i = end + 1 /\ end = position BY <1>1, <1>3, <3>3
    <3> QED BY <1>1, <3>1, <3>2, <3>3 DEF IInv, WindowInv
  <2>3. position <= end /\ position < Len(source) BY <2>1 DEF IInv, WindowInv
  <2>4. chars' >= source[end + 1].chars BY <1>1, <1>3, <2>1
  <2> QED BY <1>1, <2>1, <2>2, <2>3, <2>4 DEF WindowInv
<1>8. StartInv' /\ CoverInv' /\ ChunkIsLines' /\ StartsLater'
  BY DEF Take, IInv, StartInv, CoverInv, ChunkIsLines, StartsLater
<1> QED BY <1>5, <1>7, <1>8 DEF IInv

\* A chunk that no segment fits into holds at least one, since a segment alone fits into
\* an empty chunk; the next begins inside it or right after its first segment.
LEMMA CutInv == IInv /\ Cut => IInv'
<1> SUFFICES ASSUME IInv, Cut PROVE IInv' OBVIOUS
<1> DEFINE new == [first |-> position + 1, last |-> end]
<1>1. /\ source \in Sources /\ source \in Seq(Segment)
      /\ position \in Nat /\ end \in Nat /\ chars \in 0..MaxChars
      /\ Len(source) \in Nat /\ chunks \in Seq(Chunk) /\ ~done
      /\ position <= end /\ end <= Len(source) /\ position < Len(source)
  BY ChunkerAssumption DEF IInv, TypeOK, WindowInv, Cut
<1>2. /\ LinesPerChunk \in Nat \ {0} /\ OverlapLines \in 0..(LinesPerChunk - 1)
      /\ MaxChars \in Nat \ {0}
  BY ChunkerAssumption
<1>3. position < end
  <2> SUFFICES ASSUME end = position PROVE FALSE BY <1>1
  <2>1. source[end + 1] \in Segment BY <1>1
  <2>2. source[end + 1].chars \in 1..MaxChars BY <2>1, ChunkerAssumption
  <2>3. chars = 0 BY DEF IInv, WindowInv
  <2>4. Fits BY <1>1, <1>2, <2>2, <2>3 DEF Fits
  <2>5. More BY <1>1, <2>4 DEF More
  <2> QED BY <2>5 DEF Cut
<1>4. Back \in (position + 1)..end BY <1>1, <1>2, <1>3 DEF Back
<1>5. source' = source /\ chunks' = Append(chunks, new) BY DEF Cut
<1>6. new \in Chunk BY <1>1 DEF Chunk
<1>7. /\ Len(chunks) \in Nat /\ chunks' \in Seq(Chunk) /\ Len(chunks') = Len(chunks) + 1
      /\ chunks'[Len(chunks) + 1] = new
      /\ \A k \in 1..Len(chunks) : chunks'[k] = chunks[k] /\ chunks[k] \in Chunk
  BY <1>1, <1>5, <1>6
<1>8. /\ \A k \in 1..Len(chunks) : chunks[k].first <= position
      /\ Len(chunks) <= position
  BY <1>1 DEF IInv, StartInv
<1>9. \A i \in 1..end : \E k \in 1..Len(chunks') : In(i, chunks'[k])
  <2> SUFFICES ASSUME NEW i \in 1..end
               PROVE  \E k \in 1..Len(chunks') : In(i, chunks'[k])
    OBVIOUS
  <2>1. CASE i <= position
    <3>1. PICK k \in 1..Len(chunks) : In(i, chunks[k])
      BY <1>1, <2>1 DEF IInv, CoverInv
    <3> QED BY <1>7, <3>1
  <2>2. CASE i > position
    <3>1. In(i, new) BY <1>1, <2>2 DEF In
    <3>2. Len(chunks) + 1 \in 1..Len(chunks') BY <1>7
    <3> QED BY <1>7, <3>1, <3>2
  <2> QED BY <1>1, <2>1, <2>2
<1>10. ChunkIsLines'
  <2> SUFFICES ASSUME NEW k \in 1..Len(chunks'), NEW i \in chunks'[k].first..chunks'[k].last
               PROVE  source[i].line = source[chunks'[k].first].line + (i - chunks'[k].first)
    BY <1>5 DEF ChunkIsLines
  <2>1. CASE k \in 1..Len(chunks) BY <1>7, <2>1 DEF IInv, ChunkIsLines
  <2>2. CASE k = Len(chunks) + 1 BY <1>7, <2>2 DEF IInv, WindowInv
  <2> QED BY <1>7, <2>1, <2>2
<1>11. StartsLater'
  <2>1. ASSUME NEW k \in 1..Len(chunks') PROVE chunks'[k].first <= chunks'[k].last
    <3>1. CASE k \in 1..Len(chunks) BY <1>7, <3>1 DEF IInv, StartsLater
    <3>2. CASE k = Len(chunks) + 1
      <4>1. new.first <= new.last BY <1>1, <1>3
      <4> QED BY <1>7, <3>2, <4>1
    <3> QED BY <1>7, <3>1, <3>2
  <2>2. ASSUME NEW k \in 1..(Len(chunks') - 1)
        PROVE  chunks'[k].first < chunks'[k + 1].first
    <3>1. CASE k < Len(chunks) BY <1>7, <3>1 DEF IInv, StartsLater
    <3>2. CASE k = Len(chunks)
      <4>1. chunks'[k].first <= position BY <1>7, <1>8, <3>2
      <4>2. chunks'[k].first \in Nat BY <1>7, <3>2 DEF Chunk
      <4> QED BY <1>1, <1>7, <3>2, <4>1, <4>2
    <3> QED BY <1>7, <3>1, <3>2
  <2> QED BY <2>1, <2>2 DEF StartsLater
<1>12. CASE end >= Len(source)
  <2>1. done' = TRUE /\ position' = position /\ end' = end /\ chars' = chars
    BY <1>12 DEF Cut
  <2>2. TypeOK' BY <1>5, <1>7, <2>1 DEF IInv, TypeOK
  <2>3. WindowInv' BY <1>5, <2>1 DEF IInv, WindowInv
  <2>4. StartInv' BY <1>1, <1>5, <1>7, <1>8, <2>1 DEF StartInv
  <2>5. CoverInv' BY <1>1, <1>5, <1>9, <1>12, <2>1 DEF CoverInv
  <2> QED BY <1>10, <1>11, <2>2, <2>3, <2>4, <2>5 DEF IInv
<1>13. CASE ~(end >= Len(source))
  <2>1. done' = done /\ position' = Back /\ end' = Back /\ chars' = 0
    BY <1>13 DEF Cut
  <2>2. position' \in Nat /\ end' = position' /\ position + 1 <= position' /\ position' <= end
    BY <1>1, <1>4, <2>1
  <2>3. TypeOK' BY <1>2, <1>5, <1>7, <2>1, <2>2 DEF IInv, TypeOK
  <2>4. WindowInv' BY <1>1, <1>5, <1>13, <2>1, <2>2 DEF WindowInv
  <2>5. \A k \in 1..Len(chunks') : chunks'[k].first <= position'
    <3> SUFFICES ASSUME NEW k \in 1..Len(chunks') PROVE chunks'[k].first <= position'
      OBVIOUS
    <3>1. CASE k \in 1..Len(chunks)
      <4>1. chunks'[k].first \in Nat /\ chunks'[k].first <= position
        BY <1>7, <1>8, <3>1 DEF Chunk
      <4> QED BY <1>1, <2>2, <4>1
    <3>2. CASE k = Len(chunks) + 1 BY <1>7, <2>2, <3>2
    <3> QED BY <1>7, <3>1, <3>2
  <2>6. StartInv' BY <1>1, <1>5, <1>7, <1>8, <2>1, <2>2, <2>5 DEF StartInv
  <2>7. CoverInv' BY <1>1, <1>9, <2>1, <2>2 DEF CoverInv
  <2> QED BY <1>10, <1>11, <2>3, <2>4, <2>6, <2>7 DEF IInv
<1> QED BY <1>12, <1>13

\* What the loop keeps, whatever the file and the sizes.
THEOREM Invariance == Spec => []IInv
<1>1. IInv /\ [Next]_loop => IInv'
  <2> SUFFICES ASSUME IInv, [Next]_loop PROVE IInv' OBVIOUS
  <2>1. CASE Take BY <2>1, TakeInv
  <2>2. CASE Cut BY <2>2, CutInv
  <2>3. CASE UNCHANGED loop
    BY <2>3 DEF loop, IInv, TypeOK, WindowInv, StartInv, CoverInv, ChunkIsLines, StartsLater
  <2> QED BY <2>1, <2>2, <2>3 DEF Next
<1> QED BY <1>1, InitInv, PTL DEF Spec

\* Each chunk is of consecutive lines, so that a line of its text has the number that
\* start_line and its place in the text give it.
THEOREM LinesAreConsecutive == Spec => []ChunkIsLines
<1>1. IInv => ChunkIsLines BY DEF IInv
<1> QED BY <1>1, Invariance, PTL

\* chunk_snapshot leaves out no segment of a file.
THEOREM WholeFile == Spec => []NothingLeftOut
<1>1. IInv => NothingLeftOut BY DEF IInv, CoverInv, NothingLeftOut
<1> QED BY <1>1, Invariance, PTL

\* The loop advances with every chunk.
THEOREM EachStartsLater == Spec => []StartsLater
<1>1. IInv => StartsLater BY DEF IInv
<1> QED BY <1>1, Invariance, PTL

\* So it ends: there are no more chunks than segments.
THEOREM ChunksAreFew == Spec => []NoMoreThanSegments
<1>1. IInv => NoMoreThanSegments BY DEF IInv, StartInv, NoMoreThanSegments
<1> QED BY <1>1, Invariance, PTL

-----------------------------------------------------------------------------
\* Retrieval.

\* Every point is a chunk of the snapshot it is stored under.
PointsInv == \A p \in points : p[1] \in Snapshot /\ p \in Chunks(p[1])

\* A thread that indexes holds the lock, and its snapshot has every chunk before the batch
\* it is at; one that begins is at the first.
BatchInv ==
  \A t \in Thread :
    /\ next[t] # 0
    /\ pc[t] # "idle" => of[t] \in Snapshot
    /\ pc[t] = "index" => next[t] = 1
    /\ pc[t] = "query" => lock = t
    /\ pc[t] \in {"embed", "upsert"} =>
         lock = t /\ \A p \in Chunks(of[t]) : p[2] < next[t] => p \in points

\* No question came before the faults that it remembers.
SinceInv == \A t \in Thread : since[t] <= faults

RetrievalInv ==
  /\ TypeOKRetrieval /\ PointsInv /\ BatchInv /\ SinceInv
  /\ SearchSeesAll /\ EvidenceIsOwn /\ UnavailableForReason

\* The places a caller may be at.
Places == {"idle", "index", "embed", "upsert", "search", "query", "answer"}

-----------------------------------------------------------------------------
\* A snapshot has as many chunks as it is said to have.
LEMMA ChunksCounted ==
  ASSUME NEW s \in Snapshot
  PROVE  IsFiniteSet(Chunks(s)) /\ Cardinality(Chunks(s)) = Size[s]
<1> DEFINE number == [i \in 1..Size[s] |-> <<s, i>>]
<1>1. Size[s] \in Nat BY RetrievalAssumption
<1>2. number \in Bijection(1..Size[s], Chunks(s))
  <2>1. number \in [1..Size[s] -> Chunks(s)] BY DEF Chunks
  <2>2. \A i, j \in 1..Size[s] : number[i] = number[j] => i = j OBVIOUS
  <2>3. \A p \in Chunks(s) : \E i \in 1..Size[s] : number[i] = p BY DEF Chunks
  <2>4. number \in Injection(1..Size[s], Chunks(s)) BY <2>1, <2>2 DEF Injection, IsInjective
  <2>5. number \in Surjection(1..Size[s], Chunks(s)) BY <2>1, <2>3 DEF Surjection
  <2> QED BY <2>4, <2>5 DEF Bijection
<1>3. IsFiniteSet(1..Size[s]) /\ Cardinality(1..Size[s]) = Size[s]
  BY <1>1, FS_Interval
<1>4. ExistsBijection(1..Size[s], Chunks(s)) BY <1>2 DEF ExistsBijection
<1> QED BY <1>3, <1>4, FS_Bijection

\* What a count of the points shows: when it is right every chunk is there.
LEMMA CountIsEnough ==
  ASSUME PointsInv, NEW t \in Thread, of[t] \in Snapshot, Indexed(t)
  PROVE  Chunks(of[t]) \subseteq points
<1>1. Matching(of[t]) \subseteq Chunks(of[t]) BY DEF PointsInv, Matching
<1>2. Cardinality(Matching(of[t])) = Cardinality(Chunks(of[t]))
  BY ChunksCounted DEF Indexed
<1>3. Matching(of[t]) = Chunks(of[t]) BY <1>1, <1>2, ChunksCounted, FS_Subset
<1> QED BY <1>3 DEF Matching

\* At the start there is no thread at work, no point and no reply.
LEMMA RetrievalInit == InitRetrieval => RetrievalInv
<1> SUFFICES ASSUME InitRetrieval PROVE RetrievalInv OBVIOUS
<1> USE RetrievalAssumption
<1>1. TypeOKRetrieval BY DEF InitRetrieval, TypeOKRetrieval, Status
<1>2. PointsInv BY DEF InitRetrieval, PointsInv
<1>3. BatchInv BY DEF InitRetrieval, BatchInv
<1>4. SinceInv BY DEF InitRetrieval, SinceInv
<1>5. SearchSeesAll /\ EvidenceIsOwn /\ UnavailableForReason
  BY DEF InitRetrieval, SearchSeesAll, EvidenceIsOwn, UnavailableForReason
<1> QED BY <1>1, <1>2, <1>3, <1>4, <1>5 DEF RetrievalInv

\* Every action keeps the types.
LEMMA RetrievalTypes == RetrievalInv /\ [NextRetrieval]_vars => TypeOKRetrieval'
<1> SUFFICES ASSUME RetrievalInv, [NextRetrieval]_vars PROVE TypeOKRetrieval' OBVIOUS
<1> USE RetrievalAssumption DEF RetrievalInv, TypeOKRetrieval, Status, Goto, Reply, Fault, Disk, Mine, Released
<1>1. ASSUME NEW s \in Snapshot, Import(s) PROVE TypeOKRetrieval' BY <1>1 DEF Import, Save
<1>2. ASSUME NEW t \in Thread, NEW s \in Snapshot, Ask(t, s) PROVE TypeOKRetrieval' BY <1>2 DEF Ask
<1>3. ASSUME NEW t \in Thread, StartIndex(t) PROVE TypeOKRetrieval' BY <1>3 DEF StartIndex, Failure
<1>4. ASSUME NEW t \in Thread, Embed(t) PROVE TypeOKRetrieval' BY <1>4 DEF Embed
<1>5. ASSUME NEW t \in Thread, Upsert(t) PROVE TypeOKRetrieval'
  <2>1. InBatch(t) \subseteq Point BY <1>5 DEF BatchInv, Upsert, InBatch, Chunks, Point
  <2>2. next[t] + Batch \in Nat OBVIOUS
  <2> QED BY <1>5, <2>1, <2>2 DEF Upsert, Following
<1>6. ASSUME NEW t \in Thread, StartSearch(t) PROVE TypeOKRetrieval' BY <1>6 DEF StartSearch
<1>7. ASSUME NEW t \in Thread, Query(t) PROVE TypeOKRetrieval' BY <1>7 DEF Query, Matching
<1>8. ASSUME NEW t \in Thread, Answer(t) PROVE TypeOKRetrieval' BY <1>8 DEF Answer
<1>9. ASSUME NEW t \in Thread, Raise(t) PROVE TypeOKRetrieval'
  <2>1. pc[t] = "upsert" => InBatch(t) \subseteq Point BY DEF BatchInv, InBatch, Chunks, Point
  <2> QED BY <1>9, <2>1 DEF Raise, Failure
<1>10. CASE Close BY <1>10 DEF Close
<1>11. CASE Die
  <2>1. UNION {InBatch(t) : t \in {u \in Thread : pc[u] = "upsert"}} \subseteq Point
    BY DEF BatchInv, InBatch, Chunks, Point
  <2> QED BY <1>11, <2>1 DEF Die
<1>12. CASE Boot BY <1>12 DEF Boot
<1>13. CASE UNCHANGED vars BY <1>13 DEF vars
<1> QED BY <1>1, <1>2, <1>3, <1>4, <1>5, <1>6, <1>7, <1>8, <1>9, <1>10, <1>11, <1>12, <1>13
        DEF NextRetrieval, Step

\* Points are only added, and only chunks of the snapshot that a thread indexes.
LEMMA PointsGrow ==
  ASSUME RetrievalInv, [NextRetrieval]_vars
  PROVE  points \subseteq points' /\ PointsInv'
<1> USE RetrievalAssumption DEF RetrievalInv, PointsInv, BatchInv
<1> DEFINE batches == UNION {InBatch(t) : t \in {u \in Thread : pc[u] = "upsert"}}
<1>1. \A p \in batches : p[1] \in Snapshot /\ p \in Chunks(p[1]) BY DEF InBatch, Chunks
<1>2. \E new \in SUBSET batches : points' = points \cup new
  <2>1. ASSUME points' = points PROVE \E new \in SUBSET batches : points' = points \cup new
    <3>1. {} \in SUBSET batches /\ points' = points \cup {} BY <2>1
    <3> QED BY <3>1
  <2>2. ASSUME NEW t \in Thread, Upsert(t) PROVE \E new \in SUBSET batches : points' = points \cup new
    <3>1. InBatch(t) \subseteq batches BY <2>2 DEF Upsert
    <3> QED BY <2>2, <3>1 DEF Upsert
  <2>3. ASSUME NEW t \in Thread, Raise(t) PROVE \E new \in SUBSET batches : points' = points \cup new
    <3>1. PICK part \in SUBSET (IF pc[t] = "upsert" THEN InBatch(t) ELSE {}) : points' = points \cup part
      BY <2>3 DEF Raise
    <3>2. part \subseteq batches BY <3>1
    <3> QED BY <3>1, <3>2
  <2>4. ASSUME Die PROVE \E new \in SUBSET batches : points' = points \cup new
    <3>1. points' = points \/ \E part \in SUBSET batches : points' = points \cup part
      BY <2>4 DEF Die
    <3> QED BY <2>1, <3>1
  <2>5. ASSUME NEW t \in Thread, Step(t) PROVE \E new \in SUBSET batches : points' = points \cup new
    <3>1. Upsert(t) \/ points' = points
      BY <2>5 DEF Step, StartIndex, Embed, StartSearch, Query, Answer, Disk
    <3> QED BY <2>1, <2>2, <3>1
  <2>6. ASSUME \/ \E s \in Snapshot : Import(s)
               \/ \E t \in Thread, s \in Snapshot : Ask(t, s)
               \/ Close \/ Boot \/ UNCHANGED vars
        PROVE  points' = points
    BY <2>6 DEF Import, Ask, Close, Boot, vars, Disk
  <2>7. \/ \E t \in Thread : Step(t) \/ Raise(t)
        \/ Die
        \/ points' = points
    BY <2>6 DEF NextRetrieval
  <2> QED BY <2>1, <2>3, <2>4, <2>5, <2>7
<1> QED BY <1>1, <1>2
\* A thread that goes on: its index stays, and each step of its own keeps what it knows.
LEMMA BatchStep == RetrievalInv /\ [NextRetrieval]_vars => BatchInv' /\ SearchSeesAll'
<1> SUFFICES ASSUME RetrievalInv, [NextRetrieval]_vars PROVE BatchInv' /\ SearchSeesAll' OBVIOUS
<1> USE RetrievalAssumption
<1> DEFINE Knows(t) ==
      /\ next[t] # 0
      /\ pc[t] # "idle" => of[t] \in Snapshot
      /\ pc[t] = "index" => next[t] = 1
      /\ pc[t] = "query" => lock = t
      /\ pc[t] \in {"embed", "upsert"} =>
           lock = t /\ \A p \in Chunks(of[t]) : p[2] < next[t] => p \in points
      /\ pc[t] \in {"search", "query", "answer"} => Chunks(of[t]) \subseteq points
<1>1. \A t \in Thread : Knows(t) BY DEF RetrievalInv, BatchInv, SearchSeesAll
<1>2. points \subseteq points' BY PointsGrow
<1>3. (\A t \in Thread : Knows(t)') => BatchInv' /\ SearchSeesAll' BY DEF BatchInv, SearchSeesAll
<1>4. ASSUME NEW t \in Thread, pc'[t] = "idle", next'[t] # 0 PROVE Knows(t)' BY <1>4
<1>5. ASSUME NEW t \in Thread, pc'[t] = pc[t], of'[t] = of[t], next'[t] = next[t], lock' = t <=> lock = t
      PROVE  Knows(t)'
  BY <1>1, <1>2, <1>5 DEF Chunks
<1>6. /\ pc \in [Thread -> Places] /\ of \in [Thread -> Snapshot \cup {None}] /\ next \in [Thread -> Nat]
      /\ None \notin Thread
  BY DEF RetrievalInv, TypeOKRetrieval, Places
<1>7. ASSUME NEW t \in Thread, Step(t) PROVE Knows(t)'
  <2>1. CASE StartIndex(t)
    <3>1. pc[t] = "index" /\ UNCHANGED <<points, of, next>> BY <2>1 DEF StartIndex, Disk, Mine
    <3>2. CASE \E st \in Failure : IndexFails(t, st)
      BY <1>1, <1>4, <1>6, <2>1, <3>1, <3>2 DEF StartIndex, Reply, Goto
    <3>3. CASE ~(\E st \in Failure : IndexFails(t, st)) /\ Indexed(t)
      <4>1. Chunks(of[t]) \subseteq points
        BY <1>1, <3>1, <3>3, CountIsEnough DEF RetrievalInv
      <4>2. pc'[t] = "search" BY <1>6, <2>1, <3>3 DEF StartIndex, Goto
      <4> QED BY <1>1, <3>1, <4>1, <4>2 DEF Chunks
    <3>4. CASE ~(\E st \in Failure : IndexFails(t, st)) /\ ~Indexed(t)
      <4>1. pc'[t] = "embed" /\ lock' = t BY <1>6, <2>1, <3>4 DEF StartIndex, Goto
      <4>2. \A p \in Chunks(of[t]) : ~(p[2] < 1) BY <1>1, <3>1 DEF Chunks
      <4> QED BY <1>1, <3>1, <4>1, <4>2 DEF Chunks
    <3> QED BY <3>2, <3>3, <3>4
  <2>2. CASE Embed(t)
    <3>1. pc[t] = "embed" /\ UNCHANGED <<points, of, next>> BY <2>2 DEF Embed, Disk, Mine
    <3>2. pc'[t] = "idle" \/ (pc'[t] = "upsert" /\ lock' = lock)
      BY <1>6, <2>2 DEF Embed, Reply, Goto
    <3> QED BY <1>1, <1>4, <3>1, <3>2 DEF Chunks
  <2>3. CASE Upsert(t)
    <3>1. /\ pc[t] = "upsert" /\ of' = of /\ points' = points \cup InBatch(t)
          /\ next'[t] = next[t] + Batch
      BY <1>6, <2>3 DEF Upsert, Following
    <3>2. of[t] \in Snapshot /\ Size[of[t]] \in Nat /\ next[t] \in Nat /\ Batch \in Nat \ {0}
      BY <1>1, <1>6, <3>1
    <3>3. \A p \in Chunks(of[t]) : p[2] \in 1..Size[of[t]] BY DEF Chunks
    <3>4. \A p \in Chunks(of[t]) : p[2] < next[t] + Batch => p \in points'
      BY <1>1, <3>1, <3>2, <3>3 DEF InBatch
    <3>5. CASE next[t] + Batch > Size[of[t]]
      <4>1. pc'[t] = "search" BY <1>6, <2>3, <3>5 DEF Upsert, Following, Goto
      <4>2. \A p \in Chunks(of[t]) : p \in points' BY <3>2, <3>3, <3>4, <3>5
      <4> QED BY <3>1, <3>2, <4>1, <4>2 DEF Chunks
    <3>6. CASE ~(next[t] + Batch > Size[of[t]])
      <4>1. pc'[t] = "embed" /\ lock' = lock BY <1>6, <2>3, <3>6 DEF Upsert, Following, Goto
      <4> QED BY <1>1, <3>1, <3>2, <3>4, <4>1 DEF Chunks
    <3> QED BY <3>5, <3>6
  <2>4. CASE StartSearch(t)
    <3>1. pc[t] = "search" /\ UNCHANGED <<points, of, next>> BY <2>4 DEF StartSearch, Disk, Mine
    <3>2. pc'[t] = "idle" \/ (pc'[t] = "query" /\ lock' = t)
      BY <1>6, <2>4 DEF StartSearch, Reply, Goto
    <3> QED BY <1>1, <1>4, <3>1, <3>2 DEF Chunks
  <2>5. CASE Query(t)
    <3>1. pc[t] = "query" /\ pc'[t] = "answer" /\ UNCHANGED <<points, of, next>>
      BY <1>6, <2>5 DEF Query, Disk, Mine, Goto
    <3> QED BY <1>1, <3>1 DEF Chunks
  <2>6. CASE Answer(t)
    <3>1. pc'[t] = "idle" /\ UNCHANGED next BY <1>6, <2>6 DEF Answer, Reply, Goto, Mine
    <3> QED BY <1>1, <1>4, <3>1
  <2> QED BY <1>7, <2>1, <2>2, <2>3, <2>4, <2>5, <2>6 DEF Step
<1>8. ASSUME NEW t \in Thread, Step(t), NEW u \in Thread, u # t PROVE Knows(u)'
  <2>1. pc'[u] = pc[u] /\ of' = of /\ next'[u] = next[u]
    BY <1>6, <1>8 DEF Step, StartIndex, Embed, Upsert, StartSearch, Query, Answer, Reply, Goto, Mine
  <2>2. lock' = lock \/ (lock \in {None, t} /\ lock' \in {None, t})
    BY <1>1, <1>6, <1>8 DEF Step, StartIndex, Embed, Upsert, StartSearch, Query, Answer, Released
  <2>3. lock' = u <=> lock = u BY <1>6, <1>8, <2>2
  <2> QED BY <1>5, <2>1, <2>3
<1>9. ASSUME NEW t \in Thread, Raise(t), NEW u \in Thread PROVE Knows(u)'
  <2>1. of' = of /\ next' = next /\ (lock' = IF lock = t THEN None ELSE lock)
        /\ (pc'[u] = IF u = t THEN "idle" ELSE pc[u])
    BY <1>6, <1>9 DEF Raise, Reply, Goto, Mine, Released
  <2> QED BY <1>1, <1>4, <1>5, <1>6, <2>1
<1>10. ASSUME NEW t \in Thread, NEW s \in Snapshot, Ask(t, s), NEW u \in Thread PROVE Knows(u)'
  <2>1. lock' = lock /\ (u # t => pc'[u] = pc[u] /\ of'[u] = of[u] /\ next'[u] = next[u])
    BY <1>6, <1>10 DEF Ask, Reply, Goto
  <2>2. u = t => pc'[u] \in {"idle", "index"} /\ of'[u] = s /\ next'[u] = 1
    BY <1>6, <1>10 DEF Ask, Reply, Goto
  <2> QED BY <1>5, <2>1, <2>2
<1>11. ASSUME NEW u \in Thread, Die PROVE Knows(u)'
  BY <1>1, <1>4, <1>11 DEF Die, Mine
<1>12. ASSUME NEW u \in Thread, (\E s \in Snapshot : Import(s)) \/ Close \/ Boot \/ UNCHANGED vars
       PROVE  Knows(u)'
  <2>1. UNCHANGED <<pc, of, next, lock>> BY <1>12 DEF Import, Close, Boot, Mine, vars
  <2> QED BY <1>5, <2>1
<1>13. ASSUME NEW u \in Thread PROVE Knows(u)'
  <2>1. CASE \E t \in Thread : Step(t) BY <1>7, <1>8, <2>1
  <2>2. CASE \E t \in Thread : Raise(t) BY <1>9, <2>2
  <2>3. CASE \E t \in Thread, s \in Snapshot : Ask(t, s) BY <1>10, <2>3
  <2>4. CASE Die BY <1>11, <2>4
  <2>5. CASE (\E s \in Snapshot : Import(s)) \/ Close \/ Boot \/ UNCHANGED vars BY <1>12, <2>5
  <2> QED BY <2>1, <2>2, <2>3, <2>4, <2>5 DEF NextRetrieval
<1> QED BY <1>3, <1>13
\* What is shown is found by a filter on the snapshot, and stays what it is.
LEMMA EvidenceStep == RetrievalInv /\ [NextRetrieval]_vars => EvidenceIsOwn'
<1> SUFFICES ASSUME RetrievalInv, [NextRetrieval]_vars, NEW u \in Thread, pc'[u] = "answer"
             PROVE  evidence'[u] \in Chunks(of'[u])
  BY DEF EvidenceIsOwn, Chunks
<1>1. /\ pc \in [Thread -> Places] /\ evidence \in [Thread -> Point \cup {None}]
      /\ pc[u] = "answer" => evidence[u] \in Chunks(of[u])
  BY DEF RetrievalInv, TypeOKRetrieval, EvidenceIsOwn, Places
<1>2. CASE Query(u)
  <2>1. \E p \in Matching(of[u]) : evidence'[u] = p BY <1>1, <1>2 DEF Query
  <2>2. Matching(of[u]) \subseteq Chunks(of[u]) BY DEF RetrievalInv, PointsInv, Matching
  <2>3. of' = of BY <1>2 DEF Query, Mine
  <2> QED BY <2>1, <2>2, <2>3
<1>3. CASE ~Query(u)
  <2>1. pc[u] = "answer" /\ evidence'[u] = evidence[u] /\ of'[u] = of[u]
    <3>1. ASSUME NEW t \in Thread, Step(t) PROVE pc[u] = "answer" /\ evidence'[u] = evidence[u] /\ of'[u] = of[u]
      BY <1>1, <1>3, <3>1
      DEF Step, StartIndex, Embed, Upsert, StartSearch, Query, Answer, Reply, Goto, Mine
    <3>2. ASSUME NEW t \in Thread, Raise(t) PROVE pc[u] = "answer" /\ evidence'[u] = evidence[u] /\ of'[u] = of[u]
      BY <1>1, <3>2 DEF Raise, Reply, Goto, Mine
    <3>3. ASSUME NEW t \in Thread, NEW s \in Snapshot, Ask(t, s)
          PROVE  pc[u] = "answer" /\ evidence'[u] = evidence[u] /\ of'[u] = of[u]
      <4>1. u # t BY <1>1, <3>3 DEF Ask, Reply, Goto
      <4> QED BY <1>1, <3>3, <4>1 DEF Ask, Reply, Goto, RetrievalInv, TypeOKRetrieval
    <3>4. ~Die BY DEF Die
    <3>5. (\E s \in Snapshot : Import(s)) \/ Close \/ Boot \/ UNCHANGED vars
            => pc' = pc /\ evidence' = evidence /\ of' = of
      BY DEF Import, Close, Boot, Mine, vars
    <3> QED BY <3>1, <3>2, <3>3, <3>4, <3>5 DEF NextRetrieval
  <2> QED BY <1>1, <2>1 DEF Chunks
<1> QED BY <1>2, <1>3

\* A reply "unavailable" is given for a fault or a client that is not open, which only ends
\* with the process, and with it the reply.
LEMMA ReplyStep == RetrievalInv /\ [NextRetrieval]_vars => SinceInv' /\ UnavailableForReason'
<1> SUFFICES ASSUME RetrievalInv, [NextRetrieval]_vars, NEW u \in Thread
             PROVE  /\ since'[u] <= faults'
                    /\ reply'[u] = "unavailable" => faults' > since'[u] \/ client' \in {"closed", "off"}
  BY DEF SinceInv, UnavailableForReason
<1>1. /\ since \in [Thread -> 0..MaxFaults] /\ reply \in [Thread -> Status \cup {None}]
      /\ faults \in Nat /\ MaxFaults \in Nat /\ None # "unavailable"
      /\ client \in {"open", "closed", "off", "dead"}
      /\ since[u] <= faults /\ since[u] \in Nat
      /\ reply[u] = "unavailable" => faults > since[u] \/ client \in {"closed", "off"}
  BY RetrievalAssumption DEF RetrievalInv, TypeOKRetrieval, SinceInv, UnavailableForReason
<1> USE RetrievalAssumption
<1>2. ASSUME NEW t \in Thread, StartIndex(t)
      PROVE  reply'[u] = "unavailable" => reply[u] = "unavailable" \/ client \in {"closed", "off"}
  BY <1>1, <1>2 DEF StartIndex, IndexFails, Failure, Reply
<1>3. ASSUME NEW t \in Thread, Step(t), ~StartIndex(t)
      PROVE  reply'[u] = "unavailable" => reply[u] = "unavailable" \/ client \in {"closed", "off"}
  BY <1>1, <1>3 DEF Step, Embed, Upsert, StartSearch, Query, Answer, Reply
<1>4. ASSUME NEW t \in Thread, Step(t) PROVE UNCHANGED <<since, faults, client>>
  BY <1>4 DEF Step, StartIndex, Embed, Upsert, StartSearch, Query, Answer, Mine
<1>5. CASE \E t \in Thread : Step(t) BY <1>1, <1>2, <1>3, <1>4, <1>5
<1>6. CASE \E t \in Thread : Raise(t)
  <2>1. since' = since /\ faults' = faults + 1 BY <1>6 DEF Raise, Fault, Mine
  <2> QED BY <1>1, <2>1
<1>7. ASSUME NEW t \in Thread, NEW s \in Snapshot, Ask(t, s)
      PROVE  /\ since'[u] <= faults'
             /\ reply'[u] = "unavailable" => faults' > since'[u] \/ client' \in {"closed", "off"}
  <2>1. faults' = faults /\ client' = client BY <1>7 DEF Ask
  <2>2. u # t => since'[u] = since[u] /\ reply'[u] = reply[u] BY <1>1, <1>7 DEF Ask, Reply
  <2>3. u = t => since'[u] = faults /\ (client # "off" => reply'[u] = None)
    BY <1>1, <1>7 DEF Ask, Reply
  <2> QED BY <1>1, <2>1, <2>2, <2>3
<1>8. CASE Die
  <2>1. reply'[u] = None /\ since' = since BY <1>8 DEF Die, Mine
  <2>2. faults' = faults \/ faults' = faults + 1 BY <1>8 DEF Die, Fault
  <2> QED BY <1>1, <2>1, <2>2
<1>9. CASE Boot
  <2>1. since' = since /\ reply' = reply /\ (faults' = faults \/ faults' = faults + 1) /\ client = "dead"
    BY <1>9 DEF Boot, Mine, Fault
  <2> QED BY <1>1, <2>1
<1>10. CASE (\E s \in Snapshot : Import(s)) \/ Close \/ UNCHANGED vars
  <2>1. since' = since /\ reply' = reply /\ faults' = faults /\ (client' = client \/ client' = "closed")
    BY <1>10 DEF Import, Close, Mine, vars
  <2> QED BY <1>1, <2>1
<1> QED BY <1>5, <1>6, <1>7, <1>8, <1>9, <1>10 DEF NextRetrieval
\* What questions keep, for every set of threads and snapshots and whatever fails.
THEOREM RetrievalInvariance == SpecRetrieval => []RetrievalInv
<1>1. RetrievalInv /\ [NextRetrieval]_vars => RetrievalInv'
  BY RetrievalTypes, PointsGrow, BatchStep, EvidenceStep, ReplyStep DEF RetrievalInv
<1> QED BY <1>1, RetrievalInit, PTL DEF SpecRetrieval

\* Only a whole index is searched, although its completeness is known from a count.
THEOREM WholeIndexSearched == SpecRetrieval => []SearchSeesAll
<1>1. RetrievalInv => SearchSeesAll BY DEF RetrievalInv
<1> QED BY <1>1, RetrievalInvariance, PTL

\* The model is shown chunks of the snapshot that was asked about.
THEOREM EvidenceOfSnapshot == SpecRetrieval => []EvidenceIsOwn
<1>1. RetrievalInv => EvidenceIsOwn BY DEF RetrievalInv
<1> QED BY <1>1, RetrievalInvariance, PTL

\* No earlier failure makes a question unavailable.
THEOREM FailuresPass == SpecRetrieval => []UnavailableForReason
<1>1. RetrievalInv => UnavailableForReason BY DEF RetrievalInv
<1> QED BY <1>1, RetrievalInvariance, PTL

-----------------------------------------------------------------------------
\* Architecture.

\* The units of finitely many files are finitely many.
LEMMA UnitsFinite ==
  ASSUME NEW root \in {"services", "modules"}, NEW S \in SUBSET SourceFile
  PROVE  IsFiniteSet(Units(root, S)) /\ Cardinality(Units(root, S)) \in Nat
<1> DEFINE image == {UnitOf[root][f] : f \in S}
<1> DEFINE unit == [f \in S |-> UnitOf[root][f]]
<1>1. IsFiniteSet(S) BY ArchitectureAssumption, FS_Subset
<1>2. unit \in Surjection(S, image) BY DEF Surjection
<1>3. IsFiniteSet(image) BY <1>1, <1>2, FS_Surjection
<1>4. Units(root, S) \in SUBSET image BY DEF Units
<1> QED BY <1>3, <1>4, FS_Subset, FS_CardinalityType

\* More files have no fewer units.
LEMMA UnitsGrow ==
  ASSUME NEW root \in {"services", "modules"}, NEW S \in SUBSET SourceFile, NEW T \in SUBSET S
  PROVE  Cardinality(Units(root, T)) <= Cardinality(Units(root, S))
<1>1. Units(root, T) \in SUBSET Units(root, S) BY DEF Units
<1> QED BY <1>1, UnitsFinite, FS_Subset

\* How much is said for a style that is complete or not, contradicted or not, and may be
\* of strength top.
Level(complete, against, top) == IF ~complete THEN 0 ELSE IF against THEN 1 ELSE top

\* A hypothesis is incomplete or has a strength by the two answers.
LEMMA StrengthIs ==
  ASSUME NEW c \in BOOLEAN, NEW a \in BOOLEAN, NEW h,
         h.assessment = Assessment(c, a), ~c \/ a \/ h.confidence \in {"low", "medium", "high"}
  PROVE  /\ h.assessment = "insufficient" <=> ~c
         /\ h.confidence = "low"    => Strength(h) = Level(c, a, 2)
         /\ h.confidence = "medium" => Strength(h) = Level(c, a, 3)
         /\ h.confidence = "high"   => Strength(h) = Level(c, a, 4)
         /\ ~c \/ a => Strength(h) = Level(c, a, 2)
<1>1. CASE ~c
  <2>1. h.assessment = "insufficient" BY <1>1 DEF Assessment
  <2>2. Strength(h) = 0 BY <2>1 DEF Strength
  <2> QED BY <1>1, <2>1, <2>2 DEF Level
<1>2. CASE c /\ a
  <2>1. h.assessment = "mixed" BY <1>2 DEF Assessment
  <2>2. Strength(h) = 1 BY <2>1 DEF Strength
  <2> QED BY <1>2, <2>1, <2>2 DEF Level
<1>3. CASE c /\ ~a
  <2>1. h.assessment = "supported" /\ h.confidence \in {"low", "medium", "high"} BY <1>3 DEF Assessment
  <2>2. /\ h.confidence = "low" => Strength(h) = 2
        /\ h.confidence = "medium" => Strength(h) = 3
        /\ h.confidence = "high" => Strength(h) = 4
    BY <2>1 DEF Strength
  <2> QED BY <1>3, <2>1, <2>2 DEF Level
<1> QED BY <1>1, <1>2, <1>3

\* What is no more complete, and as much contradicted, is no stronger.
LEMMA LevelGrows ==
  ASSUME NEW c \in BOOLEAN, NEW a \in BOOLEAN, NEW d \in BOOLEAN, c => d, NEW top \in 2..4
  PROVE  Level(c, a, top) <= Level(d, a, top)
BY DEF Level

\* Of a graph and the same without one dependency: what is said of a style without it.
NoStronger(e, s, h, g) ==
  /\ h.assessment = "insufficient" => g.assessment = "insufficient"
  /\ ~Against(e, s) => Strength(g) <= Strength(h)

\* The style is no more complete without e, and as much contradicted unless by e.
LEMMA NoStrongerIf ==
  ASSUME NEW e, NEW s, NEW h, NEW g, NEW top \in 2..4,
         NEW c \in BOOLEAN, NEW a \in BOOLEAN, NEW d \in BOOLEAN, NEW b \in BOOLEAN,
         g.assessment = Assessment(c, a), h.assessment = Assessment(d, b),
         Strength(g) = Level(c, a, top), Strength(h) = Level(d, b, top),
         c => d, ~Against(e, s) => (a <=> b)
  PROVE  NoStronger(e, s, h, g)
<1>1. h.assessment = "insufficient" => g.assessment = "insufficient" BY DEF Assessment
<1>2. ~Against(e, s) => Strength(g) <= Strength(h)
  <2> SUFFICES ASSUME ~Against(e, s) PROVE Strength(g) <= Strength(h) OBVIOUS
  <2>1. a = b OBVIOUS
  <2> QED BY <2>1, LevelGrows
<1> QED BY <1>1, <1>2 DEF NoStronger

\* Styles whose dependencies have a direction.
LEMMA DirectedGrows ==
  ASSUME NEW E, NEW e \in E, NEW s \in DOMAIN Needs
  PROVE  NoStronger(e, s, Directed(s, E), Directed(s, E \ {e}))
<1> DEFINE D == E \ {e}
           c(F) == Complete(s, F)
           a(F) == Forbids[s] \cap Pairs(F) # {}
           top == IF Cardinality(Needs[s]) >= 3 THEN 4 ELSE 3
<1>1. Pairs(D) \subseteq Pairs(E) BY DEF Pairs
<1>2. c(D) => c(E) BY <1>1 DEF Complete
<1>3. ASSUME ~Against(e, s) PROVE a(D) <=> a(E)
  <2>1. Against(e, s) = (<<RoleOf[e.from], RoleOf[e.to]>> \in Forbids[s]) BY DEF Against, Needs
  <2>2. <<RoleOf[e.from], RoleOf[e.to]>> \notin Forbids[s] BY <1>3, <2>1
  <2>3. Pairs(E) \subseteq Pairs(D) \cup {<<RoleOf[e.from], RoleOf[e.to]>>} BY DEF Pairs
  <2> QED BY <1>1, <2>2, <2>3
<1>4. ASSUME NEW F
      PROVE  /\ c(F) \in BOOLEAN /\ a(F) \in BOOLEAN
             /\ Directed(s, F).assessment = Assessment(c(F), a(F))
             /\ Strength(Directed(s, F)) = Level(c(F), a(F), top)
  <2>1. c(F) \in BOOLEAN /\ a(F) \in BOOLEAN BY DEF Complete
  <2>2. /\ Directed(s, F).assessment = Assessment(c(F), a(F))
        /\ Directed(s, F).confidence = IF ~c(F) \/ a(F) THEN "low"
                                       ELSE IF Cardinality(Needs[s]) >= 3 THEN "high" ELSE "medium"
    BY DEF Directed
  <2> HIDE DEF c, a
  <2>3. CASE ~c(F) \/ a(F)
    <3>1. Strength(Directed(s, F)) = Level(c(F), a(F), 2) BY <2>1, <2>2, <2>3, StrengthIs
    <3> QED BY <2>1, <2>2, <2>3, <3>1 DEF Level
  <2>4. CASE ~(~c(F) \/ a(F))
    <3>1. Directed(s, F).confidence = IF top = 4 THEN "high" ELSE "medium" BY <2>2, <2>4
    <3> QED BY <2>1, <2>2, <2>4, <3>1, StrengthIs
  <2> QED BY <2>1, <2>2, <2>3, <2>4
<1>5. top \in 2..4 OBVIOUS
<1> HIDE DEF c, a, top, D
<1> QED BY <1>2, <1>3, <1>4, <1>5, NoStrongerIf DEF D

\* Styles of units.
LEMMA GroupedGrows ==
  ASSUME NEW E \in Graphs, NEW e \in E, NEW s, NEW root \in {"services", "modules"},
         ~Against(e, s) => ~Crosses(root, e)
  PROVE  NoStronger(e, s, Grouped(root, E), Grouped(root, E \ {e}))
<1> DEFINE D == E \ {e}
           unit == UnitOf[root]
           inner(F)    == {unit[d.from] : d \in {x \in F : unit[x.from] = unit[x.to]}}
           crossing(F) == \E d \in F : Crosses(root, d)
           outside(F)  == {d.to : d \in {x \in F : unit[x.from] = "none"}}
           ready(F) == /\ Cardinality(Units(root, SourceFile)) >= 2
                       /\ Units(root, SourceFile) \subseteq inner(F)
                       /\ IF root = "services" THEN Units(root, SourceFile) \subseteq Units(root, entries)
                                               ELSE Cardinality(Units(root, outside(F))) >= 2
           top == IF root = "services" THEN 2 ELSE 3
<1>1. inner(D) \subseteq inner(E) OBVIOUS
<1>2. ASSUME ~Against(e, s) PROVE crossing(D) <=> crossing(E)
  BY <1>2
<1>3. outside(D) \subseteq outside(E) /\ outside(E) \subseteq SourceFile BY ArchitectureAssumption
<1>4. /\ Cardinality(Units(root, outside(D))) <= Cardinality(Units(root, outside(E)))
      /\ Cardinality(Units(root, outside(D))) \in Nat /\ Cardinality(Units(root, outside(E))) \in Nat
  <2> HIDE DEF outside
  <2>1. outside(E) \in SUBSET SourceFile /\ outside(D) \in SUBSET SourceFile
        /\ outside(D) \in SUBSET outside(E)
    BY <1>3
  <2> QED BY <2>1, UnitsGrow, UnitsFinite
<1>5. ready(D) => ready(E) BY <1>1, <1>4
<1>6. ASSUME NEW F
      PROVE  /\ ready(F) \in BOOLEAN /\ crossing(F) \in BOOLEAN
             /\ Grouped(root, F).assessment = Assessment(ready(F), crossing(F))
             /\ Strength(Grouped(root, F)) = Level(ready(F), crossing(F), top)
  <2>1. ready(F) \in BOOLEAN /\ crossing(F) \in BOOLEAN OBVIOUS
  <2>2. /\ Grouped(root, F).assessment = Assessment(ready(F), crossing(F))
        /\ Grouped(root, F).confidence = IF crossing(F) \/ ~ready(F) \/ root = "services" THEN "low" ELSE "medium"
    BY DEF Grouped
  <2> HIDE DEF ready, crossing
  <2>3. CASE ~ready(F) \/ crossing(F)
    <3>1. Strength(Grouped(root, F)) = Level(ready(F), crossing(F), 2) BY <2>1, <2>2, <2>3, StrengthIs
    <3> QED BY <2>1, <2>2, <2>3, <3>1 DEF Level
  <2>4. CASE ~(~ready(F) \/ crossing(F))
    <3>1. Grouped(root, F).confidence = IF top = 2 THEN "low" ELSE "medium" BY <2>2, <2>4
    <3> QED BY <2>1, <2>2, <2>4, <3>1, StrengthIs
  <2> QED BY <2>1, <2>2, <2>3, <2>4
<1>7. top \in 2..4 OBVIOUS
<1> HIDE DEF ready, crossing, top, D
<1> QED BY <1>2, <1>5, <1>6, <1>7, NoStrongerIf DEF D

\* Calls of an event role.
LEMMA EventDrivenGrows ==
  ASSUME NEW E, NEW e \in E, NEW s
  PROVE  NoStronger(e, s, EventDriven(E), EventDriven(E \ {e}))
<1> DEFINE calls(F) == {d.call : d \in {x \in F : RoleOf[x.to] = "event"}}
           ready(F) == {"publish", "subscribe"} \subseteq calls(F)
<1>1. ready(E \ {e}) => ready(E) OBVIOUS
<1>2. ASSUME NEW F
      PROVE  /\ ready(F) \in BOOLEAN
             /\ EventDriven(F).assessment = Assessment(ready(F), FALSE)
             /\ Strength(EventDriven(F)) = Level(ready(F), FALSE, 3)
  <2>1. ready(F) \in BOOLEAN OBVIOUS
  <2>2. /\ EventDriven(F).assessment = Assessment(ready(F), FALSE)
        /\ EventDriven(F).confidence = IF ready(F) THEN "medium" ELSE "low"
    BY DEF EventDriven
  <2> HIDE DEF ready
  <2>3. CASE ~ready(F)
    <3>1. Strength(EventDriven(F)) = Level(ready(F), FALSE, 2) BY <2>1, <2>2, <2>3, StrengthIs
    <3> QED BY <2>1, <2>2, <2>3, <3>1 DEF Level
  <2>4. CASE ready(F) BY <2>1, <2>2, <2>4, StrengthIs
  <2> QED BY <2>1, <2>2, <2>3, <2>4
<1> HIDE DEF ready
<1>3. 3 \in 2..4 /\ FALSE \in BOOLEAN OBVIOUS
<1>4. /\ ready(E) \in BOOLEAN
      /\ EventDriven(E).assessment = Assessment(ready(E), FALSE)
      /\ Strength(EventDriven(E)) = Level(ready(E), FALSE, 3)
  BY <1>2
<1>5. /\ ready(E \ {e}) \in BOOLEAN
      /\ EventDriven(E \ {e}).assessment = Assessment(ready(E \ {e}), FALSE)
      /\ Strength(EventDriven(E \ {e})) = Level(ready(E \ {e}), FALSE, 3)
  BY <1>2
<1>6. ASSUME NEW h, NEW g, h = EventDriven(E), g = EventDriven(E \ {e}) PROVE NoStronger(e, s, h, g)
  BY <1>1, <1>3, <1>4, <1>5, <1>6, NoStrongerIf
<1> QED BY <1>6

\* Without a dependency no style is stronger that it does not contradict.
LEMMA HypothesesGrow ==
  ASSUME NEW E \in Graphs, NEW e \in E, NEW s \in Style
  PROVE  NoStronger(e, s, Hypotheses(E)[s], Hypotheses(E \ {e})[s])
<1> DEFINE D == E \ {e}
<1>0. DOMAIN Needs = {"mvc", "layered", "clean", "hexagonal"} BY DEF Needs
<1>1. CASE s \in DOMAIN Needs
  <2>1. Hypotheses(D)[s] = Directed(s, D) /\ Hypotheses(E)[s] = Directed(s, E)
    BY <1>1, <1>0 DEF Hypotheses
  <2> QED BY <1>1, <2>1, DirectedGrows
<1>2. CASE s = "microservices"
  <2>1. Hypotheses(D)[s] = Grouped("services", D) /\ Hypotheses(E)[s] = Grouped("services", E)
    BY <1>2, <1>0 DEF Hypotheses
  <2>2. Against(e, s) = Crosses("services", e) BY <1>2, <1>0 DEF Against
  <2> QED BY <2>1, <2>2, GroupedGrows
<1>3. CASE s = "modular_monolith"
  <2>1. Hypotheses(D)[s] = Grouped("modules", D) /\ Hypotheses(E)[s] = Grouped("modules", E)
    BY <1>3, <1>0 DEF Hypotheses
  <2>2. Against(e, s) = Crosses("modules", e) BY <1>3, <1>0 DEF Against
  <2> QED BY <2>1, <2>2, GroupedGrows
<1>4. CASE s = "event_driven"
  <2>1. Hypotheses(D)[s] = EventDriven(D) /\ Hypotheses(E)[s] = EventDriven(E)
    BY <1>4, <1>0 DEF Hypotheses
  <2> QED BY <2>1, EventDrivenGrows
<1> QED BY <1>1, <1>2, <1>3, <1>4 DEF Style

\* A dependency that is left out completes no style, and makes none stronger but those it
\* contradicts.
THEOREM NothingFromNothing == SpecArchitecture => []MissingIsNoEvidence
<1> DEFINE Inv == resolved \in Graphs /\ (summary # "none" => hypotheses = Hypotheses(resolved))
<1>1. InitArchitecture => Inv BY DEF InitArchitecture
<1>2. Inv /\ [AnalyzeArchitecture]_analysis => Inv'
  <2> SUFFICES ASSUME Inv, [AnalyzeArchitecture]_analysis PROVE Inv' OBVIOUS
  <2>1. resolved' = resolved /\ entries' = entries BY DEF AnalyzeArchitecture, analysis
  <2>2. Hypotheses(resolved)' = Hypotheses(resolved)
    BY <2>1 DEF Hypotheses, Directed, Grouped, Crosses, EventDriven, Complete, Pairs, Units, Assessment
  <2>3. hypotheses' = Hypotheses(resolved) \/ (hypotheses' = hypotheses /\ summary' = summary)
    BY DEF AnalyzeArchitecture, analysis
  <2> QED BY <2>1, <2>2, <2>3
<1>3. Inv => MissingIsNoEvidence
  <2> SUFFICES ASSUME Inv PROVE MissingIsNoEvidence OBVIOUS
  <2>1. ASSUME NEW e \in resolved, NEW s \in Style, summary # "none"
        PROVE  NoStronger(e, s, hypotheses[s], Hypotheses(resolved \ {e})[s])
    BY <2>1, HypothesesGrow
  <2> QED BY <2>1 DEF MissingIsNoEvidence, NoStronger
<1> QED BY <1>1, <1>2, <1>3, PTL DEF SpecArchitecture

-----------------------------------------------------------------------------
\* Merge.

\* What may be merged: one item of one role.
Candidate ==
  {OfFinding(r, f) : r \in {"refactoring", "security"}, f \in Finding}
    \cup {OfEvidence(k, e) : k \in {"architecture_support", "architecture_contradiction"}, e \in Evidence}

\* A candidate is a record with the one role that found it.
LEMMA CandidateOfOne ==
  ASSUME NEW c \in Candidate
  PROVE  /\ c = [id |-> c.id, roles |-> c.roles, finding |-> c.finding]
         /\ \E r \in Roles : c.roles = {r}
BY DEF Candidate, OfFinding, OfEvidence, Item, Roles

\* Results are sequences, of which one is empty.
LEMMA ResultsAreSequences ==
  ASSUME MergeAssumption, NEW S
  PROVE  Results(S) \subseteq Seq(S) /\ <<>> \in Results(S)
<1>1. Results(S) = UNION {[1..m -> S] : m \in 0..MaxResults} BY DEF Results, BoundedSeq, SeqOf
<1>2. ASSUME NEW m \in 0..MaxResults PROVE [1..m -> S] \subseteq Seq(S) BY DEF MergeAssumption
<1>3. 0 \in 0..MaxResults BY DEF MergeAssumption
<1>4. <<>> \in [1..0 -> S] OBVIOUS
<1> QED BY <1>1, <1>2, <1>3, <1>4

\* What the roles returned becomes a sequence of candidates.
LEMMA CandidatesTyped ==
  ASSUME MergeAssumption,
         quality \in Results(Finding), security \in Results(Finding),
         support \in Results(Evidence), contradictions \in Results(Evidence)
  PROVE  Candidates \in Seq(Candidate)
<1> DEFINE ofQuality(f)  == OfFinding("refactoring", f)
           ofSecurity(f) == OfFinding("security", f)
           for(e)     == OfEvidence("architecture_support", e)
           against(e) == OfEvidence("architecture_contradiction", e)
<1>1. /\ quality \in Seq(Finding) /\ security \in Seq(Finding)
      /\ support \in Seq(Evidence) /\ contradictions \in Seq(Evidence)
  BY ResultsAreSequences
<1>2. Mapped(ofQuality, quality) \in Seq(Candidate)
  <2>1. \A n \in DOMAIN quality : ofQuality(quality[n]) \in Candidate BY <1>1 DEF Candidate
  <2> HIDE DEF ofQuality
  <2> QED BY <1>1, <2>1 DEF Mapped
<1>3. Mapped(ofSecurity, security) \in Seq(Candidate)
  <2>1. \A n \in DOMAIN security : ofSecurity(security[n]) \in Candidate BY <1>1 DEF Candidate
  <2> HIDE DEF ofSecurity
  <2> QED BY <1>1, <2>1 DEF Mapped
<1>4. Mapped(for, support) \in Seq(Candidate)
  <2>1. \A n \in DOMAIN support : for(support[n]) \in Candidate BY <1>1 DEF Candidate
  <2> HIDE DEF for
  <2> QED BY <1>1, <2>1 DEF Mapped
<1>5. Mapped(against, contradictions) \in Seq(Candidate)
  <2>1. \A n \in DOMAIN contradictions : against(contradictions[n]) \in Candidate BY <1>1 DEF Candidate
  <2> HIDE DEF against
  <2> QED BY <1>1, <2>1 DEF Mapped
<1>6. Candidates = Mapped(ofQuality, quality) \o Mapped(for, support) \o Mapped(against, contradictions)
       \o Mapped(ofSecurity, security)
  BY DEF Candidates
<1> HIDE DEF ofQuality, ofSecurity, for, against
<1> DEFINE a == Mapped(ofQuality, quality)
           b == Mapped(for, support)
           c == Mapped(against, contradictions)
           d == Mapped(ofSecurity, security)
<1>7. a \in Seq(Candidate) /\ b \in Seq(Candidate) /\ c \in Seq(Candidate) /\ d \in Seq(Candidate)
  BY <1>2, <1>3, <1>4, <1>5
<1>8. Candidates = a \o b \o c \o d BY <1>6
<1> HIDE DEF a, b, c, d
<1> QED BY <1>7, <1>8

\* Of the candidates with an id there is a first.
LEMMA FirstOf ==
  ASSUME NEW cs \in Seq(Candidate), NEW n \in DOMAIN cs
  PROVE  \E m \in DOMAIN cs : cs[m].id = cs[n].id /\ \A o \in 1..(m - 1) : cs[o].id # cs[m].id
<1> DEFINE same == {o \in DOMAIN cs : cs[o].id = cs[n].id}
           below == OpToRel(<, Nat)
<1>1. same \subseteq Nat /\ n \in same BY DOMAIN cs = 1..Len(cs)
<1>2. PICK m \in same : \A o \in same : ~(o < m)
  <2>1. IsWellFoundedOn(below, Nat) BY NatLessThanWellFounded
  <2>2. \E m \in same : \A o \in same : <<o, m>> \notin below
    <3> HIDE DEF below, same
    <3> QED BY <1>1, <2>1, WFMin
  <2> QED BY <1>1, <2>2 DEF OpToRel
<1>3. \A o \in 1..(m - 1) : o \in DOMAIN cs /\ o < m BY <1>1
<1> QED BY <1>2, <1>3

\* What the merged report holds of candidate n, if it is the first of its id.
Whole(cs, n) ==
  [cs[n] EXCEPT !.roles = UNION {cs[o].roles : o \in {o \in DOMAIN cs : cs[o].id = cs[n].id}}]

\* An item has the id of its candidates and the roles of all of them.
LEMMA WholeHas ==
  ASSUME NEW cs \in Seq(Candidate), NEW n \in DOMAIN cs
  PROVE  /\ Whole(cs, n).id = cs[n].id
         /\ Whole(cs, n).roles = UNION {cs[o].roles : o \in {o \in DOMAIN cs : cs[o].id = cs[n].id}}
<1>1. cs[n] \in Candidate OBVIOUS
<1>2. cs[n] = [id |-> cs[n].id, roles |-> cs[n].roles, finding |-> cs[n].finding] BY <1>1, CandidateOfOne
<1> QED BY <1>2 DEF Whole

\* No two items have an id, every candidate is in the item of its id, and an item has no
\* other role than those of its candidates.
LEMMA MergedById ==
  ASSUME NEW cs \in Seq(Candidate)
  PROVE  /\ \A i, j \in Merged(cs) : i.id = j.id => i = j
         /\ \A n \in DOMAIN cs : \E i \in Merged(cs) : i.id = cs[n].id /\ cs[n].roles \subseteq i.roles
         /\ \A i \in Merged(cs) : \A r \in i.roles :
              \E n \in DOMAIN cs : cs[n].id = i.id /\ cs[n].roles = {r}
<1> DEFINE firsts == {n \in DOMAIN cs : \A o \in 1..(n - 1) : cs[o].id # cs[n].id}
<1>0. DOMAIN cs = 1..Len(cs) /\ Len(cs) \in Nat OBVIOUS
<1>1. Merged(cs) = {Whole(cs, n) : n \in firsts} BY DEF Merged, Whole
<1>2. \A m, n \in firsts : cs[m].id = cs[n].id => m = n
  <2> SUFFICES ASSUME NEW m \in firsts, NEW n \in firsts, cs[m].id = cs[n].id, m # n PROVE FALSE OBVIOUS
  <2>1. m \in Nat \ {0} /\ n \in Nat \ {0} BY <1>0
  <2>2. CASE m < n BY <2>1, <2>2
  <2>3. CASE n < m BY <2>1, <2>3
  <2> QED BY <2>1, <2>2, <2>3
<1>3. \A i, j \in Merged(cs) : i.id = j.id => i = j
  <2> SUFFICES ASSUME NEW m \in firsts, NEW n \in firsts, Whole(cs, m).id = Whole(cs, n).id
               PROVE  Whole(cs, m) = Whole(cs, n)
    BY <1>1
  <2> QED BY <1>2, WholeHas
<1>4. ASSUME NEW n \in DOMAIN cs
      PROVE  \E i \in Merged(cs) : i.id = cs[n].id /\ cs[n].roles \subseteq i.roles
  <2>1. PICK m \in firsts : cs[m].id = cs[n].id BY FirstOf
  <2>2. Whole(cs, m).id = cs[n].id /\ cs[n].roles \subseteq Whole(cs, m).roles BY <2>1, WholeHas
  <2> QED BY <1>1, <2>2
<1>5. ASSUME NEW m \in firsts, NEW r \in Whole(cs, m).roles
      PROVE  \E n \in DOMAIN cs : cs[n].id = Whole(cs, m).id /\ cs[n].roles = {r}
  <2>1. PICK n \in DOMAIN cs : cs[n].id = cs[m].id /\ r \in cs[n].roles BY WholeHas
  <2>2. cs[n] \in Candidate OBVIOUS
  <2>3. cs[n].roles = {r} BY <2>1, <2>2, CandidateOfOne
  <2> QED BY <2>1, <2>3, WholeHas
<1>6. \A i \in Merged(cs) : \A r \in i.roles :
        \E n \in DOMAIN cs : cs[n].id = i.id /\ cs[n].roles = {r}
  <2> SUFFICES ASSUME NEW i \in Merged(cs), NEW r \in i.roles
               PROVE  \E n \in DOMAIN cs : cs[n].id = i.id /\ cs[n].roles = {r}
    OBVIOUS
  <2>1. PICK m \in firsts : i = Whole(cs, m) BY <1>1
  <2> QED BY <2>1, <1>5
<1> QED BY <1>3, <1>4, <1>6

-----------------------------------------------------------------------------
\* Nothing but the two steps changes a result; the report is that of the results.
MergeInv ==
  /\ at \in {"merge", "adapt", "end"}
  /\ states \in [Roles -> {"succeeded", "failed", "timed_out", "cancelled"}]
  /\ states \in Outcomes
  /\ Candidates \in Seq(Candidate)
  /\ accepted # "no"
  /\ at # "merge" =>
       /\ items = Merged(Candidates)
       /\ \A c \in conflicts : c \subseteq {i.id : i \in items}
       /\ status = StatusOfStates

\* Before the merge there is no report, and the results are what it needs.
LEMMA MergeInit == MergeAssumption /\ InitMerge => MergeInv
<1> SUFFICES ASSUME MergeAssumption, InitMerge PROVE MergeInv OBVIOUS
<1>1. states \in [Roles -> {"succeeded", "failed", "timed_out", "cancelled"}]
  BY DEF InitMerge, MergeAssumption
<1>2. <<>> \in Results(Finding) /\ <<>> \in Results(Evidence) BY ResultsAreSequences
<1>3. /\ quality \in Results(Finding) /\ security \in Results(Finding)
      /\ support \in Results(Evidence) /\ contradictions \in Results(Evidence)
  BY <1>2 DEF InitMerge
<1>4. Candidates \in Seq(Candidate) BY <1>3, CandidatesTyped
<1> QED BY <1>1, <1>4 DEF InitMerge, MergeInv

\* A result that was reported as it is, is accepted.
LEMMA ReportIsCoherent == MergeInv /\ at # "merge" => Coherent
<1> SUFFICES ASSUME MergeInv, at # "merge" PROVE Coherent OBVIOUS
<1>1. \A i, j \in items : i.id = j.id => i = j BY MergedById DEF MergeInv
<1>2. DOMAIN states = Roles /\ status = StatusOfStates BY DEF MergeInv
<1>3. /\ status = "failed" => ErrorsOf # {}
      /\ status = "succeeded" => ErrorsOf = {}
      /\ status = "partial" =>
           /\ ErrorsOf # DOMAIN states
           /\ \E r \in DOMAIN states : states[r] \in {"failed", "timed_out"}
  BY <1>2 DEF StatusOfStates, ErrorsOf, MergeInv, Roles
<1>4. \A i, j \in DOMAIN FindingIds : FindingIds[i] = FindingIds[j] => i = j BY <1>1 DEF FindingIds
<1>5. UNION conflicts \subseteq {i.id : i \in items} BY DEF MergeInv
<1> QED BY <1>1, <1>2, <1>3, <1>4, <1>5 DEF Coherent

\* The merge makes the report; what the contract is then asked about is that report.
LEMMA MergeStep == MergeInv /\ [NextMerge]_report => MergeInv'
<1> SUFFICES ASSUME MergeInv, [NextMerge]_report PROVE MergeInv' OBVIOUS
<1>1. UNCHANGED <<states, quality, security, support, contradictions>>
  BY DEF NextMerge, MergeResults, Adapt, report
<1>2. Candidates' = Candidates /\ StatusOfStates' = StatusOfStates
  BY <1>1 DEF Candidates, StatusOfStates, Mapped
<1>3. CASE MergeResults
  <2>1. items' = Merged(Candidates) /\ status' = StatusOfStates /\ at' = "adapt" /\ accepted' = accepted
    BY <1>3 DEF MergeResults
  <2>2. \A c \in conflicts' : c \subseteq {i.id : i \in items'}
    BY <1>3 DEF MergeResults
  <2>3. Merged(Candidates)' = Merged(Candidates) BY <1>2 DEF Merged
  <2> QED BY <1>1, <1>2, <2>1, <2>2, <2>3 DEF MergeInv
<1>4. CASE Adapt
  <2>1. Coherent BY <1>4, ReportIsCoherent DEF Adapt
  <2>2. Merged(Candidates)' = Merged(Candidates) BY <1>2 DEF Merged
  <2> QED BY <1>1, <1>2, <1>4, <2>1, <2>2 DEF Adapt, MergeInv
<1>5. CASE UNCHANGED report
  <2>1. Merged(Candidates)' = Merged(Candidates) BY <1>2 DEF Merged
  <2> QED BY <1>1, <1>2, <1>5, <2>1 DEF MergeInv, report
<1> QED BY <1>3, <1>4, <1>5 DEF NextMerge

\* Whatever the roles found, the contract accepts the report.
THEOREM NothingRefused == SpecMerge => []ResultIsAccepted
<1>1. InitMerge => MergeInv BY MergeAssumption, MergeInit
<1>2. MergeInv => ResultIsAccepted BY DEF MergeInv, ResultIsAccepted
<1> QED BY <1>1, <1>2, MergeStep, PTL DEF SpecMerge

\* The report has all that the roles found, under their names, and nothing else.
THEOREM NothingLost == SpecMerge => []MergeKeepsAll
<1>1. InitMerge => MergeInv BY MergeAssumption, MergeInit
<1>2. MergeInv => MergeKeepsAll BY MergedById DEF MergeInv, MergeKeepsAll
<1> QED BY <1>1, <1>2, MergeStep, PTL DEF SpecMerge

-----------------------------------------------------------------------------
\* Citations.

\* Induction up an interval.
LEMMA Upward ==
  ASSUME NEW a \in Nat, NEW b \in Nat, NEW P, a \in P,
         \A i \in a..(b - 1) : i \in P => i + 1 \in P
  PROVE  a..b \subseteq P
<1> DEFINE out == (a..b) \ P
           below == OpToRel(<, Nat)
<1> SUFFICES ASSUME out # {} PROVE FALSE
  OBVIOUS
<1>1. PICK m \in out : \A o \in out : ~(o < m)
  <2>1. IsWellFoundedOn(below, Nat) BY NatLessThanWellFounded
  <2>2. out \subseteq Nat OBVIOUS
  <2>3. \E m \in out : \A o \in out : <<o, m>> \notin below
    <3> HIDE DEF below, out
    <3> QED BY <2>1, <2>2, WFMin
  <2> QED BY <2>2, <2>3 DEF OpToRel
<1>2. m # a /\ m - 1 \in a..(b - 1) BY <1>1
<1>3. m - 1 \in P BY <1>1, <1>2
<1> QED BY <1>1, <1>2, <1>3

\* A recursion over an interval: step[i] makes the i-th value of the one before.
Recursive(a, b, S, base, step) ==
  \E f \in [a..b -> S] : f[a] = base /\ \A i \in (a + 1)..b : f[i] = step[i][f[i - 1]]

\* There is such a function.
LEMMA Recursion ==
  ASSUME NEW a \in Nat, NEW b \in Nat, a <= b, NEW S, NEW base \in S,
         NEW step \in [Nat -> [S -> S]]
  PROVE  Recursive(a, b, S, base, step)
<1> DEFINE upto(n, f) == f[a] = base /\ \A i \in (a + 1)..n : f[i] = step[i][f[i - 1]]
           P == {n \in a..b : \E f \in [a..n -> S] : upto(n, f)}
<1>1. a \in P
  <2>1. [i \in a..a |-> base] \in [a..a -> S] /\ upto(a, [i \in a..a |-> base]) OBVIOUS
  <2>2. \E f \in [a..a -> S] : upto(a, f)
    <3> HIDE DEF upto
    <3> QED BY <2>1, Zenon
  <2> QED BY <2>2
<1>2. ASSUME NEW n \in a..(b - 1), n \in P PROVE n + 1 \in P
  <2>1. PICK f \in [a..n -> S] : upto(n, f) BY <1>2
  <2> DEFINE g == [i \in a..(n + 1) |-> IF i <= n THEN f[i] ELSE step[n + 1][f[n]]]
  <2>2. f[n] \in S /\ step[n + 1][f[n]] \in S
    <3>1. n \in a..n /\ n + 1 \in Nat OBVIOUS
    <3> QED BY <3>1
  <2>3. g \in [a..(n + 1) -> S] BY <2>2
  <2>4. upto(n + 1, g)
    <3>1. g[a] = base BY <2>1
    <3>2. ASSUME NEW i \in (a + 1)..(n + 1) PROVE g[i] = step[i][g[i - 1]]
      <4>1. CASE i <= n BY <2>1, <4>1
      <4>2. CASE i = n + 1 BY <4>2
      <4> QED BY <4>1, <4>2
    <3> QED BY <3>1, <3>2
  <2>5. \E h \in [a..(n + 1) -> S] : upto(n + 1, h)
    <3> HIDE DEF upto, g
    <3> QED BY <2>3, <2>4, Zenon
  <2> QED BY <2>5
<1>3. a..b \subseteq P
  <2> HIDE DEF P
  <2> QED BY <1>1, <1>2, Upward
<1>4. b \in P BY <1>3
<1> QED BY <1>4 DEF Recursive

\* What FlattenSeq is: the sequences one after another.
LEMMA Flat ==
  ASSUME NEW T, NEW s \in Seq(Seq(T)), Len(s) > 0
  PROVE  \E f \in [1..Len(s) -> Seq(T)] :
           /\ f[1] = s[1] /\ \A i \in 2..Len(s) : f[i] = f[i - 1] \o s[i]
           /\ FlattenSeq(s) = f[Len(s)]
<1> DEFINE is(f) == f = [i \in 1..Len(s) |-> IF i = 1 THEN s[i] ELSE f[i - 1] \o s[i]]
           F == CHOOSE f : is(f)
           step == [n \in Nat |-> [t \in Seq(T) |-> t \o (IF n \in 1..Len(s) THEN s[n] ELSE <<>>)]]
<1>0. Len(s) \in Nat /\ 1 <= Len(s) /\ Len(s) # 0 /\ s[1] \in Seq(T) OBVIOUS
<1>1. step \in [Nat -> [Seq(T) -> Seq(T)]] OBVIOUS
<1>2. \A i \in 1..Len(s), t \in Seq(T) : step[i][t] = t \o s[i]
  <2> SUFFICES ASSUME NEW i \in 1..Len(s), NEW t \in Seq(T) PROVE step[i][t] = t \o s[i]
    OBVIOUS
  <2>1. i \in Nat BY <1>0
  <2> QED BY <2>1
<1> HIDE DEF step
<1>3. PICK f \in [1..Len(s) -> Seq(T)] : f[1] = s[1] /\ \A i \in (1 + 1)..Len(s) : f[i] = step[i][f[i - 1]]
  <2>1. 1 \in Nat OBVIOUS
  <2>2. Recursive(1, Len(s), Seq(T), s[1], step) BY <1>0, <1>1, <2>1, Recursion
  <2> QED BY <2>2 DEF Recursive
<1>4. \A i \in 2..Len(s) : f[i] = f[i - 1] \o s[i]
  <2> SUFFICES ASSUME NEW i \in 2..Len(s) PROVE f[i] = f[i - 1] \o s[i]
    OBVIOUS
  <2>1. i \in 1..Len(s) /\ i - 1 \in 1..Len(s) /\ i \in (1 + 1)..Len(s) BY <1>0
  <2>2. f[i] = step[i][f[i - 1]] /\ f[i - 1] \in Seq(T) BY <1>3, <2>1
  <2> QED BY <1>2, <2>1, <2>2
<1>5. is(f)
  <2>1. \A i \in 1..Len(s) : f[i] = (IF i = 1 THEN s[i] ELSE f[i - 1] \o s[i])
    <3> SUFFICES ASSUME NEW i \in 1..Len(s) PROVE f[i] = (IF i = 1 THEN s[i] ELSE f[i - 1] \o s[i])
      OBVIOUS
    <3>1. CASE i = 1 BY <1>3, <3>1
    <3>2. CASE i # 1
      <4>1. i \in 2..Len(s) BY <1>0, <3>2
      <4> QED BY <1>4, <3>2, <4>1
    <3> QED BY <3>1, <3>2
  <2> QED BY <2>1
<1>6. is(F) BY <1>5, Zenon
<1>7. FlattenSeq(s) = F[Len(s)] BY <1>0, Zenon DEF FlattenSeq
<1> HIDE DEF F
<1>8. F[1] = s[1] /\ \A i \in 2..Len(s) : F[i] = F[i - 1] \o s[i]
  <2>1. \A i \in 1..Len(s) : F[i] = (IF i = 1 THEN s[i] ELSE F[i - 1] \o s[i])
    BY <1>6
  <2>2. F[1] = s[1] BY <1>0, <2>1
  <2>3. ASSUME NEW i \in 2..Len(s) PROVE F[i] = F[i - 1] \o s[i]
    <3>1. i \in 1..Len(s) /\ i # 1 BY <1>0
    <3> QED BY <2>1, <3>1
  <2> QED BY <2>2, <2>3
<1>9. F \in [1..Len(s) -> Seq(T)]
  <2> DEFINE P == {i \in 1..Len(s) : F[i] \in Seq(T)}
  <2>1. 1 \in P BY <1>0, <1>8
  <2>2. ASSUME NEW i \in 1..(Len(s) - 1), i \in P PROVE i + 1 \in P
    <3>1. i + 1 \in 2..Len(s) /\ i + 1 \in 1..Len(s) /\ (i + 1) - 1 = i BY <1>0
    <3>2. F[i + 1] = F[i] \o s[i + 1] BY <1>8, <3>1
    <3>3. F[i] \in Seq(T) /\ s[i + 1] \in Seq(T) BY <1>0, <2>2, <3>1
    <3>4. F[i + 1] \in Seq(T) BY <3>2, <3>3
    <3> QED BY <3>1, <3>4
  <2>3. 1..Len(s) \subseteq P
    <3> HIDE DEF P
    <3>1. 1 \in Nat OBVIOUS
    <3> QED BY <1>0, <2>1, <2>2, <3>1, Upward
  <2>4. \A i \in 1..Len(s) : F[i] \in Seq(T) BY <2>3
  <2>5. \E r : F = [i \in 1..Len(s) |-> r[i]]
    <3>1. F = [i \in 1..Len(s) |-> [j \in 1..Len(s) |-> IF j = 1 THEN s[j] ELSE F[j - 1] \o s[j]][i]]
      BY <1>6, Zenon
    <3> QED BY <3>1, Zenon
  <2>6. PICK r : F = [i \in 1..Len(s) |-> r[i]] BY <2>5
  <2>7. \A i \in 1..Len(s) : r[i] \in Seq(T) BY <2>4, <2>6
  <2> QED BY <2>6, <2>7
<1> QED BY <1>7, <1>8, <1>9

\* Sequences one after another: it does not matter what is joined first.
Joins(T) ==
  /\ \A u, v \in Seq(T) : u \o v \in Seq(T)
  /\ \A u, v, w \in Seq(T) : (u \o v) \o w = u \o (v \o w)
  /\ \A u, v \in Seq(T), e \in T : Append(u \o v, e) = u \o Append(v, e)

\* The empty sequence adds nothing.
Empties(T) == <<>> \in Seq(T) /\ \A u \in Seq(T) : <<>> \o u = u /\ u \o <<>> = u

\* Sequences join, whatever they are made of.
LEMMA Joining == ASSUME NEW T PROVE Joins(T) /\ Empties(T)
<1>1. ASSUME NEW u \in Seq(T), NEW v \in Seq(T) PROVE u \o v \in Seq(T) OBVIOUS
<1>2. ASSUME NEW u \in Seq(T), NEW v \in Seq(T), NEW w \in Seq(T) PROVE (u \o v) \o w = u \o (v \o w)
  OBVIOUS
<1>3. ASSUME NEW u \in Seq(T), NEW v \in Seq(T), NEW e \in T PROVE Append(u \o v, e) = u \o Append(v, e)
  OBVIOUS
<1>4. ASSUME NEW u \in Seq(T) PROVE <<>> \o u = u /\ u \o <<>> = u OBVIOUS
<1>5. <<>> \in Seq(T) OBVIOUS
<1> QED BY <1>1, <1>2, <1>3, <1>4, <1>5, Zenon DEF Joins, Empties

\* What is in the middle is a part, and so are the parts of it.
LEMMA Middle ==
  ASSUME NEW T, NEW x \in Seq(T), NEW q \in Seq(T), NEW y \in Seq(T), NEW c \in SubSeqs(q)
  PROVE  c \in SubSeqs(x \o q \o y)
<1> DEFINE w == x \o q \o y
<1>1. PICK i \in 0..Len(q), j \in 0..Len(q) : c = SubSeq(q, i + 1, j) BY DEF SubSeqs
<1>2. w \in Seq(T) /\ Len(w) = Len(x) + Len(q) + Len(y) OBVIOUS
<1>3. \A n \in 1..Len(q) : w[Len(x) + n] = q[n] OBVIOUS
<1> HIDE DEF w
<1>4. Len(x) + i \in 0..Len(w) /\ Len(x) + j \in 0..Len(w) BY <1>1, <1>2
<1>5. c = SubSeq(w, (Len(x) + i) + 1, Len(x) + j)
  <2> DEFINE d == SubSeq(w, (Len(x) + i) + 1, Len(x) + j)
  <2>0. i + 1 \in Int /\ j \in Int /\ (Len(x) + i) + 1 \in Int /\ Len(x) + j \in Int OBVIOUS
  <2>1. (\A n \in (i + 1)..j : q[n] \in T) /\ (\A n \in ((Len(x) + i) + 1)..(Len(x) + j) : w[n] \in T)
    BY <1>2
  <2>2. /\ c \in Seq(T) /\ Len(c) = (IF i + 1 <= j THEN j - (i + 1) + 1 ELSE 0)
        /\ \A n \in 1..(j - (i + 1) + 1) : c[n] = q[(i + 1) + n - 1]
    BY <1>1, <2>0, <2>1, SubSeqProperties
  <2>3. /\ d \in Seq(T) /\ Len(d) = (IF (Len(x) + i) + 1 <= Len(x) + j THEN (Len(x) + j) - ((Len(x) + i) + 1) + 1 ELSE 0)
        /\ \A n \in 1..((Len(x) + j) - ((Len(x) + i) + 1) + 1) : d[n] = w[((Len(x) + i) + 1) + n - 1]
    BY <2>0, <2>1, SubSeqProperties
  <2> HIDE DEF d
  <2>4. Len(c) = Len(d) BY <1>1, <2>2, <2>3
  <2>5. \A n \in 1..Len(c) : c[n] = d[n]
    <3> SUFFICES ASSUME NEW n \in 1..Len(c) PROVE c[n] = d[n]
      OBVIOUS
    <3>1. /\ i + n \in 1..Len(q) /\ n \in 1..(j - (i + 1) + 1)
          /\ n \in 1..((Len(x) + j) - ((Len(x) + i) + 1) + 1) BY <1>1, <2>2
    <3>2. (i + 1) + n - 1 = i + n /\ ((Len(x) + i) + 1) + n - 1 = Len(x) + (i + n) BY <1>1, <2>2
    <3> QED BY <1>3, <2>2, <2>3, <3>1, <3>2
  <2>6. c = d BY <2>2, <2>3, <2>4, <2>5, SeqEqual
  <2> QED BY <2>6 DEF d
<1>6. c \in SubSeqs(w) BY <1>4, <1>5 DEF SubSeqs
<1> QED BY <1>6 DEF w

\* The parts of a sequence are sequences of its elements.
LEMMA PartOf ==
  ASSUME NEW T, NEW q \in Seq(T), NEW c \in SubSeqs(q)
  PROVE  Range(c) \subseteq T
<1>1. PICK i \in 0..Len(q), j \in 0..Len(q) : c = SubSeq(q, i + 1, j) BY DEF SubSeqs
<1>2. c \in Seq(T) BY <1>1
<1> QED BY <1>2 DEF Range

\* The lines of a text with their endings.
Ended(lines) == [n \in 1..Len(lines) |-> IF n < Len(lines) THEN Append(lines[n], "nl") ELSE lines[n]]

\* They are joined one after another.
LEMMA JoinedIs ==
  ASSUME NEW T, "nl" \in T, NEW lines \in Seq(Seq(T)), Len(lines) > 0
  PROVE  \E f \in [1..Len(lines) -> Seq(T)] :
           /\ Ended(lines) \in Seq(Seq(T)) /\ Len(Ended(lines)) = Len(lines)
           /\ f[1] = Ended(lines)[1]
           /\ \A i \in 2..Len(lines) : f[i] = f[i - 1] \o Ended(lines)[i]
           /\ Joined(lines) = f[Len(lines)]
<1>1. \A n \in 1..Len(lines) : lines[n] \in Seq(T) /\ Append(lines[n], "nl") \in Seq(T)
  <2> SUFFICES ASSUME NEW n \in 1..Len(lines) PROVE lines[n] \in Seq(T) /\ Append(lines[n], "nl") \in Seq(T)
    OBVIOUS
  <2>1. lines[n] \in Seq(T) OBVIOUS
  <2> QED BY <2>1
<1>2. Ended(lines) \in Seq(Seq(T)) /\ Len(Ended(lines)) = Len(lines) BY <1>1 DEF Ended
<1>3. Joined(lines) = FlattenSeq(Ended(lines)) BY DEF Joined, Ended
<1>4. Len(Ended(lines)) > 0 BY <1>2
<1>5. PICK f \in [1..Len(Ended(lines)) -> Seq(T)] :
        /\ f[1] = Ended(lines)[1]
        /\ \A i \in 2..Len(Ended(lines)) : f[i] = f[i - 1] \o Ended(lines)[i]
        /\ FlattenSeq(Ended(lines)) = f[Len(Ended(lines))]
  BY <1>2, <1>4, Flat
<1> QED BY <1>2, <1>3, <1>5

\* What is put before the first and after the last line is before and after the text.
Frames(m, p, q, x, y) ==
  /\ m = 1 => q[1] = (x \o p[1]) \o y
  /\ m > 1 => q[1] = x \o p[1] /\ q[m] = p[m] \o y
  /\ \A n \in 2..(m - 1) : q[n] = p[n]

\* The text of more than some lines has the text of those lines in it.
LEMMA Framed ==
  ASSUME NEW T, "nl" \in T, NEW m \in Nat \ {0}, NEW p \in Seq(Seq(T)), NEW q \in Seq(Seq(T)),
         Len(p) = m, Len(q) = m, NEW x \in Seq(T), NEW y \in Seq(T),
         Frames(m, p, q, x, y)
  PROVE  Joined(p) \in Seq(T) /\ Joined(q) = (x \o Joined(p)) \o y
<1>9. /\ m = 1 => q[1] = (x \o p[1]) \o y
      /\ m > 1 => q[1] = x \o p[1] /\ q[m] = p[m] \o y
      /\ \A n \in 2..(m - 1) : q[n] = p[n]
  BY DEF Frames
<1>1. PICK f \in [1..m -> Seq(T)] :
        /\ f[1] = Ended(p)[1] /\ \A i \in 2..m : f[i] = f[i - 1] \o Ended(p)[i]
        /\ Joined(p) = f[m]
  <2>1. Len(p) > 0 OBVIOUS
  <2>2. \E f \in [1..Len(p) -> Seq(T)] :
          /\ Ended(p) \in Seq(Seq(T)) /\ Len(Ended(p)) = Len(p) /\ f[1] = Ended(p)[1]
          /\ \A i \in 2..Len(p) : f[i] = f[i - 1] \o Ended(p)[i]
          /\ Joined(p) = f[Len(p)]
    BY <2>1, JoinedIs, Zenon
  <2> QED BY <2>2, Zenon
<1>2. PICK g \in [1..m -> Seq(T)] :
        /\ g[1] = Ended(q)[1] /\ \A i \in 2..m : g[i] = g[i - 1] \o Ended(q)[i]
        /\ Joined(q) = g[m]
  <2>1. Len(q) > 0 OBVIOUS
  <2>2. \E h \in [1..Len(q) -> Seq(T)] :
          /\ Ended(q) \in Seq(Seq(T)) /\ Len(Ended(q)) = Len(q) /\ h[1] = Ended(q)[1]
          /\ \A i \in 2..Len(q) : h[i] = h[i - 1] \o Ended(q)[i]
          /\ Joined(q) = h[Len(q)]
    BY <2>1, JoinedIs, Zenon
  <2> QED BY <2>2, Zenon
<1>3. \A n \in 1..m : p[n] \in Seq(T) /\ q[n] \in Seq(T) OBVIOUS
<1>4. \A n \in 1..m : /\ Ended(p)[n] = IF n < m THEN Append(p[n], "nl") ELSE p[n]
                      /\ Ended(q)[n] = IF n < m THEN Append(q[n], "nl") ELSE q[n]
  BY DEF Ended
<1>5. Joins(T) BY Joining
<1>0. 1 \in 1..m /\ m \in 1..m OBVIOUS
<1>7. ASSUME m > 1 PROVE \A n \in 1..(m - 1) : g[n] = x \o f[n]
  <2> DEFINE P == {n \in 1..(m - 1) : g[n] = x \o f[n]}
  <2>1. 1 \in P
    <3>2. p[1] \in Seq(T) /\ q[1] = x \o p[1] BY <1>0, <1>3, <1>7, <1>9
    <3>3. g[1] = Append(q[1], "nl") /\ f[1] = Append(p[1], "nl")
      BY <1>0, <1>1, <1>2, <1>4, <1>7
    <3>4. Append(x \o p[1], "nl") = x \o Append(p[1], "nl") BY <1>5, <3>2, Zenon DEF Joins
    <3>5. g[1] = x \o f[1] BY <3>2, <3>3, <3>4, Zenon
    <3> QED BY <1>7, <3>5
  <2>2. ASSUME NEW n \in 1..((m - 1) - 1), n \in P PROVE n + 1 \in P
    <3>1. /\ n \in 1..m /\ n + 1 \in 2..m /\ n + 1 \in 1..(m - 1) /\ (n + 1) - 1 = n /\ n + 1 < m
          /\ n + 1 \in 1..m /\ n + 1 \in 2..(m - 1)
      OBVIOUS
    <3>2. q[n + 1] = p[n + 1] /\ p[n + 1] \in Seq(T) BY <1>3, <1>9, <3>1
    <3>3. /\ Ended(q)[n + 1] = Append(p[n + 1], "nl") /\ Ended(p)[n + 1] = Append(p[n + 1], "nl")
      BY <1>4, <3>1, <3>2
    <3>4. Append(p[n + 1], "nl") \in Seq(T) BY <3>2, AppendProperties
    <3>5. g[n + 1] = g[n] \o Ended(q)[n + 1] /\ f[n + 1] = f[n] \o Ended(p)[n + 1] /\ f[n] \in Seq(T)
      <4>1. g[n + 1] = g[(n + 1) - 1] \o Ended(q)[n + 1] BY <1>2, <3>1, Zenon
      <4>2. f[n + 1] = f[(n + 1) - 1] \o Ended(p)[n + 1] BY <1>1, <3>1, Zenon
      <4>3. f[n] \in Seq(T) BY <1>1, <3>1
      <4> QED BY <3>1, <4>1, <4>2, <4>3
    <3>6. g[n] = x \o f[n] BY <2>2
    <3>7. (x \o f[n]) \o Append(p[n + 1], "nl") = x \o (f[n] \o Append(p[n + 1], "nl"))
      BY <1>5, <3>4, <3>5, Zenon DEF Joins
    <3>8. g[n + 1] = x \o f[n + 1] BY <3>3, <3>5, <3>6, <3>7, Zenon
    <3> QED BY <3>1, <3>8
  <2>3. 1..(m - 1) \subseteq P
    <3> HIDE DEF P
    <3>1. 1 \in Nat /\ m - 1 \in Nat OBVIOUS
    <3> QED BY <2>1, <2>2, <3>1, Upward
  <2> QED BY <2>3
<1>8. g[m] = (x \o f[m]) \o y
  <2>1. p[m] \in Seq(T) /\ p[1] \in Seq(T) BY <1>0, <1>3
  <2>4. Ended(q)[m] = q[m] /\ Ended(p)[m] = p[m] BY <1>0, <1>4
  <2>2. CASE m = 1
    <3>1. g[m] = q[m] /\ f[m] = p[m] BY <1>1, <1>2, <2>2, <2>4
    <3>2. q[m] = (x \o p[m]) \o y BY <1>9, <2>2
    <3> QED BY <3>1, <3>2
  <2>3. CASE m > 1
    <3>1. m \in 2..m /\ m - 1 \in 1..(m - 1) /\ m - 1 \in 1..m BY <2>3
    <3>2. q[m] = p[m] \o y BY <1>9, <2>3
    <3>3. g[m - 1] = x \o f[m - 1] /\ f[m - 1] \in Seq(T) BY <1>1, <1>7, <2>3, <3>1
    <3>4. g[m] = g[m - 1] \o Ended(q)[m] /\ f[m] = f[m - 1] \o Ended(p)[m]
      BY <1>1, <1>2, <3>1, Zenon
    <3>5. g[m] = (x \o f[m - 1]) \o (p[m] \o y) BY <2>4, <3>2, <3>3, <3>4, Zenon
    <3>6. f[m] = f[m - 1] \o p[m] BY <2>4, <3>4, Zenon
    <3>7. x \o f[m - 1] \in Seq(T) BY <1>5, <3>3, Zenon DEF Joins, Zenon
    <3>8. ((x \o f[m - 1]) \o p[m]) \o y = (x \o f[m - 1]) \o (p[m] \o y)
      BY <1>5, <2>1, <3>7, Zenon DEF Joins
    <3>9. (x \o f[m - 1]) \o p[m] = x \o (f[m - 1] \o p[m])
      BY <1>5, <2>1, <3>3, Zenon DEF Joins
    <3> QED BY <3>5, <3>6, <3>8, <3>9, Zenon
  <2> QED BY <2>2, <2>3
<1> QED BY <1>0, <1>1, <1>2, <1>8

\* One sequence among those that are joined: what is before it and what is after it.
Around(T, s, i, n, w, x, y) ==
  /\ w = (x \o s[i]) \o y
  /\ (\A j \in 1..(i - 1) : s[j] = <<>>) => x = <<>>
  /\ (\A j \in (i + 1)..n : s[j] = <<>>) => y = <<>>

\* Every sequence that FlattenSeq joins is in what it makes.
LEMMA Placed ==
  ASSUME NEW T, NEW s \in Seq(Seq(T)), NEW i \in 1..Len(s)
  PROVE  \E x \in Seq(T), y \in Seq(T) : Around(T, s, i, Len(s), FlattenSeq(s), x, y)
<1> DEFINE m == Len(s)
<1>0. m \in Nat /\ i \in Nat /\ 1 <= i /\ i <= m /\ Joins(T) /\ Empties(T) BY Joining
<1>1. \A n \in 1..m : s[n] \in Seq(T) OBVIOUS
<1>2. PICK f \in [1..m -> Seq(T)] :
        /\ f[1] = s[1] /\ \A n \in 2..m : f[n] = f[n - 1] \o s[n]
        /\ FlattenSeq(s) = f[m]
  <2>1. Len(s) > 0 BY <1>0
  <2> QED BY <2>1, Flat
<1> HIDE DEF m
<1>5. \A u, v, z \in Seq(T) : (u \o v) \o z = u \o (v \o z) BY <1>0, Zenon DEF Joins
<1>3. PICK x \in Seq(T) : f[i] = x \o s[i] /\ ((\A j \in 1..(i - 1) : s[j] = <<>>) => x = <<>>)
  <2>1. CASE i = 1
    <3>1. f[i] = <<>> \o s[i] /\ <<>> \in Seq(T)
      <4>1. f[i] = s[i] BY <1>2, <2>1
      <4>2. s[i] \in Seq(T) BY <1>0, <1>1
      <4> QED BY <1>0, <4>1, <4>2, Zenon DEF Empties
    <3> QED BY <3>1
  <2>2. CASE i # 1
    <3>1. i \in 2..m /\ i - 1 \in 1..m /\ i - 1 \in 1..(i - 1) BY <1>0, <2>2
    <3>2. f[i] = f[i - 1] \o s[i] /\ f[i - 1] \in Seq(T) BY <1>2, <3>1
    <3>3. ASSUME \A j \in 1..(i - 1) : s[j] = <<>> PROVE f[i - 1] = <<>>
      <4> DEFINE P == {j \in 1..(i - 1) : f[j] = <<>>}
      <4>1. 1 \in P BY <1>0, <1>2, <2>2, <3>1, <3>3
      <4>2. ASSUME NEW j \in 1..((i - 1) - 1), j \in P PROVE j + 1 \in P
        <5>1. j + 1 \in 2..m /\ j + 1 \in 1..(i - 1) /\ (j + 1) - 1 = j BY <1>0
        <5>2. s[j + 1] = <<>> /\ f[j] = <<>> BY <3>3, <4>2, <5>1
        <5>3. f[j + 1] = f[(j + 1) - 1] \o s[j + 1] BY <1>2, <5>1, Zenon
        <5>4. f[j + 1] = <<>> \o <<>> BY <5>1, <5>2, <5>3, Zenon
        <5>5. f[j + 1] = <<>> BY <1>0, <5>4, Zenon DEF Empties
        <5> QED BY <5>1, <5>5
      <4>3. 1..(i - 1) \subseteq P
        <5> HIDE DEF P
        <5>1. 1 \in Nat /\ i - 1 \in Nat BY <1>0
        <5> QED BY <4>1, <4>2, <5>1, Upward
      <4> QED BY <3>1, <4>3
    <3> QED BY <3>2, <3>3
  <2> QED BY <2>1, <2>2
<1>4. \E y \in Seq(T) : Around(T, s, i, m, f[m], x, y)
  <2> DEFINE P == {n \in i..m : \E y \in Seq(T) : Around(T, s, i, n, f[n], x, y)}
  <2>0. s[i] \in Seq(T) /\ x \o s[i] \in Seq(T)
    <3>1. s[i] \in Seq(T) BY <1>0, <1>1
    <3> QED BY <1>0, <3>1, Zenon DEF Joins
  <2>1. i \in P
    <3>1. f[i] = (x \o s[i]) \o <<>> /\ <<>> \in Seq(T) BY <1>0, <1>3, <2>0, Zenon DEF Empties
    <3>2. Around(T, s, i, i, f[i], x, <<>>) BY <1>3, <3>1, Zenon DEF Around
    <3>3. \E y \in Seq(T) : Around(T, s, i, i, f[i], x, y) BY <3>1, <3>2, Zenon
    <3> QED BY <1>0, <3>3
  <2>2. ASSUME NEW n \in i..(m - 1), n \in P PROVE n + 1 \in P
    <3>1. n + 1 \in 2..m /\ n + 1 \in i..m /\ (n + 1) - 1 = n /\ n + 1 \in 1..m /\ n + 1 \in (i + 1)..(n + 1)
          /\ (i + 1)..n \subseteq (i + 1)..(n + 1)
      BY <1>0
    <3>2. PICK y \in Seq(T) : Around(T, s, i, n, f[n], x, y) BY <2>2
    <3>3. f[n + 1] = f[(n + 1) - 1] \o s[n + 1] BY <1>2, <3>1, Zenon
    <3>4. s[n + 1] \in Seq(T) BY <1>1, <3>1
    <3>5. f[n + 1] = ((x \o s[i]) \o y) \o s[n + 1] BY <3>1, <3>2, <3>3, Zenon DEF Around
    <3>10. ((x \o s[i]) \o y) \o s[n + 1] = (x \o s[i]) \o (y \o s[n + 1])
      BY <1>5, <2>0, <3>4, Zenon
    <3>11. y \o s[n + 1] \in Seq(T) BY <1>0, <3>4, Zenon DEF Joins
    <3>6. f[n + 1] = (x \o s[i]) \o (y \o s[n + 1]) /\ y \o s[n + 1] \in Seq(T)
      BY <3>5, <3>10, <3>11, Zenon
    <3>7. (\A j \in (i + 1)..(n + 1) : s[j] = <<>>) => y \o s[n + 1] = <<>>
      <4> SUFFICES ASSUME \A j \in (i + 1)..(n + 1) : s[j] = <<>> PROVE y \o s[n + 1] = <<>>
        OBVIOUS
      <4>1. s[n + 1] = <<>> BY <3>1
      <4>2. y = <<>> BY <3>1, <3>2, Zenon DEF Around
      <4> QED BY <1>0, <4>1, <4>2, Zenon DEF Empties
    <3>8. Around(T, s, i, n + 1, f[n + 1], x, y \o s[n + 1]) BY <1>3, <3>6, <3>7, Zenon DEF Around
    <3>9. \E z \in Seq(T) : Around(T, s, i, n + 1, f[n + 1], x, z) BY <3>6, <3>8, Zenon
    <3> QED BY <3>1, <3>9
  <2>3. i..m \subseteq P
    <3> HIDE DEF P
    <3> QED BY <1>0, <2>1, <2>2, Upward
  <2> QED BY <1>0, <2>3
<1> QED BY <1>2, <1>4 DEF m

\* What is joined is of the same kind.
LEMMA FlatTyped == ASSUME NEW T, NEW s \in Seq(Seq(T)) PROVE FlattenSeq(s) \in Seq(T)
<1>0. Len(s) \in Nat OBVIOUS
<1>1. CASE Len(s) = 0
  <2>1. s = <<>> BY <1>1
  <2>2. FlattenSeq(s) = s BY <1>1, Zenon DEF FlattenSeq
  <2>3. <<>> \in Seq(T) OBVIOUS
  <2> QED BY <2>1, <2>2, <2>3, Zenon
<1>2. CASE Len(s) > 0
  <2>1. PICK f \in [1..Len(s) -> Seq(T)] : FlattenSeq(s) = f[Len(s)] BY <1>2, Flat
  <2>2. Len(s) \in 1..Len(s) BY <1>0, <1>2
  <2>3. f[Len(s)] \in Seq(T) BY <2>2
  <2> QED BY <2>1, <2>3, Zenon
<1> QED BY <1>0, <1>1, <1>2

\* All that is in one of them is in the whole.
LEMMA HoldsAll ==
  ASSUME NEW T, NEW s \in Seq(Seq(T)), NEW i \in 1..Len(s)
  PROVE  Range(s[i]) \subseteq Range(FlattenSeq(s))
<1>1. PICK x \in Seq(T), y \in Seq(T) : FlattenSeq(s) = (x \o s[i]) \o y
  <2>1. \E x \in Seq(T), y \in Seq(T) : Around(T, s, i, Len(s), FlattenSeq(s), x, y) BY Placed
  <2> QED BY <2>1, Zenon DEF Around
<1> DEFINE q == s[i]
           w == (x \o q) \o y
<1>2. q \in Seq(T) OBVIOUS
<1> HIDE DEF q
<1>3. w \in Seq(T) /\ Len(w) = Len(x) + Len(q) + Len(y) /\ \A n \in 1..Len(q) : w[Len(x) + n] = q[n]
  BY <1>2
<1>4. Range(q) \subseteq Range(w)
  <2>2. DOMAIN q = 1..Len(q) /\ DOMAIN w = 1..Len(w) BY <1>2, <1>3
  <2> HIDE DEF w
  <2> SUFFICES ASSUME NEW n \in 1..Len(q) PROVE \E j \in 1..Len(w) : w[j] = q[n]
    BY <2>2, Zenon DEF Range
  <2>1. Len(x) + n \in 1..Len(w) BY <1>2, <1>3
  <2> QED BY <1>3, <2>1
<1> QED BY <1>1, <1>4 DEF q

\* _redact, of any file and any of its segments.
ShownIn(src, i) == IF src[i].text = "secret" THEN "REDACTED" ELSE src[i].text
LosesIn(src, i) == src[i].text = "secret" /\ src[i].ends = "other"

\* The line of a segment joins the one before it, or follows it.
Longer(lines, t) == [lines EXCEPT ![Len(lines)] = Append(@, t)]

\* The lines of the segments a to b after _redact.
RedactedOf(src, a, b) ==
  LET upto[i \in a..b] ==
        IF i = a THEN <<<<ShownIn(src, i)>>>>
        ELSE IF LosesIn(src, i - 1) THEN Longer(upto[i - 1], ShownIn(src, i))
                                    ELSE Append(upto[i - 1], <<ShownIn(src, i)>>)
  IN upto[b]

\* That is what Redacted says of a chunk of this file.
LEMMA RedactedIs == \A k : Redacted(k) = RedactedOf(source, chunks[k].first, chunks[k].last)
BY Zenon DEF Redacted, RedactedOf, Longer, Shown, ShownIn, LosesEnding, LosesIn

\* The line that is added to is a line still.
LEMMA LongerTyped ==
  ASSUME NEW T, NEW lines \in Seq(Seq(T)), Len(lines) > 0, NEW t \in T
  PROVE  Longer(lines, t) \in Seq(Seq(T)) /\ Len(Longer(lines, t)) > 0
<1> DEFINE m == Len(lines)
<1>1. m \in Nat /\ m \in 1..m /\ lines[m] \in Seq(T) OBVIOUS
<1>2. Append(lines[m], t) \in Seq(T) BY <1>1, AppendProperties
<1>3. Longer(lines, t) = [n \in 1..m |-> IF n = m THEN Append(lines[m], t) ELSE lines[n]]
  <2>1. lines \in [1..m -> Seq(T)] OBVIOUS
  <2> HIDE DEF m
  <2> DEFINE t0 == Append(lines[m], t)
  <2>2. Longer(lines, t) = [lines EXCEPT ![m] = t0] BY Zenon DEF Longer, m
  <2> HIDE DEF t0
  <2>3. [lines EXCEPT ![m] = t0] = [n \in 1..m |-> IF n = m THEN t0 ELSE lines[n]] BY <1>1, <2>1
  <2> QED BY <2>2, <2>3, Zenon DEF t0
<1>4. \A n \in 1..m : lines[n] \in Seq(T) OBVIOUS
<1> HIDE DEF m
<1>5. Longer(lines, t) \in [1..m -> Seq(T)] BY <1>2, <1>3, <1>4
<1> QED BY <1>1, <1>5

\* There is a function that is the lines up to each segment.
LinesUpTo(src, a, b, T) ==
  \E f \in [a..b -> Seq(Seq(T))] :
    /\ f[a] = <<<<ShownIn(src, a)>>>>
    /\ \A i \in (a + 1)..b : ~LosesIn(src, i - 1) => f[i] = Append(f[i - 1], <<ShownIn(src, i)>>)
    /\ RedactedOf(src, a, b) = f[b]

\* There are such lines: the recursion of _redact is defined all along a chunk.
LEMMA RedactedFrom ==
  ASSUME NEW src, NEW a \in Nat, NEW b \in Nat, a <= b, NEW T, \A i \in a..b : ShownIn(src, i) \in T
  PROVE  LinesUpTo(src, a, b, T)
<1> DEFINE S == {l \in Seq(Seq(T)) : Len(l) > 0}
           value(i, l) == IF LosesIn(src, i - 1) THEN Longer(l, ShownIn(src, i)) ELSE Append(l, <<ShownIn(src, i)>>)
           is(f) == f = [i \in a..b |-> IF i = a THEN <<<<ShownIn(src, i)>>>> ELSE value(i, f[i - 1])]
           F == CHOOSE f : is(f)
           step == [n \in Nat |-> [l \in S |-> IF n \in a..b THEN value(n, l) ELSE l]]
<1>1. \A i \in a..b : \A l \in S : value(i, l) \in S
  <2> SUFFICES ASSUME NEW i \in a..b, NEW l \in S PROVE value(i, l) \in S
    OBVIOUS
  <2>1. ShownIn(src, i) \in T OBVIOUS
  <2>2. Longer(l, ShownIn(src, i)) \in S BY <2>1, LongerTyped
  <2>3. Append(l, <<ShownIn(src, i)>>) \in S BY <2>1
  <2> QED BY <2>2, <2>3
<1>2. <<<<ShownIn(src, a)>>>> \in S
  <2>1. ShownIn(src, a) \in T OBVIOUS
  <2> QED BY <2>1
<1> HIDE DEF S, value
<1>3. step \in [Nat -> [S -> S]] BY <1>1
<1>4. \A i \in (a + 1)..b, l \in S : step[i][l] = value(i, l)
  <2> SUFFICES ASSUME NEW i \in (a + 1)..b, NEW l \in S PROVE step[i][l] = value(i, l)
    OBVIOUS
  <2>1. i \in Nat /\ i \in a..b OBVIOUS
  <2> QED BY <2>1
<1> HIDE DEF step
<1>5. PICK f \in [a..b -> S] : f[a] = <<<<ShownIn(src, a)>>>> /\ \A i \in (a + 1)..b : f[i] = step[i][f[i - 1]]
  <2>1. Recursive(a, b, S, <<<<ShownIn(src, a)>>>>, step) BY <1>2, <1>3, Recursion
  <2> QED BY <2>1 DEF Recursive
<1>6. \A i \in (a + 1)..b : f[i] = value(i, f[i - 1])
  <2> SUFFICES ASSUME NEW i \in (a + 1)..b PROVE f[i] = value(i, f[i - 1])
    OBVIOUS
  <2>1. i - 1 \in a..b OBVIOUS
  <2>2. f[i - 1] \in S BY <2>1
  <2> QED BY <1>4, <1>5, <2>2
<1>7. is(f)
  <2>1. \A i \in a..b : f[i] = (IF i = a THEN <<<<ShownIn(src, i)>>>> ELSE value(i, f[i - 1]))
    <3> SUFFICES ASSUME NEW i \in a..b
                 PROVE  f[i] = (IF i = a THEN <<<<ShownIn(src, i)>>>> ELSE value(i, f[i - 1]))
      OBVIOUS
    <3>1. CASE i = a BY <1>5, <3>1
    <3>2. CASE i # a
      <4>1. i \in (a + 1)..b BY <3>2
      <4> QED BY <1>6, <3>2, <4>1
    <3> QED BY <3>1, <3>2
  <2> QED BY <2>1
<1>8. is(F) BY <1>7, Zenon
<1>9. RedactedOf(src, a, b) = F[b] BY Zenon DEF RedactedOf, value
<1> HIDE DEF F
<1>10. F[a] = <<<<ShownIn(src, a)>>>> /\ \A i \in (a + 1)..b : F[i] = value(i, F[i - 1])
  <2>1. \A i \in a..b : F[i] = (IF i = a THEN <<<<ShownIn(src, i)>>>> ELSE value(i, F[i - 1]))
    BY <1>8
  <2>2. a \in a..b /\ \A i \in (a + 1)..b : i \in a..b /\ i # a OBVIOUS
  <2> QED BY <2>1, <2>2, Zenon
<1>11. \A i \in a..b : F[i] \in S
  <2> DEFINE P == {i \in a..b : F[i] \in S}
  <2>1. a \in P BY <1>2, <1>10
  <2>2. ASSUME NEW i \in a..(b - 1), i \in P PROVE i + 1 \in P
    <3>1. i + 1 \in (a + 1)..b /\ i + 1 \in a..b /\ (i + 1) - 1 = i OBVIOUS
    <3>2. F[i + 1] = value(i + 1, F[(i + 1) - 1]) BY <1>10, <3>1, Zenon
    <3>3. F[i + 1] \in S BY <1>1, <2>2, <3>1, <3>2
    <3> QED BY <3>1, <3>3
  <2>3. a..b \subseteq P
    <3> HIDE DEF P
    <3> QED BY <2>1, <2>2, Upward
  <2> QED BY <2>3
<1>12. F \in [a..b -> Seq(Seq(T))]
  <2>1. PICK r : F = [i \in a..b |-> r[i]]
    <3>1. F = [i \in a..b |-> [j \in a..b |-> IF j = a THEN <<<<ShownIn(src, j)>>>> ELSE value(j, F[j - 1])][i]]
      BY <1>8, Zenon
    <3> QED BY <3>1, Zenon
  <2>2. \A i \in a..b : r[i] \in S BY <1>11, <2>1
  <2>3. S \subseteq Seq(Seq(T)) BY DEF S
  <2> QED BY <2>1, <2>2, <2>3
<1>13. \A i \in (a + 1)..b : ~LosesIn(src, i - 1) => F[i] = Append(F[i - 1], <<ShownIn(src, i)>>)
  BY <1>10, Zenon DEF value
<1> QED BY <1>9, <1>10, <1>12, <1>13, Zenon DEF LinesUpTo

\* Each segment is a line of its own unless one loses its ending.
OneEachLine(src, a, b) ==
  RedactedOf(src, a, b) = [n \in 1..(b - a + 1) |-> <<ShownIn(src, a + n - 1)>>]

\* What _redact makes of a chunk: lines, and the lines it had unless one loses its ending.
LEMMA RedactedWhole ==
  ASSUME NEW src, NEW a \in Nat, NEW b \in Nat, a <= b, NEW T, \A i \in a..b : ShownIn(src, i) \in T
  PROVE  /\ RedactedOf(src, a, b) \in Seq(Seq(T))
         /\ (\A i \in a..b : ~LosesIn(src, i)) => OneEachLine(src, a, b)
<1> DEFINE upto(i) == [n \in 1..(i - a + 1) |-> <<ShownIn(src, a + n - 1)>>]
<1>1. PICK f \in [a..b -> Seq(Seq(T))] :
        /\ f[a] = <<<<ShownIn(src, a)>>>>
        /\ \A i \in (a + 1)..b : ~LosesIn(src, i - 1) => f[i] = Append(f[i - 1], <<ShownIn(src, i)>>)
        /\ RedactedOf(src, a, b) = f[b]
  <2>1. LinesUpTo(src, a, b, T) BY RedactedFrom
  <2> QED BY <2>1, Zenon DEF LinesUpTo
<1>2. b \in a..b /\ f[b] \in Seq(Seq(T)) OBVIOUS
<1>3. ASSUME \A i \in a..b : ~LosesIn(src, i) PROVE f[b] = upto(b)
  <2> DEFINE P == {i \in a..b : f[i] = upto(i)}
  <2>1. a \in P
    <3>1. a - a + 1 = 1 /\ a + 1 - 1 = a OBVIOUS
    <3>2. upto(a) = [n \in 1..1 |-> <<ShownIn(src, a)>>] BY <3>1
    <3>3. upto(a) = <<<<ShownIn(src, a)>>>> BY <3>2
    <3> QED BY <1>1, <3>3
  <2>2. ASSUME NEW i \in a..(b - 1), i \in P PROVE i + 1 \in P
    <3>1. i + 1 \in (a + 1)..b /\ i + 1 \in a..b /\ (i + 1) - 1 = i /\ i \in a..b OBVIOUS
    <3>2. f[i + 1] = Append(upto(i), <<ShownIn(src, i + 1)>>) BY <1>1, <1>3, <2>2, <3>1
    <3>3. Append(upto(i), <<ShownIn(src, i + 1)>>) = upto(i + 1)
      <4> DEFINE k == i - a + 1
                 e(n) == <<ShownIn(src, a + n - 1)>>
      <4>1. k \in Nat /\ (i + 1) - a + 1 = k + 1 /\ a + (k + 1) - 1 = i + 1 OBVIOUS
      <4>2. e(k + 1) = <<ShownIn(src, i + 1)>> BY <4>1
      <4>3. upto(i) = [n \in 1..k |-> e(n)] /\ upto(i + 1) = [n \in 1..(k + 1) |-> e(n)] BY <4>1
      <4> HIDE DEF k, e, upto
      <4>4. Append([n \in 1..k |-> e(n)], e(k + 1)) = [n \in 1..(k + 1) |-> e(n)] BY <4>1
      <4> QED BY <4>2, <4>3, <4>4
    <3> QED BY <3>1, <3>2, <3>3
  <2>3. a..b \subseteq P
    <3> HIDE DEF P
    <3> QED BY <2>1, <2>2, Upward
  <2> QED BY <1>2, <2>3
<1>4. f[b] = upto(b) => OneEachLine(src, a, b) BY <1>1, Zenon DEF OneEachLine
<1> QED BY <1>1, <1>2, <1>3, <1>4

\* Lines go up in a file.
LEMMA LinesGrow ==
  ASSUME NEW src \in Seq(Segment), WellCut(src), NEW i \in 1..Len(src), NEW j \in i..Len(src)
  PROVE  src[i].line <= src[j].line
<1> DEFINE m == Len(src)
           P == {n \in i..m : src[i].line <= src[n].line}
<1>0. m \in Nat OBVIOUS
<1>1. \A n \in 1..m : src[n].line \in Nat BY ChunkerAssumption
<1>2. \A n \in 1..(m - 1) : src[n + 1].line >= src[n].line BY <1>1 DEF WellCut
<1> HIDE DEF m
<1>3. i \in Nat /\ i \in P BY <1>0, <1>1 DEF m
<1>4. ASSUME NEW n \in i..(m - 1), n \in P PROVE n + 1 \in P
  <2>1. n \in 1..(m - 1) /\ n + 1 \in i..m /\ n \in 1..m /\ n + 1 \in 1..m /\ i \in 1..m BY <1>0 DEF m
  <2>2. src[i].line \in Nat /\ src[n].line \in Nat /\ src[n + 1].line \in Nat BY <1>1, <2>1
  <2>3. src[i].line <= src[n].line /\ src[n].line <= src[n + 1].line BY <1>2, <1>4, <2>1, <2>2
  <2>4. src[i].line <= src[n + 1].line BY <2>2, <2>3
  <2> QED BY <2>1, <2>4
<1>5. i..m \subseteq P
  <2> HIDE DEF P
  <2> QED BY <1>0, <1>3, <1>4, Upward
<1> QED BY <1>5 DEF m

\* The text of the lines of a file, and that of some of its segments.
Pieces(src, l) == [n \in DOMAIN src |-> IF src[n].line = l THEN <<src[n].text>> ELSE <<>>]
FileTextOf(src, start, stop) ==
  Joined([n \in 1..(stop - start + 1) |-> FlattenSeq(Pieces(src, start + n - 1))])
Texts(src, a, b) == [n \in 1..(b - a + 1) |-> <<src[a + n - 1].text>>]

\* That is what FileText says of this file.
LEMMA FileTextIs == \A start, stop : FileText(start, stop) = FileTextOf(source, start, stop)
BY Zenon DEF FileText, FileTextOf, Pieces

\* The line a segment is on is its text, with what is before it only if it begins the
\* range, and what is after it only if it ends the range.
OnItsLine(src, a, b, i, T) ==
  \E x \in Seq(T), y \in Seq(T) :
    /\ FlattenSeq(Pieces(src, src[i].line)) = (x \o <<src[i].text>>) \o y
    /\ (i > a => x = <<>>) /\ (i < b => y = <<>>)

\* So it is for the segments of a chunk, which are on consecutive lines.
LEMMA LineHolds ==
  ASSUME NEW src \in Seq(Segment), WellCut(src), NEW T, \A i \in 1..Len(src) : src[i].text \in T,
         NEW a \in 1..Len(src), NEW b \in a..Len(src),
         \A i \in a..b : src[i].line = src[a].line + (i - a),
         NEW i \in a..b
  PROVE  OnItsLine(src, a, b, i, T)
<1> DEFINE s == Pieces(src, src[i].line)
           m == Len(src)
<1>0. m \in Nat /\ i \in 1..m /\ DOMAIN src = 1..m OBVIOUS
<1>1. s \in Seq(Seq(T)) /\ Len(s) = m
  <2>1. \A n \in 1..m : (IF src[n].line = src[i].line THEN <<src[n].text>> ELSE <<>>) \in Seq(T)
    <3> SUFFICES ASSUME NEW n \in 1..m
                 PROVE  (IF src[n].line = src[i].line THEN <<src[n].text>> ELSE <<>>) \in Seq(T)
      OBVIOUS
    <3>1. src[n].text \in T OBVIOUS
    <3>2. <<src[n].text>> \in Seq(T) /\ <<>> \in Seq(T) BY <3>1
    <3> QED BY <3>2
  <2>2. s \in [1..m -> Seq(T)] BY <1>0, <2>1 DEF Pieces
  <2> HIDE DEF s
  <2> QED BY <1>0, <2>2
<1>2. s[i] = <<src[i].text>> BY <1>0 DEF Pieces
<1>3. \A n \in 1..m : src[n].line \in Nat BY ChunkerAssumption
<1>4. ASSUME i > a PROVE \A j \in 1..(i - 1) : s[j] = <<>>
  <2> SUFFICES ASSUME NEW j \in 1..(i - 1) PROVE s[j] = <<>>
    OBVIOUS
  <2>1. i - 1 \in a..b /\ i - 1 \in 1..m /\ j \in 1..m /\ i - 1 \in j..m BY <1>0, <1>4
  <2>2. src[j].line <= src[i - 1].line BY <2>1, LinesGrow
  <2>3. src[i].line = src[a].line + (i - a) /\ src[i - 1].line = src[a].line + ((i - 1) - a) BY <2>1
  <2>4. src[j].line # src[i].line BY <1>0, <1>3, <2>1, <2>2, <2>3
  <2> QED BY <1>0, <2>1, <2>4 DEF Pieces
<1>5. ASSUME i < b PROVE \A j \in (i + 1)..m : s[j] = <<>>
  <2> SUFFICES ASSUME NEW j \in (i + 1)..m PROVE s[j] = <<>>
    OBVIOUS
  <2>1. i + 1 \in a..b /\ i + 1 \in 1..m /\ j \in 1..m /\ j \in (i + 1)..m BY <1>0, <1>5
  <2>2. src[i + 1].line <= src[j].line BY <2>1, LinesGrow
  <2>3. src[i].line = src[a].line + (i - a) /\ src[i + 1].line = src[a].line + ((i + 1) - a) BY <2>1
  <2>4. src[j].line # src[i].line BY <1>0, <1>3, <2>1, <2>2, <2>3
  <2> QED BY <1>0, <2>1, <2>4 DEF Pieces
<1> HIDE DEF s, m
<1>6. PICK x \in Seq(T), y \in Seq(T) : Around(T, s, i, m, FlattenSeq(s), x, y)
  <2>1. i \in 1..Len(s) BY <1>0, <1>1
  <2>2. \E x \in Seq(T), y \in Seq(T) : Around(T, s, i, Len(s), FlattenSeq(s), x, y) BY <1>1, <2>1, Placed
  <2> QED BY <1>1, <2>2
<1>7. FlattenSeq(s) = (x \o <<src[i].text>>) \o y /\ (i > a => x = <<>>) /\ (i < b => y = <<>>)
  BY <1>2, <1>4, <1>5, <1>6, Zenon DEF Around
<1> QED BY <1>7, Zenon DEF s, OnItsLine

\* What _validate finds in the lines of a chunk is on those lines of the file.
LEMMA Quoted ==
  ASSUME NEW src \in Seq(Segment), WellCut(src), NEW T, "nl" \in T, \A i \in 1..Len(src) : src[i].text \in T,
         NEW a \in 1..Len(src), NEW b \in a..Len(src),
         \A i \in a..b : src[i].line = src[a].line + (i - a),
         NEW c \in SubSeqs(Joined(Texts(src, a, b)))
  PROVE  c \in SubSeqs(FileTextOf(src, src[a].line, src[b].line))
<1> DEFINE m == b - a + 1
           p == Texts(src, a, b)
           line(n) == FlattenSeq(Pieces(src, src[a].line + n - 1))
           q == [n \in 1..m |-> line(n)]
<1>0. m \in Nat \ {0} /\ a \in Nat /\ b \in Nat /\ Len(src) \in Nat OBVIOUS
<1>1. src[a].line \in Nat /\ src[b].line - src[a].line + 1 = m
  <2>1. \A n \in 1..Len(src) : src[n].line \in Nat BY ChunkerAssumption
  <2>2. a \in 1..Len(src) /\ src[b].line = src[a].line + (b - a) OBVIOUS
  <2>3. src[a].line \in Nat BY <2>1, <2>2
  <2> QED BY <2>2, <2>3
<1>2. FileTextOf(src, src[a].line, src[b].line) = Joined(q) BY <1>1, Zenon DEF FileTextOf
<1>3. \A n \in 1..m : p[n] = <<src[a + n - 1].text>> /\ p[n] \in Seq(T)
  <2> SUFFICES ASSUME NEW n \in 1..m PROVE p[n] = <<src[a + n - 1].text>> /\ p[n] \in Seq(T)
    OBVIOUS
  <2>1. a + n - 1 \in 1..Len(src) BY <1>0
  <2>2. p[n] = <<src[a + n - 1].text>> BY <1>0 DEF Texts
  <2>3. src[a + n - 1].text \in T BY <2>1
  <2> QED BY <2>2, <2>3
<1>4. \A n \in 1..m : \E x \in Seq(T), y \in Seq(T) :
        line(n) = (x \o p[n]) \o y /\ (n > 1 => x = <<>>) /\ (n < m => y = <<>>)
  <2> SUFFICES ASSUME NEW n \in 1..m
               PROVE  \E x \in Seq(T), y \in Seq(T) :
                        line(n) = (x \o p[n]) \o y /\ (n > 1 => x = <<>>) /\ (n < m => y = <<>>)
    OBVIOUS
  <2> DEFINE i == a + n - 1
  <2>1. i \in a..b /\ (n > 1 => i > a) /\ (n < m => i < b) BY <1>0
  <2>2. src[i].line = src[a].line + n - 1
    <3>1. src[i].line = src[a].line + (i - a) BY <2>1
    <3> QED BY <1>0, <1>1, <3>1
  <2>3. p[n] = <<src[i].text>> BY <1>3
  <2> HIDE DEF i, p, m
  <2>4. PICK x \in Seq(T), y \in Seq(T) :
          /\ FlattenSeq(Pieces(src, src[i].line)) = (x \o <<src[i].text>>) \o y
          /\ (i > a => x = <<>>) /\ (i < b => y = <<>>)
    <3>1. OnItsLine(src, a, b, i, T) BY <2>1, LineHolds
    <3> QED BY <3>1, Zenon DEF OnItsLine
  <2>5. line(n) = (x \o p[n]) \o y /\ (n > 1 => x = <<>>) /\ (n < m => y = <<>>)
    BY <2>1, <2>2, <2>3, <2>4
  <2> QED BY <2>5
<1> HIDE DEF line, p, m
<1>5. Joins(T) /\ Empties(T) BY Joining
<1>6. \A n \in 1..m : line(n) \in Seq(T)
  <2> SUFFICES ASSUME NEW n \in 1..m PROVE line(n) \in Seq(T)
    OBVIOUS
  <2>1. PICK x \in Seq(T), y \in Seq(T) : line(n) = (x \o p[n]) \o y BY <1>4
  <2>2. p[n] \in Seq(T) BY <1>3
  <2>3. x \o p[n] \in Seq(T) BY <1>5, <2>2, Zenon DEF Joins
  <2>4. (x \o p[n]) \o y \in Seq(T) BY <1>5, <2>3, Zenon DEF Joins
  <2> QED BY <2>1, <2>4
<1>7. p \in Seq(Seq(T)) /\ Len(p) = m /\ q \in Seq(Seq(T)) /\ Len(q) = m
  <2>1. p \in [1..m -> Seq(T)] BY <1>3 DEF p, Texts, m
  <2>2. q \in [1..m -> Seq(T)] BY <1>6
  <2> HIDE DEF q
  <2> QED BY <1>0, <2>1, <2>2
<1>8. 1 \in 1..m /\ m \in 1..m BY <1>0
<1>9. \A n \in 2..(m - 1) : q[n] = p[n]
  <2> SUFFICES ASSUME NEW n \in 2..(m - 1) PROVE q[n] = p[n]
    OBVIOUS
  <2>1. n \in 1..m /\ n > 1 /\ n < m BY <1>0
  <2>2. PICK x \in Seq(T), y \in Seq(T) : line(n) = (x \o p[n]) \o y /\ x = <<>> /\ y = <<>>
    BY <1>4, <2>1, Zenon
  <2>3. p[n] \in Seq(T) BY <1>3, <2>1
  <2>4. line(n) = p[n] BY <1>5, <2>2, <2>3, Zenon DEF Empties
  <2> QED BY <2>1, <2>4
<1>10. q[1] = line(1) /\ q[m] = line(m) BY <1>8
<1> HIDE DEF q
<1>11. \E x \in Seq(T), y \in Seq(T) : Frames(m, p, q, x, y)
  <2>1. CASE m = 1
    <3>1. PICK x \in Seq(T), y \in Seq(T) : line(1) = (x \o p[1]) \o y BY <1>4, <1>8, Zenon
    <3>2. q[1] = (x \o p[1]) \o y BY <1>10, <3>1, Zenon
    <3>3. ~(m > 1) BY <2>1
    <3>4. Frames(m, p, q, x, y) BY <1>9, <3>2, <3>3, Zenon DEF Frames
    <3> QED BY <3>4
  <2>2. CASE m > 1
    <3>0. 1 < m /\ m # 1 BY <2>2
    <3>1. PICK x \in Seq(T), z \in Seq(T) : line(1) = (x \o p[1]) \o z /\ z = <<>>
      BY <1>4, <1>8, <3>0, Zenon
    <3>2. PICK w \in Seq(T), y \in Seq(T) : line(m) = (w \o p[m]) \o y /\ w = <<>>
      BY <1>4, <1>8, <2>2, Zenon
    <3>3. p[1] \in Seq(T) /\ p[m] \in Seq(T) BY <1>3, <1>8
    <3>4. x \o p[1] \in Seq(T) BY <1>5, <3>3, Zenon DEF Joins
    <3>5. line(1) = x \o p[1] BY <1>5, <3>1, <3>4, Zenon DEF Empties
    <3>6. line(m) = p[m] \o y BY <1>5, <3>2, <3>3, Zenon DEF Empties
    <3>7. Frames(m, p, q, x, y) BY <1>9, <1>10, <3>0, <3>5, <3>6, Zenon DEF Frames
    <3> QED BY <3>7
  <2> QED BY <1>0, <2>1, <2>2
<1>12. PICK x \in Seq(T), y \in Seq(T) : Frames(m, p, q, x, y) BY <1>11
<1>15. Joined(p) \in Seq(T) /\ Joined(q) = (x \o Joined(p)) \o y BY <1>0, <1>7, <1>12, Framed
<1>13. c \in SubSeqs(Joined(p)) BY DEF p
<1>14. c \in SubSeqs((x \o Joined(p)) \o y) BY <1>13, <1>15, Middle
<1> QED BY <1>2, <1>14, <1>15

\* A range of lines is what SubSeq says.
LEMMA Cuts ==
  ASSUME NEW S, NEW s \in Seq(S), NEW i \in 1..(Len(s) + 1), NEW j \in 0..Len(s), i <= j + 1
  PROVE  /\ SubSeq(s, i, j) \in Seq(S) /\ Len(SubSeq(s, i, j)) = j - i + 1
         /\ \A n \in 1..(j - i + 1) : SubSeq(s, i, j)[n] = s[i + n - 1]
<1>1. i \in Int /\ j \in Int /\ \A n \in i..j : s[n] \in S OBVIOUS
<1> QED BY <1>1, SubSeqProperties

\* Some lines are lines, and joined they are a text.
LEMMA LinesTyped ==
  ASSUME NEW S, NEW lines \in Seq(S), NEW i \in Nat \ {0}, NEW j \in Nat
  PROVE  Lines(lines, i, j) \in Seq(S)
<1> DEFINE k == IF j <= Len(lines) THEN j ELSE Len(lines)
<1>1. Len(lines) \in Nat /\ k \in Nat /\ k <= Len(lines) OBVIOUS
<1>2. i \in Int /\ k \in Int /\ \A n \in i..k : lines[n] \in S BY <1>1
<1>3. SubSeq(lines, i, k) \in Seq(S)
  <2> HIDE DEF k
  <2> QED BY <1>2, SubSeqProperties
<1> QED BY <1>3, Zenon DEF Lines

\* A text is made of what its lines are, and of "nl".
LEMMA JoinedTyped ==
  ASSUME NEW T, "nl" \in T, NEW lines \in Seq(Seq(T))
  PROVE  /\ Joined(lines) \in Seq(T)
         /\ \A j \in 1..Len(lines), t \in T : lines[j] = <<t>> => t \in Range(Joined(lines))
<1>1. \A n \in 1..Len(lines) : lines[n] \in Seq(T) /\ Append(lines[n], "nl") \in Seq(T)
  <2> SUFFICES ASSUME NEW n \in 1..Len(lines) PROVE lines[n] \in Seq(T) /\ Append(lines[n], "nl") \in Seq(T)
    OBVIOUS
  <2>1. lines[n] \in Seq(T) OBVIOUS
  <2> QED BY <2>1
<1>2. Ended(lines) \in Seq(Seq(T)) /\ Len(Ended(lines)) = Len(lines) BY <1>1 DEF Ended
<1>3. Joined(lines) = FlattenSeq(Ended(lines)) BY DEF Joined, Ended
<1>4. ASSUME NEW j \in 1..Len(lines), NEW t \in T, lines[j] = <<t>> PROVE t \in Range(Joined(lines))
  <2>1. Range(Ended(lines)[j]) \subseteq Range(FlattenSeq(Ended(lines))) BY <1>2, HoldsAll
  <2>2. t \in Range(Ended(lines)[j])
    <3>1. Ended(lines)[j] = Append(<<t>>, "nl") \/ Ended(lines)[j] = <<t>> BY <1>4 DEF Ended
    <3>2. t \in Range(<<t>>) BY DEF Range
    <3>3. t \in Range(Append(<<t>>, "nl")) BY DEF Range
    <3> QED BY <3>1, <3>2, <3>3
  <2> QED BY <1>3, <2>1, <2>2
<1> QED BY <1>2, <1>3, <1>4, FlatTyped

\* Segments that are one chunk of a file.
ChunkOf(src, a, b) ==
  /\ a \in 1..Len(src) /\ b \in a..Len(src)
  /\ \A i \in a..b : src[i].line = src[a].line + (i - a)

\* What a text of the file may consist of.
Tokens(src) == {"nl", "REDACTED"} \cup {src[i].text : i \in 1..Len(src)}

\* What a segment is shown as is a token, and never "secret".
LEMMA TokensShown ==
  ASSUME NEW src, NEW a, NEW b, ChunkOf(src, a, b), Len(src) \in Nat
  PROVE  \A i \in a..b : ShownIn(src, i) \in Tokens(src) \ {"secret"}
BY DEF ChunkOf, Tokens, ShownIn

\* Lines of a chunk are lines of its file.
LEMMA TextsCut ==
  ASSUME NEW src \in Seq(Segment), NEW a, NEW b, ChunkOf(src, a, b),
         NEW d \in 0..(b - a), NEW e \in d..(b - a)
  PROVE  Lines(Texts(src, a, b), d + 1, e + 1) = Texts(src, a + d, a + e)
<1> DEFINE T == Tokens(src)
           s == Texts(src, a, b)
           m == b - a + 1
           r == Texts(src, a + d, a + e)
<1>0. a \in Nat /\ b \in Nat /\ m \in Nat /\ d \in Nat /\ e \in Nat /\ a >= 1 /\ b <= Len(src) /\ Len(src) \in Nat
  BY DEF ChunkOf
<1>1. \A i \in 1..Len(src) : src[i].text \in T BY DEF Tokens
<1> HIDE DEF T
<1>2. \A n \in 1..m : <<src[a + n - 1].text>> \in Seq(T)
  <2> SUFFICES ASSUME NEW n \in 1..m PROVE <<src[a + n - 1].text>> \in Seq(T)
    OBVIOUS
  <2>1. a + n - 1 \in 1..Len(src) BY <1>0
  <2>2. src[a + n - 1].text \in T BY <1>1, <2>1
  <2> QED BY <2>2
<1>3. s \in Seq(Seq(T)) /\ Len(s) = m /\ \A n \in 1..m : s[n] = <<src[a + n - 1].text>>
  BY <1>0, <1>2 DEF Texts
<1>4. \A n \in 1..(e - d + 1) : r[n] = s[(d + 1) + n - 1] /\ s[(d + 1) + n - 1] \in Seq(T)
  <2> SUFFICES ASSUME NEW n \in 1..(e - d + 1)
               PROVE  r[n] = s[(d + 1) + n - 1] /\ s[(d + 1) + n - 1] \in Seq(T)
    OBVIOUS
  <2>1. (d + 1) + n - 1 \in 1..m /\ (a + d) + n - 1 = a + ((d + 1) + n - 1) - 1 /\ (a + e) - (a + d) + 1 = e - d + 1
    BY <1>0
  <2>2. r[n] = <<src[(a + d) + n - 1].text>> BY <2>1 DEF Texts
  <2> HIDE DEF s, r
  <2> QED BY <1>2, <1>3, <2>1, <2>2
<1>5. r \in Seq(Seq(T)) /\ Len(r) = e - d + 1
  <2>1. (a + e) - (a + d) + 1 = e - d + 1 /\ e - d + 1 \in Nat BY <1>0
  <2>2. r = [n \in 1..(e - d + 1) |-> <<src[(a + d) + n - 1].text>>] BY <2>1 DEF Texts
  <2>3. r \in [1..(e - d + 1) -> Seq(T)]
    <3>1. \A n \in 1..(e - d + 1) : r[n] \in Seq(T) BY <1>4
    <3> QED BY <2>2, <3>1
  <2> HIDE DEF r
  <2> QED BY <2>1, <2>3
<1> HIDE DEF s, r, m
<1>6. Lines(s, d + 1, e + 1) = SubSeq(s, d + 1, e + 1)
  <2>1. e + 1 <= Len(s) BY <1>0, <1>3 DEF m
  <2> QED BY <2>1, Zenon DEF Lines
<1>7. /\ SubSeq(s, d + 1, e + 1) \in Seq(Seq(T)) /\ Len(SubSeq(s, d + 1, e + 1)) = (e + 1) - (d + 1) + 1
      /\ \A n \in 1..((e + 1) - (d + 1) + 1) : SubSeq(s, d + 1, e + 1)[n] = s[(d + 1) + n - 1]
  <2>1. d + 1 \in 1..(Len(s) + 1) /\ e + 1 \in 0..Len(s) /\ d + 1 <= (e + 1) + 1 BY <1>0, <1>3 DEF m
  <2> QED BY <1>3, <2>1, Cuts
<1>8. (e + 1) - (d + 1) + 1 = e - d + 1 BY <1>0
<1>9. SubSeq(s, d + 1, e + 1) = r
  <2> DEFINE u == SubSeq(s, d + 1, e + 1)
  <2>1. u \in Seq(Seq(T)) /\ Len(u) = Len(r) BY <1>5, <1>7, <1>8
  <2>2. \A n \in 1..Len(u) : u[n] = r[n] BY <1>4, <1>7, <1>8
  <2> HIDE DEF u
  <2>3. u = r BY <1>5, <2>1, <2>2, SeqEqual
  <2> QED BY <2>3 DEF u
<1> QED BY <1>6, <1>9 DEF s, r

\* A quotation that is true: it is on its lines of the file and hides nothing.
TrueOf(src, c) ==
  /\ c.quote \in SubSeqs(FileTextOf(src, c.start, c.stop))
  /\ ~Blank(c.quote) /\ "secret" \notin Range(c.quote)

\* _validate: what it accepts is true.
LEMMA VerifiedIsTrue ==
  ASSUME source \in Seq(Segment), WellCut(source), NEW c, Verified(c), c.start \in Nat, c.stop \in Nat,
         ChunkOf(source, chunks[c.id].first, chunks[c.id].last)
  PROVE  TrueOf(source, c)
<1> DEFINE src == source
           a == chunks[c.id].first
           b == chunks[c.id].last
           d == c.start - First(c.id)
           e == c.stop - First(c.id)
           R == RedactedOf(src, a, b)
           O == Texts(src, a, b)
           T == Tokens(src)
           C == T \ {"secret"}
<1>1. /\ a \in Nat /\ b \in Nat /\ a >= 1 /\ a <= b /\ b <= Len(src) /\ Len(src) \in Nat
      /\ a \in 1..Len(src) /\ b \in a..Len(src) /\ b \in 1..Len(src) /\ b \in a..b
  BY DEF ChunkOf
<1>2. First(c.id) = src[a].line /\ Final(c.id) = src[b].line BY Zenon DEF First, Final
<1>3. src[a].line \in Nat /\ src[b].line = src[a].line + (b - a)
  <2>1. \A n \in 1..Len(src) : src[n].line \in Nat BY ChunkerAssumption
  <2> QED BY <1>1, <2>1 DEF ChunkOf
<1>4. First(c.id) <= c.start /\ c.start <= c.stop /\ c.stop <= Final(c.id) BY Zenon DEF Verified
<1>5. d \in 0..(b - a) /\ e \in d..(b - a) /\ c.start = src[a].line + d /\ c.stop = src[a].line + e
  <2> HIDE DEF a, b
  <2>1. \A F, G, k, u, v \in Nat : G = F + k /\ F <= u /\ u <= v /\ v <= G =>
          u - F \in 0..k /\ v - F \in (u - F)..k /\ u = F + (u - F) /\ v = F + (v - F)
    OBVIOUS
  <2>2. b - a \in Nat BY <1>1
  <2>3. src[b].line \in Nat BY <1>2, <1>3, <2>2
  <2> QED BY <1>2, <1>3, <1>4, <2>1, <2>2, <2>3
<1>6. /\ c.quote \in SubSeqs(Joined(Lines(R, d + 1, e + 1)))
      /\ c.quote \in SubSeqs(Joined(Lines(O, d + 1, e + 1)))
      /\ ~Blank(c.quote)
  <2>1. Redacted(c.id) = R BY RedactedIs, Zenon
  <2>2. Original(c.id) = O BY Zenon DEF Original, Texts
  <2> HIDE DEF R, O
  <2>3. /\ c.quote \in SubSeqs(Joined(Lines(Redacted(c.id), d + 1, e + 1)))
        /\ c.quote \in SubSeqs(Joined(Lines(Original(c.id), d + 1, e + 1)))
        /\ ~Blank(c.quote)
    BY Zenon DEF Verified
  <2> QED BY <2>1, <2>2, <2>3
<1> HIDE DEF d, e
<1>7. "nl" \in T /\ "nl" \in C /\ \A i \in 1..Len(src) : src[i].text \in T BY DEF Tokens
<1>10. \A i \in a..b : src[i].line = src[a].line + (i - a) BY DEF ChunkOf
<1>11. ChunkOf(src, a, b) OBVIOUS
<1>12. R \in Seq(Seq(C))
  <2>1. \A i \in a..b : ShownIn(src, i) \in C BY <1>1, TokensShown
  <2> HIDE DEF C, a, b
  <2> QED BY <1>1, <2>1, RedactedWhole
<1> HIDE DEF a, b
<1>8. c.quote \in SubSeqs(FileTextOf(src, c.start, c.stop))
  <2>1. Lines(O, d + 1, e + 1) = Texts(src, a + d, a + e) BY <1>5, <1>11, TextsCut
  <2>2. a + d \in 1..Len(src) /\ a + e \in (a + d)..Len(src) /\ a + d \in a..b /\ a + e \in a..b
    BY <1>1, <1>5
  <2>3. src[a + d].line = c.start /\ src[a + e].line = c.stop
    <3>1. src[a + d].line = src[a].line + ((a + d) - a) /\ src[a + e].line = src[a].line + ((a + e) - a)
      BY <1>10, <2>2
    <3> QED BY <1>1, <1>3, <1>5, <3>1
  <2>4. \A i \in (a + d)..(a + e) : src[i].line = src[a + d].line + (i - (a + d))
    <3> SUFFICES ASSUME NEW i \in (a + d)..(a + e) PROVE src[i].line = src[a + d].line + (i - (a + d))
      OBVIOUS
    <3>1. i \in a..b BY <1>1, <1>5
    <3>2. src[i].line = src[a].line + (i - a) BY <1>10, <3>1
    <3> QED BY <1>1, <1>3, <1>5, <2>3, <3>2
  <2>5. c.quote \in SubSeqs(Joined(Texts(src, a + d, a + e))) BY <1>6, <2>1
  <2> HIDE DEF T
  <2>6. c.quote \in SubSeqs(FileTextOf(src, src[a + d].line, src[a + e].line))
    <3> DEFINE f == a + d
               g == a + e
    <3>1. f \in 1..Len(src) /\ g \in f..Len(src) BY <2>2
    <3>2. \A i \in f..g : src[i].line = src[f].line + (i - f) BY <2>4
    <3>3. c.quote \in SubSeqs(Joined(Texts(src, f, g))) BY <2>5
    <3> HIDE DEF f, g
    <3>4. c.quote \in SubSeqs(FileTextOf(src, src[f].line, src[g].line))
      BY <1>7, <3>1, <3>2, <3>3, Quoted
    <3> QED BY <3>4 DEF f, g
  <2> QED BY <2>3, <2>6
<1>9. "secret" \notin Range(c.quote)
  <2>3. d + 1 \in Nat \ {0} /\ e + 1 \in Nat BY <1>1, <1>5
  <2> HIDE DEF R, C
  <2>4. Lines(R, d + 1, e + 1) \in Seq(Seq(C)) BY <1>12, <2>3, LinesTyped
  <2>5. Joined(Lines(R, d + 1, e + 1)) \in Seq(C) BY <1>7, <2>4, JoinedTyped
  <2>6. Range(c.quote) \subseteq C BY <1>6, <2>5, PartOf
  <2> QED BY <2>6 DEF C
<1> QED BY <1>6, <1>8, <1>9, Zenon DEF TrueOf

\* A file with a redacted line that loses its ending.
Losing(src) == \E i \in 1..Len(src) : LosesIn(src, i)

\* A passage that begins n lines into a chunk.
PassageAt(src, a, b, n, c) ==
  LET R == RedactedOf(src, a, b)
      L == Lines(R, n + 1, n + PassageLines)
  IN /\ n < Len(R)
     /\ c.start = src[a].line + n /\ c.stop = src[a].line + n + Len(L) - 1
     /\ c.quote = Joined(L) /\ ~Blank(c.quote) /\ "REDACTED" \notin Range(c.quote)

\* A passage of the chunk that has the segments a to b.
PassageOf(src, a, b, c) == \E n \in Nat : PassageAt(src, a, b, n, c)

\* So are those that the server offers.
LEMMA PassagesAre ==
  ASSUME NEW c \in Passages
  PROVE  c.id \in context /\ PassageOf(source, chunks[c.id].first, chunks[c.id].last, c)
<1> DEFINE cut(k, n) ==
             LET lines == Lines(Redacted(k), n + 1, n + PassageLines)
             IN [id |-> k, start |-> First(k) + n, stop |-> First(k) + n + Len(lines) - 1,
                 quote |-> Joined(lines)]
           starts(k) == {o \in 0..(Len(Redacted(k)) - 1) : o % PassageLines = 0}
<1>1. c \in UNION {{cut(k, n) : n \in starts(k)} : k \in context} /\ ~Blank(c.quote) /\ "REDACTED" \notin Range(c.quote)
  BY Zenon DEF Passages
<1> HIDE DEF cut, starts
<1>8. PICK k \in context : \E n \in starts(k) : c = cut(k, n) BY <1>1
<1>2. PICK n \in starts(k) : c = cut(k, n) BY <1>8
<1>3. n \in Nat /\ n < Len(Redacted(k))
  <2>1. n \in 0..(Len(Redacted(k)) - 1) BY DEF starts
  <2> QED BY <2>1
<1>4. /\ c.id = k /\ c.start = First(k) + n
      /\ c.stop = First(k) + n + Len(Lines(Redacted(k), n + 1, n + PassageLines)) - 1
      /\ c.quote = Joined(Lines(Redacted(k), n + 1, n + PassageLines))
  BY <1>2 DEF cut
<1>5. Redacted(k) = RedactedOf(source, chunks[k].first, chunks[k].last) BY RedactedIs, Zenon
<1>6. First(k) = source[chunks[k].first].line BY DEF First
<1>7. PassageAt(source, chunks[k].first, chunks[k].last, n, c)
  BY <1>1, <1>3, <1>4, <1>5, <1>6, Zenon DEF PassageAt
<1> QED BY <1>3, <1>4, <1>7 DEF PassageOf

\* _validate: what the server attaches to a selection it accepts, unless a line has lost its
\* ending.
LEMMA SelectedIsVerified ==
  ASSUME source \in Seq(Segment), WellCut(source), NEW c, c.id \in context,
         ChunkOf(source, chunks[c.id].first, chunks[c.id].last),
         PassageOf(source, chunks[c.id].first, chunks[c.id].last, c), ~Losing(source)
  PROVE  Verified(c)
<1> DEFINE src == source
           a == chunks[c.id].first
           b == chunks[c.id].last
           R == RedactedOf(src, a, b)
           O == Texts(src, a, b)
           T == Tokens(src)
           m == b - a + 1
<1>1. /\ a \in Nat /\ b \in Nat /\ a >= 1 /\ a <= b /\ b <= Len(src) /\ Len(src) \in Nat
      /\ a \in 1..Len(src) /\ b \in a..Len(src) /\ b \in 1..Len(src) /\ b \in a..b
  BY DEF ChunkOf
<1>2. First(c.id) = src[a].line /\ Final(c.id) = src[b].line BY Zenon DEF First, Final
<1>3. src[a].line \in Nat /\ src[b].line = src[a].line + (b - a)
  <2>1. \A n \in 1..Len(src) : src[n].line \in Nat BY ChunkerAssumption
  <2> QED BY <1>1, <2>1 DEF ChunkOf
<1>4. PICK n \in Nat : PassageAt(src, a, b, n, c) BY Zenon DEF PassageOf
<1> DEFINE L == Lines(R, n + 1, n + PassageLines)
<1>5. /\ n < Len(R)
      /\ c.start = src[a].line + n /\ c.stop = src[a].line + n + Len(L) - 1
      /\ c.quote = Joined(L) /\ ~Blank(c.quote) /\ "REDACTED" \notin Range(c.quote)
  BY <1>4, Zenon DEF PassageAt
<1>6. Redacted(c.id) = R /\ Original(c.id) = O
  <2>1. Redacted(c.id) = R BY RedactedIs, Zenon
  <2>2. Original(c.id) = O BY Zenon DEF Original, Texts
  <2> QED BY <2>1, <2>2
<1>7. "nl" \in T /\ "REDACTED" \in T /\ \A i \in 1..Len(src) : src[i].text \in T BY DEF Tokens
<1>8. \A i \in a..b : ShownIn(src, i) \in T BY <1>1, TokensShown
<1>9. \A i \in a..b : ~LosesIn(src, i) BY <1>1 DEF Losing
<1>10. ChunkOf(src, a, b) OBVIOUS
<1> HIDE DEF a, b, T
<1>11. R \in Seq(Seq(T)) /\ R = [i \in 1..m |-> <<ShownIn(src, a + i - 1)>>]
  <2>1. R \in Seq(Seq(T)) /\ OneEachLine(src, a, b) BY <1>1, <1>8, <1>9, RedactedWhole
  <2> QED BY <2>1, Zenon DEF OneEachLine
<1>12. m \in Nat /\ Len(R) = m
  <2>1. m \in Nat BY <1>1
  <2> HIDE DEF m, R
  <2> QED BY <1>11, <2>1
<1> DEFINE hi == IF n + PassageLines <= m THEN n + PassageLines ELSE m
<1>13. hi \in Nat /\ n < hi /\ hi <= m /\ n < m
  <2> HIDE DEF m, R
  <2> QED BY <1>5, <1>12, CitationsAssumption
<1>14. L = SubSeq(R, n + 1, hi)
  <2>1. L = SubSeq(R, n + 1, IF n + PassageLines <= Len(R) THEN n + PassageLines ELSE Len(R)) BY Zenon DEF Lines
  <2> HIDE DEF L, R, m
  <2> QED BY <1>12, <2>1
<1> HIDE DEF L, R, O, m, hi
<1>15. /\ L \in Seq(Seq(T)) /\ Len(L) = hi - n
       /\ \A j \in 1..(hi - n) : L[j] = R[n + j]
  <2>1. n + 1 \in 1..(Len(R) + 1) /\ hi \in 0..Len(R) /\ n + 1 <= hi + 1 BY <1>12, <1>13
  <2>2. hi - (n + 1) + 1 = hi - n BY <1>13
  <2>3. /\ SubSeq(R, n + 1, hi) \in Seq(Seq(T)) /\ Len(SubSeq(R, n + 1, hi)) = hi - (n + 1) + 1
        /\ \A j \in 1..(hi - (n + 1) + 1) : SubSeq(R, n + 1, hi)[j] = R[(n + 1) + j - 1]
    BY <1>11, <2>1, Cuts
  <2>4. \A j \in 1..(hi - n) : (n + 1) + j - 1 = n + j BY <1>13
  <2> QED BY <1>14, <2>2, <2>3, <2>4
<1>16. c.start - First(c.id) + 1 = n + 1 /\ c.stop - First(c.id) + 1 = hi
  <2>1. c.stop = src[a].line + n + (hi - n) - 1 BY <1>5, <1>15
  <2> QED BY <1>2, <1>3, <1>5, <1>13, <2>1
<1>17. First(c.id) <= c.start /\ c.start <= c.stop /\ c.stop <= Final(c.id)
  <2>1. c.stop = src[a].line + n + (hi - n) - 1 BY <1>5, <1>15
  <2>2. hi <= (b - a) + 1 BY <1>13 DEF m
  <2>3. First(c.id) <= c.start /\ c.start <= c.stop BY <1>2, <1>3, <1>5, <1>13, <2>1
  <2>4. c.stop <= src[a].line + (b - a) BY <1>1, <1>3, <1>13, <2>1, <2>2
  <2> QED BY <1>2, <1>3, <2>3, <2>4
<1>18. c.quote \in SubSeqs(Joined(L))
  <2>1. Joined(L) \in Seq(T) BY <1>7, <1>15, JoinedTyped
  <2>2. Joined(L) = SubSeq(Joined(L), 0 + 1, Len(Joined(L)))
    <3> HIDE DEF L
    <3> QED BY <2>1, SubSeqFull
  <2>3. 0 \in 0..Len(Joined(L)) /\ Len(Joined(L)) \in 0..Len(Joined(L)) BY <2>1
  <2>4. Joined(L) \in SubSeqs(Joined(L)) BY <2>2, <2>3 DEF SubSeqs
  <2> QED BY <1>5, <2>4
<1>19. Lines(R, n + 1, hi) = L
  <2>1. hi <= Len(R) BY <1>12, <1>13
  <2> QED BY <1>14, <2>1, Zenon DEF Lines
<1>20. Lines(O, n + 1, hi) = L
  <2>1. n \in 0..(b - a) /\ hi - 1 \in n..(b - a) /\ (hi - 1) + 1 = hi BY <1>1, <1>13 DEF m
  <2>2. Lines(O, n + 1, (hi - 1) + 1) = Texts(src, a + n, a + (hi - 1)) BY <1>10, <2>1, TextsCut DEF O
  <2>3. (a + (hi - 1)) - (a + n) + 1 = hi - n /\ hi - n \in Nat BY <1>1, <1>13
  <2>4. Texts(src, a + n, a + (hi - 1)) = [j \in 1..(hi - n) |-> <<src[(a + n) + j - 1].text>>]
    BY <2>3, Zenon DEF Texts
  <2>5. \A j \in 1..(hi - n) : L[j] = <<src[(a + n) + j - 1].text>>
    <3> SUFFICES ASSUME NEW j \in 1..(hi - n) PROVE L[j] = <<src[(a + n) + j - 1].text>>
      OBVIOUS
    <3> DEFINE i == (a + n) + j - 1
    <3>1. n + j \in 1..m /\ a + (n + j) - 1 = i /\ i \in a..b /\ i \in 1..Len(src) BY <1>1, <1>13 DEF m
    <3>2. L[j] = <<ShownIn(src, i)>> BY <1>11, <1>15, <3>1
    <3> HIDE DEF i
    <3>3. j \in 1..Len(L) BY <1>15
    <3>4. ShownIn(src, i) # "REDACTED"
      <4> SUFFICES ASSUME ShownIn(src, i) = "REDACTED" PROVE FALSE
        OBVIOUS
      <4>1. L[j] = <<"REDACTED">> BY <3>2
      <4>2. "REDACTED" \in Range(Joined(L)) BY <1>7, <1>15, <3>3, <4>1, JoinedTyped
      <4> QED BY <1>5, <4>2
    <3>5. ShownIn(src, i) = src[i].text BY <3>4 DEF ShownIn
    <3> QED BY <3>2, <3>5 DEF i
  <2>6. L = [j \in 1..(hi - n) |-> L[j]]
    <3>1. L = [j \in 1..Len(L) |-> L[j]] BY <1>15
    <3> QED BY <1>15, <3>1
  <2>7. [j \in 1..(hi - n) |-> <<src[(a + n) + j - 1].text>>] = [j \in 1..(hi - n) |-> L[j]] BY <2>5
  <2> QED BY <2>1, <2>2, <2>4, <2>6, <2>7, Zenon
<1> QED BY <1>5, <1>6, <1>16, <1>17, <1>18, <1>19, <1>20, Zenon DEF Verified

-----------------------------------------------------------------------------
\* The chunks end where the file does, or before.
LastInv == \A k \in 1..Len(chunks) : chunks[k].last <= Len(source)

\* Every claim names lines as numbers, and the server's are passages of the evidence.
ClaimInv ==
  /\ \A n \in DOMAIN claims : claims[n].start \in Nat /\ claims[n].stop \in Nat
  /\ by = "server" /\ stage = "verify" =>
       \A n \in DOMAIN claims :
         /\ claims[n].id \in context
         /\ PassageOf(source, chunks[claims[n].id].first, chunks[claims[n].id].last, claims[n])

\* What a verdict says of the claims.
VerdictInv ==
  /\ verdict # "none" => stage = "end"
  /\ verdict = "answered" => \A n \in DOMAIN claims : TrueOf(source, claims[n])
  /\ by = "server" /\ verdict = "unverified" => Losing(source)

\* The loop has ended before anything is found, and its chunks are of the file.
CitationsInv ==
  /\ TypeOKCitations /\ IInv /\ LastInv
  /\ stage # "chunk" => done
  /\ ClaimInv /\ VerdictInv

\* What is made of the loop's invariant: a file, and chunks of it.
LEMMA ChunksAre ==
  ASSUME TypeOK, StartsLater, ChunkIsLines, LastInv
  PROVE  /\ source \in Seq(Segment) /\ WellCut(source) /\ DOMAIN chunks = 1..Len(chunks)
         /\ \A k \in 1..Len(chunks) : ChunkOf(source, chunks[k].first, chunks[k].last)
         /\ \A i \in 1..Len(source) : source[i].line \in Nat \ {0}
<1>1. source \in Seq(Segment) /\ WellCut(source) /\ source \in Sources BY ChunkerAssumption DEF TypeOK
<1>2. chunks \in Seq(Chunk) BY DEF TypeOK
<1>3. ASSUME NEW k \in 1..Len(chunks) PROVE ChunkOf(source, chunks[k].first, chunks[k].last)
  <2>1. chunks[k] \in Chunk BY <1>2
  <2>2. chunks[k].first \in Nat \ {0} /\ chunks[k].last \in Nat BY <2>1 DEF Chunk
  <2>3. chunks[k].first <= chunks[k].last /\ chunks[k].last <= Len(source) BY DEF StartsLater, LastInv
  <2>4. chunks[k].first \in 1..Len(source) /\ chunks[k].last \in chunks[k].first..Len(source)
    BY <1>1, <2>2, <2>3
  <2> QED BY <2>4 DEF ChunkOf, ChunkIsLines
<1>4. \A i \in 1..Len(source) : source[i].line \in Nat \ {0} BY <1>1, ChunkerAssumption
<1> QED BY <1>1, <1>2, <1>3, <1>4

\* The lines of a passage are numbers.
LEMMA PassageTyped ==
  ASSUME NEW src \in Seq(Segment), NEW a, NEW b, ChunkOf(src, a, b), NEW c, PassageOf(src, a, b, c)
  PROVE  c.start \in Nat /\ c.stop \in Nat
<1> DEFINE T == Tokens(src)
<1>1. a \in Nat /\ b \in Nat /\ a <= b /\ a \in 1..Len(src) /\ Len(src) \in Nat BY DEF ChunkOf
<1>2. src[a].line \in Nat \ {0} BY <1>1, ChunkerAssumption
<1>3. \A i \in a..b : ShownIn(src, i) \in T BY <1>1, TokensShown
<1> HIDE DEF T
<1>4. RedactedOf(src, a, b) \in Seq(Seq(T)) BY <1>1, <1>3, RedactedWhole
<1> DEFINE R == RedactedOf(src, a, b)
<1>5. PICK n \in Nat : PassageAt(src, a, b, n, c) BY DEF PassageOf
<1> DEFINE L == Lines(R, n + 1, n + PassageLines)
<1>6. c.start = src[a].line + n /\ c.stop = src[a].line + n + Len(L) - 1 BY <1>5, Zenon DEF PassageAt
<1> HIDE DEF R
<1>7. n + 1 \in Nat \ {0} /\ n + PassageLines \in Nat BY CitationsAssumption
<1>8. L \in Seq(Seq(T))
  <2>1. R \in Seq(Seq(T)) BY <1>4 DEF R
  <2> QED BY <1>7, <2>1, LinesTyped
<1> HIDE DEF L
<1>9. Len(L) \in Nat BY <1>8
<1> QED BY <1>2, <1>6, <1>9

\* Nothing is claimed before the loop.
LEMMA CitationsInit == InitCitations => CitationsInv
<1> SUFFICES ASSUME InitCitations PROVE CitationsInv
  OBVIOUS
<1>1. IInv /\ chunks = <<>> BY InitInv DEF InitCitations, Init
<1>2. TypeOK BY <1>1 DEF IInv
<1>3. stage = "chunk" /\ context = {} /\ by = "nobody" /\ claims = <<>> /\ verdict = "none"
  BY DEF InitCitations
<1>4. TypeOKCitations BY <1>2, <1>3 DEF TypeOKCitations
<1>5. LastInv BY <1>1 DEF LastInv
<1>6. ClaimInv /\ VerdictInv BY <1>3 DEF ClaimInv, VerdictInv
<1> QED BY <1>1, <1>3, <1>4, <1>5, <1>6 DEF CitationsInv

\* The loop: a chunk that is added is of the file.
LEMMA ChunkingStep ==
  ASSUME CitationsInv, Next, UNCHANGED asking
  PROVE  CitationsInv'
<1>1. IInv /\ TypeOK /\ WindowInv /\ LastInv /\ chunks \in Seq(Chunk) /\ ~done /\ stage = "chunk"
  BY DEF CitationsInv, IInv, TypeOK, Next, Take, Cut
<1>2. IInv' /\ TypeOK' BY <1>1, TakeInv, CutInv DEF Next, IInv
<1>3. UNCHANGED <<stage, context, by, claims, verdict>> BY DEF asking
<1>4. source' = source /\ position \in Nat /\ end \in Nat /\ end <= Len(source)
  BY <1>1 DEF Next, Take, Cut, TypeOK, WindowInv
<1>5. LastInv' /\ DOMAIN chunks \subseteq DOMAIN chunks'
  <2>1. CASE Take BY <1>1, <1>4, <2>1 DEF Take, LastInv
  <2>2. CASE Cut
    <3> DEFINE e == [first |-> position + 1, last |-> end]
    <3>1. chunks' = Append(chunks, e) /\ e.last <= Len(source) BY <1>4, <2>2 DEF Cut
    <3> HIDE DEF e
    <3>2. Len(chunks') = Len(chunks) + 1 /\ Len(chunks) \in Nat /\ DOMAIN chunks = 1..Len(chunks)
          /\ DOMAIN chunks' = 1..(Len(chunks) + 1)
      BY <1>1, <3>1
    <3>3. \A k \in 1..Len(chunks') : chunks'[k] = (IF k = Len(chunks) + 1 THEN e ELSE chunks[k])
      BY <1>1, <3>1
    <3>4. \A k \in 1..Len(chunks') : chunks'[k].last <= Len(source)
      <4> SUFFICES ASSUME NEW k \in 1..Len(chunks') PROVE chunks'[k].last <= Len(source)
        OBVIOUS
      <4>1. CASE k = Len(chunks) + 1 BY <3>1, <3>3, <4>1
      <4>2. CASE k # Len(chunks) + 1
        <5>1. k \in 1..Len(chunks) BY <3>2, <4>2
        <5> QED BY <1>1, <3>3, <4>2, <5>1 DEF LastInv
      <4> QED BY <4>1, <4>2
    <3> QED BY <1>4, <3>2, <3>4 DEF LastInv
  <2> QED BY <2>1, <2>2 DEF Next
<1>6. TypeOKCitations' BY <1>2, <1>3, <1>5 DEF CitationsInv, TypeOKCitations
<1>7. verdict = "none" /\ verdict' = "none" /\ stage' = "chunk" BY <1>1, <1>3 DEF CitationsInv, VerdictInv
<1>8. VerdictInv' /\ ClaimInv' BY <1>3, <1>7 DEF CitationsInv, ClaimInv, VerdictInv
<1> QED BY <1>2, <1>5, <1>6, <1>7, <1>8 DEF CitationsInv

\* After the loop the file and its chunks stay.
LEMMA LoopStays == CitationsInv /\ UNCHANGED loop => IInv' /\ LastInv' /\ TypeOK'
BY DEF loop, CitationsInv, IInv, LastInv, TypeOK, WindowInv, StartInv, CoverInv, ChunkIsLines, StartsLater

\* Finding chunks claims nothing.
LEMMA RetrieveStep == CitationsInv /\ Retrieve => CitationsInv'
<1> SUFFICES ASSUME CitationsInv, Retrieve PROVE CitationsInv'
  OBVIOUS
<1>1. /\ stage = "chunk" /\ done /\ UNCHANGED <<loop, by, claims>> /\ context' \subseteq DOMAIN chunks
      /\ \/ stage' = "end" /\ verdict' = "no_evidence"
         \/ stage' = "generate" /\ verdict' = verdict
  BY DEF Retrieve
<1>2. IInv' /\ LastInv' /\ TypeOK' BY <1>1, LoopStays
<1>3. chunks' = chunks /\ done' = done /\ verdict = "none" BY <1>1 DEF loop, CitationsInv, VerdictInv
<1>4. TypeOKCitations' BY <1>1, <1>2, <1>3 DEF CitationsInv, TypeOKCitations
<1>5. ClaimInv' BY <1>1 DEF CitationsInv, ClaimInv
<1>6. VerdictInv' BY <1>1, <1>3 DEF VerdictInv
<1> QED BY <1>1, <1>2, <1>3, <1>4, <1>5, <1>6 DEF CitationsInv

\* The server's selection: passages of the evidence, or nothing.
LEMMA GenerateStep == CitationsInv /\ Generate => CitationsInv'
<1> SUFFICES ASSUME CitationsInv, Generate PROVE CitationsInv'
  OBVIOUS
<1>1. /\ stage \in {"generate", "repair"} /\ by' = "server" /\ UNCHANGED <<loop, context>>
      /\ \/ /\ \E n \in 0..(IF Passages = {} THEN 0 ELSE MaxClaims) : claims' \in [1..n -> Passages]
            /\ \/ stage' = "end" /\ verdict' = "no_evidence"
               \/ stage' = "verify" /\ verdict' = verdict
         \/ /\ claims' = claims
            /\ \/ stage' = "repair" /\ verdict' = verdict
               \/ stage' = "end" /\ verdict' = "rejected"
  BY Zenon DEF Generate
<1>2. /\ TypeOKCitations /\ TypeOK /\ StartsLater /\ ChunkIsLines /\ LastInv /\ ClaimInv
      /\ context \subseteq DOMAIN chunks
  BY DEF CitationsInv, IInv, TypeOKCitations
<1>3. IInv' /\ LastInv' /\ TypeOK' BY <1>1, LoopStays
<1>4. /\ chunks' = chunks /\ source' = source /\ done' = done /\ context' = context
      /\ verdict = "none" /\ done
  BY <1>1 DEF loop, CitationsInv, VerdictInv
<1>5. TypeOKCitations' BY <1>1, <1>2, <1>3, <1>4 DEF TypeOKCitations
<1>6. VerdictInv' BY <1>1, <1>4 DEF VerdictInv
<1>7. ASSUME NEW c \in Passages
      PROVE  /\ c.start \in Nat /\ c.stop \in Nat /\ c.id \in context
             /\ PassageOf(source, chunks[c.id].first, chunks[c.id].last, c)
  <2>1. c.id \in context /\ PassageOf(source, chunks[c.id].first, chunks[c.id].last, c) BY PassagesAre
  <2>2. source \in Seq(Segment) /\ ChunkOf(source, chunks[c.id].first, chunks[c.id].last)
    BY <1>2, <2>1, ChunksAre
  <2>3. c.start \in Nat /\ c.stop \in Nat BY <2>1, <2>2, PassageTyped
  <2> QED BY <2>1, <2>3
<1>8. ClaimInv'
  <2>1. CASE claims' = claims /\ stage' # "verify" BY <1>2, <2>1 DEF ClaimInv
  <2>2. CASE \E n \in 0..(IF Passages = {} THEN 0 ELSE MaxClaims) : claims' \in [1..n -> Passages]
    <3>1. \A n \in DOMAIN claims' : claims'[n] \in Passages BY <2>2
    <3> QED BY <1>4, <1>7, <3>1 DEF ClaimInv
  <2> QED BY <1>1, <2>1, <2>2
<1> QED BY <1>1, <1>3, <1>4, <1>5, <1>6, <1>8 DEF CitationsInv

\* Another provider's claim names lines as numbers.
LEMMA QuoteStep == CitationsInv /\ Quote => CitationsInv'
<1> SUFFICES ASSUME CitationsInv, Quote PROVE CitationsInv'
  OBVIOUS
<1>1. /\ stage = "generate" /\ by' = "other" /\ stage' = "verify" /\ UNCHANGED <<loop, context, verdict>>
      /\ \E k \in DOMAIN chunks : \E start \in First(k)..Final(k), stop \in First(k)..(Final(k) + 1) :
         \E quote : claims' = <<[id |-> k, start |-> start, stop |-> stop, quote |-> quote]>>
  BY Zenon DEF Quote
<1>2. /\ TypeOKCitations /\ TypeOK /\ StartsLater /\ ChunkIsLines /\ LastInv
  BY DEF CitationsInv, IInv, TypeOKCitations
<1>3. IInv' /\ LastInv' /\ TypeOK' BY <1>1, LoopStays
<1>4. /\ chunks' = chunks /\ source' = source /\ done' = done /\ context' = context
      /\ verdict = "none" /\ done
  BY <1>1 DEF loop, CitationsInv, VerdictInv
<1>5. TypeOKCitations' BY <1>1, <1>2, <1>3, <1>4 DEF TypeOKCitations
<1>6. VerdictInv' BY <1>1, <1>4 DEF VerdictInv
<1>7. ASSUME NEW k \in DOMAIN chunks PROVE First(k) \in Nat /\ Final(k) \in Nat
  <2>1. k \in 1..Len(chunks) /\ ChunkOf(source, chunks[k].first, chunks[k].last) BY <1>2, ChunksAre
  <2>2. \A i \in 1..Len(source) : source[i].line \in Nat BY <1>2, ChunksAre
  <2> QED BY <2>1, <2>2 DEF ChunkOf, First, Final
<1>8. ClaimInv'
  <2>1. PICK k \in DOMAIN chunks : \E start \in First(k)..Final(k), stop \in First(k)..(Final(k) + 1) :
         \E quote : claims' = <<[id |-> k, start |-> start, stop |-> stop, quote |-> quote]>>
    BY <1>1
  <2>2. PICK start \in First(k)..Final(k), stop \in First(k)..(Final(k) + 1) :
         \E quote : claims' = <<[id |-> k, start |-> start, stop |-> stop, quote |-> quote]>>
    BY <2>1
  <2>3. start \in Nat /\ stop \in Nat BY <1>7, <2>2
  <2>4. \A n \in DOMAIN claims' : claims'[n].start = start /\ claims'[n].stop = stop BY <2>2
  <2> QED BY <1>1, <2>3, <2>4 DEF ClaimInv
<1> QED BY <1>1, <1>3, <1>4, <1>5, <1>6, <1>8 DEF CitationsInv

\* The check: what it accepts is true, and what the server attached it accepts unless a line
\* has lost its ending.
LEMMA VerifyStep == CitationsInv /\ Verify => CitationsInv'
<1> SUFFICES ASSUME CitationsInv, Verify PROVE CitationsInv'
  OBVIOUS
<1>1. /\ stage = "verify" /\ stage' = "end" /\ UNCHANGED <<loop, context, by, claims>>
      /\ \/ verdict' = "answered" /\ \A n \in DOMAIN claims : Verified(claims[n])
         \/ verdict' = "unverified" /\ \E n \in DOMAIN claims : ~Verified(claims[n])
  BY Zenon DEF Verify
<1>2. /\ TypeOKCitations /\ TypeOK /\ StartsLater /\ ChunkIsLines /\ LastInv /\ ClaimInv
      /\ context \subseteq DOMAIN chunks
  BY DEF CitationsInv, IInv, TypeOKCitations
<1>3. IInv' /\ LastInv' /\ TypeOK' BY <1>1, LoopStays
<1>4. /\ chunks' = chunks /\ source' = source /\ done' = done /\ context' = context
      /\ by' = by /\ claims' = claims /\ verdict = "none" /\ done
  BY <1>1 DEF loop, CitationsInv, VerdictInv
<1>5. TypeOKCitations' BY <1>1, <1>2, <1>3, <1>4 DEF TypeOKCitations
<1>6. ClaimInv' BY <1>1, <1>2, <1>4 DEF ClaimInv
<1>7. /\ source \in Seq(Segment) /\ WellCut(source)
      /\ \A k \in DOMAIN chunks : ChunkOf(source, chunks[k].first, chunks[k].last)
  BY <1>2, ChunksAre
<1>8. ASSUME NEW n \in DOMAIN claims, Verified(claims[n]) PROVE TrueOf(source, claims[n])
  <2>1. claims[n].id \in context BY <1>8, Zenon DEF Verified
  <2>2. ChunkOf(source, chunks[claims[n].id].first, chunks[claims[n].id].last) BY <1>2, <1>7, <2>1
  <2>3. claims[n].start \in Nat /\ claims[n].stop \in Nat BY <1>2 DEF ClaimInv
  <2> QED BY <1>7, <1>8, <2>2, <2>3, VerifiedIsTrue
<1>9. ASSUME by = "server", NEW n \in DOMAIN claims, ~Verified(claims[n]) PROVE Losing(source)
  <2>1. /\ claims[n].id \in context
        /\ PassageOf(source, chunks[claims[n].id].first, chunks[claims[n].id].last, claims[n])
    BY <1>1, <1>2, <1>9 DEF ClaimInv
  <2>2. ChunkOf(source, chunks[claims[n].id].first, chunks[claims[n].id].last) BY <1>2, <1>7, <2>1
  <2>3. ~Losing(source) => Verified(claims[n]) BY <1>7, <2>1, <2>2, SelectedIsVerified
  <2> QED BY <1>9, <2>3
<1>10. VerdictInv' BY <1>1, <1>4, <1>8, <1>9 DEF VerdictInv
<1> QED BY <1>1, <1>3, <1>4, <1>5, <1>6, <1>10 DEF CitationsInv

\* The chunks, the evidence and the claims are what the invariant says in every state.
THEOREM CitationsInvariance == SpecCitations => []CitationsInv
<1>1. InitCitations => CitationsInv BY CitationsInit
<1>2. CitationsInv /\ [NextCitations]_<<loop, asking>> => CitationsInv'
  <2> SUFFICES ASSUME CitationsInv, [NextCitations]_<<loop, asking>> PROVE CitationsInv'
    OBVIOUS
  <2>1. CASE Next /\ UNCHANGED asking BY <2>1, ChunkingStep
  <2>2. CASE Retrieve BY <2>2, RetrieveStep
  <2>3. CASE Generate BY <2>3, GenerateStep
  <2>4. CASE Quote BY <2>4, QuoteStep
  <2>5. CASE Verify BY <2>5, VerifyStep
  <2>6. CASE UNCHANGED <<loop, asking>>
    <3>1. IInv' /\ LastInv' /\ TypeOK' BY <2>6, LoopStays
    <3>2. UNCHANGED <<source, chunks, done, stage, context, by, claims, verdict>> BY <2>6 DEF loop, asking
    <3>3. ClaimInv' /\ VerdictInv' BY <3>2 DEF CitationsInv, ClaimInv, VerdictInv
    <3>4. TypeOKCitations' BY <3>1, <3>2 DEF CitationsInv, TypeOKCitations
    <3> QED BY <3>1, <3>2, <3>3, <3>4 DEF CitationsInv
  <2> QED BY <2>1, <2>2, <2>3, <2>4, <2>5, <2>6 DEF NextCitations
<1> QED BY <1>1, <1>2, PTL DEF SpecCitations

\* _validate of rag/chat/service.py: whatever the provider answers, an answer's quotations are
\* on the lines of the file that they name, and hold nothing that was to be redacted.
THEOREM QuotedIsTrue == SpecCitations => []CitationIsTrue
<1>1. CitationsInv => CitationIsTrue
  <2> SUFFICES ASSUME CitationsInv, verdict = "answered", NEW n \in DOMAIN claims
               PROVE  /\ claims[n].quote \in SubSeqs(FileText(claims[n].start, claims[n].stop))
                      /\ ~Blank(claims[n].quote) /\ "secret" \notin Range(claims[n].quote)
    BY Zenon DEF CitationIsTrue
  <2>1. TrueOf(source, claims[n]) BY DEF CitationsInv, VerdictInv
  <2>2. claims[n].start \in Nat /\ claims[n].stop \in Nat BY DEF CitationsInv, ClaimInv
  <2>3. FileText(claims[n].start, claims[n].stop) = FileTextOf(source, claims[n].start, claims[n].stop)
    BY <2>2, FileTextIs
  <2> QED BY <2>1, <2>3, Zenon DEF TrueOf
<1> QED BY <1>1, CitationsInvariance, PTL

\* _passages and _validate agree: what the server attaches to a valid selection is accepted,
\* unless the file has a redacted line that ends neither in "\n" nor in "\r\n".
THEOREM SelectionAccepted == SpecCitations => []SelectionIsAccepted
<1>1. CitationsInv => SelectionIsAccepted
  <2> SUFFICES ASSUME CitationsInv, by = "server", verdict = "unverified"
               PROVE  \E i \in DOMAIN source : LosesEnding(i)
    BY Zenon DEF SelectionIsAccepted
  <2>1. Losing(source) BY DEF CitationsInv, VerdictInv
  <2>2. source \in Seq(Segment) BY ChunkerAssumption DEF CitationsInv, IInv, TypeOK
  <2> QED BY <2>1, <2>2 DEF Losing, LosesIn, LosesEnding
<1> QED BY <1>1, CitationsInvariance, PTL

-----------------------------------------------------------------------------
\* Recursions that go down in rank, over finite sets.

\* What holds of every x of which it holds below x holds of all.
LEMMA RankInduction ==
  ASSUME NEW S, NEW rank \in [S -> Nat], NEW P \in SUBSET S,
         \A x \in S : (\A y \in S : rank[y] < rank[x] => y \in P) => x \in P
  PROVE  P = S
<1> DEFINE out == {n \in Nat : \E x \in S \ P : rank[x] = n}
           below == OpToRel(<, Nat)
<1> SUFFICES ASSUME S \ P # {} PROVE FALSE
  OBVIOUS
<1>0. out # {} /\ out \subseteq Nat
  <2>1. PICK x \in S : x \notin P OBVIOUS
  <2>2. rank[x] \in out BY <2>1
  <2> QED BY <2>2
<1>1. PICK m \in out : \A o \in out : ~(o < m)
  <2>1. IsWellFoundedOn(below, Nat) BY NatLessThanWellFounded
  <2>2. \E m \in out : \A o \in out : <<o, m>> \notin below
    <3> HIDE DEF below, out
    <3> QED BY <1>0, <2>1, WFMin
  <2> QED BY <1>0, <2>2 DEF OpToRel
<1>2. PICK x \in S \ P : rank[x] = m BY <1>1
<1>3. ASSUME NEW y \in S, rank[y] < rank[x] PROVE y \in P
  <2>1. y \notin P => rank[y] \in out OBVIOUS
  <2> QED BY <1>1, <1>2, <1>3, <2>1
<1> QED BY <1>2, <1>3

\* What step makes of x depends only on what is below x.
LooksBelow(S, T, rank, step) ==
  \A x \in S : \A f, g \in [S -> T] :
    (\A y \in S : rank[y] < rank[x] => f[y] = g[y]) => step[x][f] = step[x][g]

\* There is a function that is what step makes of it.
HasRecursion(S, T, step) == \E f \in [S -> T] : \A x \in S : f[x] = step[x][f]

\* There is one when step looks below.
LEMMA RankRecursion ==
  ASSUME NEW S, NEW T, NEW base \in T, NEW N \in Nat, NEW rank \in [S -> 0..N],
         NEW step \in [S -> [[S -> T] -> T]], LooksBelow(S, T, rank, step)
  PROVE  HasRecursion(S, T, step)
<1> DEFINE upto(n, f) == \A x \in S : rank[x] < n => f[x] = step[x][f]
           P == {n \in 0..(N + 1) : \E f \in [S -> T] : upto(n, f)}
<1>0. \A a, b \in Nat : a < b + 1 => a = b \/ a < b OBVIOUS
<1>1. 0 \in P
  <2>1. \A x \in S : ~(rank[x] < 0) OBVIOUS
  <2>2. PICK f \in [S -> T] : upto(0, f)
    <3>1. [x \in S |-> base] \in [S -> T] OBVIOUS
    <3>2. upto(0, [x \in S |-> base]) BY <2>1
    <3> HIDE DEF upto
    <3> QED BY <3>1, <3>2
  <2>3. 0 \in 0..(N + 1) OBVIOUS
  <2> HIDE DEF upto
  <2> QED BY <2>2, <2>3
<1>2. ASSUME NEW n \in 0..((N + 1) - 1), n \in P PROVE n + 1 \in P
  <2>1. PICK f \in [S -> T] : upto(n, f) BY <1>2
  <2>2. PICK g \in [S -> T] : \A x \in S : g[x] = IF rank[x] = n THEN step[x][f] ELSE f[x]
    <3>1. [x \in S |-> IF rank[x] = n THEN step[x][f] ELSE f[x]] \in [S -> T] OBVIOUS
    <3> QED BY <3>1
  <2>3. ASSUME NEW x \in S, rank[x] < n + 1 PROVE g[x] = step[x][g]
    <3>1. rank[x] \in Nat /\ \A y \in S : rank[y] \in Nat OBVIOUS
    <3>2. \A y \in S : rank[y] < rank[x] => f[y] = g[y]
      <4>1. \A y \in S : rank[y] < rank[x] => rank[y] # n BY <2>3, <3>1
      <4> QED BY <2>2, <4>1
    <3>3. step[x][f] = step[x][g] BY <3>2 DEF LooksBelow
    <3>4. CASE rank[x] = n
      <4>1. g[x] = step[x][f] BY <2>2, <3>4
      <4> QED BY <3>3, <4>1
    <3>5. CASE rank[x] < n
      <4>1. g[x] = f[x] /\ f[x] = step[x][f] BY <2>1, <2>2, <3>5
      <4> QED BY <3>3, <4>1
    <3>6. rank[x] = n \/ rank[x] < n
      <4>1. n \in Nat /\ rank[x] \in Nat BY <3>1
      <4> QED BY <1>0, <2>3, <4>1, Zenon
    <3> QED BY <3>4, <3>5, <3>6
  <2>4. upto(n + 1, g) BY <2>3
  <2>5. \E h \in [S -> T] : upto(n + 1, h)
    <3> HIDE DEF upto
    <3> QED BY <2>4
  <2> QED BY <2>5
<1>3. 0..(N + 1) \subseteq P
  <2> HIDE DEF P
  <2>1. 0 \in Nat /\ N + 1 \in Nat OBVIOUS
  <2> QED BY <1>1, <1>2, <2>1, Upward
<1>5. PICK f \in [S -> T] : upto(N + 1, f)
  <2>1. N + 1 \in 0..(N + 1) OBVIOUS
  <2>2. N + 1 \in P
    <3> HIDE DEF P
    <3> QED BY <1>3, <2>1
  <2>3. \E f \in [S -> T] : upto(N + 1, f)
    <3> HIDE DEF upto
    <3> QED BY <2>2
  <2> QED BY <2>3
<1>6. \A x \in S : rank[x] < N + 1 OBVIOUS
<1> QED BY <1>5, <1>6 DEF HasRecursion

\* A set that what is in it leads to nothing outside of.
Closed(leads, S) == \A x \in S : leads[x] \subseteq S

\* More of a finite set is in a larger set: less of it is left.
LEMMA LessLeft ==
  ASSUME NEW D, IsFiniteSet(D), NEW A \in SUBSET D, NEW B \in SUBSET D, A \subseteq B, A # B
  PROVE  Cardinality(D \ B) < Cardinality(D \ A)
<1>1. D \ A \subseteq D /\ D \ B \subseteq D \ A /\ D \ B # D \ A OBVIOUS
<1>2. IsFiniteSet(D \ A) BY <1>1, FS_Subset
<1>3. Cardinality(D \ B) <= Cardinality(D \ A) /\ (Cardinality(D \ B) = Cardinality(D \ A) => D \ B = D \ A)
      /\ IsFiniteSet(D \ B)
  BY <1>1, <1>2, FS_Subset
<1>4. Cardinality(D \ B) \in Nat /\ Cardinality(D \ A) \in Nat BY <1>2, <1>3, FS_CardinalityType
<1> QED BY <1>1, <1>3, <1>4

\* How much is left of a finite set, for each of its subsets.
LEMMA LeftTyped ==
  ASSUME NEW D, IsFiniteSet(D)
  PROVE  /\ Cardinality(D) \in Nat
         /\ \A A \in SUBSET D : Cardinality(D \ A) \in 0..Cardinality(D) /\ Cardinality(D \ A) \in Nat
<1>1. Cardinality(D) \in Nat BY FS_CardinalityType
<1>2. ASSUME NEW A \in SUBSET D PROVE Cardinality(D \ A) \in 0..Cardinality(D) /\ Cardinality(D \ A) \in Nat
  <2>1. D \ A \subseteq D OBVIOUS
  <2>2. IsFiniteSet(D \ A) /\ Cardinality(D \ A) <= Cardinality(D) BY <2>1, FS_Subset
  <2>3. Cardinality(D \ A) \in Nat BY <2>2, FS_CardinalityType
  <2> QED BY <1>1, <2>2, <2>3
<1> QED BY <1>1, <1>2

\* What Reached is: the least set with n in it that leads to nothing outside of it.
IsReached(D, leads, n, R) ==
  /\ R \in SUBSET D /\ n \in R /\ Closed(leads, R)
  /\ \A U \in SUBSET D : n \in U /\ Closed(leads, U) => R \subseteq U

\* Adding what is led to, until there is no more, comes to that set.
LEMMA ReachedIs ==
  ASSUME NEW D, IsFiniteSet(D), NEW leads \in [D -> SUBSET D], NEW n \in D
  PROVE  IsReached(D, leads, n, Reached(leads, n))
<1> DEFINE more(S) == S \cup UNION {leads[x] : x \in S}
           is(f) == f = [S \in SUBSET D |-> IF more(S) = S THEN S ELSE f[more(S)]]
           F == CHOOSE f : is(f)
           rank == [S \in SUBSET D |-> Cardinality(D \ S)]
           step == [S \in SUBSET D |-> [f \in [SUBSET D -> SUBSET D] |-> IF more(S) = S THEN S ELSE f[more(S)]]]
<1>1. \A S \in SUBSET D : more(S) \in SUBSET D /\ S \subseteq more(S) /\ (more(S) = S => Closed(leads, S))
  BY DEF Closed
<1>2. \A S, U \in SUBSET D : S \subseteq U /\ Closed(leads, U) => more(S) \subseteq U BY DEF Closed
<1>9. Reached(leads, n) = F[{n}]
  <2>1. DOMAIN leads = D OBVIOUS
  <2> QED BY <2>1, Zenon DEF Reached
<1> HIDE DEF more
<1>3. rank \in [SUBSET D -> 0..Cardinality(D)] /\ Cardinality(D) \in Nat
      /\ \A S \in SUBSET D : rank[S] = Cardinality(D \ S) /\ rank[S] \in Nat
  <2>1. /\ Cardinality(D) \in Nat
        /\ \A A \in SUBSET D : Cardinality(D \ A) \in 0..Cardinality(D) /\ Cardinality(D \ A) \in Nat
    BY LeftTyped
  <2> QED BY <2>1
<1>4. \A S \in SUBSET D : more(S) # S => rank[more(S)] < rank[S]
  <2> SUFFICES ASSUME NEW S \in SUBSET D, more(S) # S PROVE rank[more(S)] < rank[S]
    OBVIOUS
  <2>1. more(S) \in SUBSET D /\ S \subseteq more(S) BY <1>1
  <2>2. Cardinality(D \ more(S)) < Cardinality(D \ S)
    <3> DEFINE B == more(S)
    <3>1. B \in SUBSET D /\ S \subseteq B /\ S # B BY <2>1
    <3> HIDE DEF B
    <3>2. Cardinality(D \ B) < Cardinality(D \ S) BY <3>1, LessLeft
    <3> QED BY <3>2 DEF B
  <2> QED BY <1>3, <2>1, <2>2
<1> HIDE DEF rank
<1>5. step \in [SUBSET D -> [[SUBSET D -> SUBSET D] -> SUBSET D]]
      /\ \A S \in SUBSET D : \A f \in [SUBSET D -> SUBSET D] : step[S][f] = IF more(S) = S THEN S ELSE f[more(S)]
  BY <1>1
<1> HIDE DEF step
<1>6. LooksBelow(SUBSET D, SUBSET D, rank, step) BY <1>1, <1>4, <1>5 DEF LooksBelow
<1>7. PICK f \in [SUBSET D -> SUBSET D] : \A S \in SUBSET D : f[S] = step[S][f]
  <2> DEFINE T == SUBSET D
             N == Cardinality(D)
  <2>1. {} \in T /\ N \in Nat /\ rank \in [T -> 0..N] /\ step \in [T -> [[T -> T] -> T]] /\ LooksBelow(T, T, rank, step)
    BY <1>3, <1>5, <1>6
  <2>2. \E f \in [T -> T] : \A S \in T : f[S] = step[S][f]
    <3> HIDE DEF T, N
    <3>1. HasRecursion(T, T, step) BY <2>1, RankRecursion
    <3> QED BY <3>1 DEF HasRecursion
  <2> QED BY <2>2
<1>8. is(F)
  <2>1. \A S \in SUBSET D : f[S] = IF more(S) = S THEN S ELSE f[more(S)] BY <1>5, <1>7
  <2>2. is(f) BY <2>1
  <2> QED BY <2>2, Zenon
<1> HIDE DEF F
<1>10. \A S \in SUBSET D : F[S] = IF more(S) = S THEN S ELSE F[more(S)] BY <1>8
<1> DEFINE good(S) == /\ F[S] \in SUBSET D /\ S \subseteq F[S] /\ Closed(leads, F[S])
                      /\ \A U \in SUBSET D : S \subseteq U /\ Closed(leads, U) => F[S] \subseteq U
           P == {S \in SUBSET D : good(S)}
<1>11. ASSUME NEW S \in SUBSET D, \A U \in SUBSET D : rank[U] < rank[S] => U \in P PROVE S \in P
  <2>1. CASE more(S) = S
    <3>1. F[S] = S BY <1>10, <2>1
    <3> QED BY <1>1, <2>1, <3>1
  <2>2. CASE more(S) # S
    <3>1. F[S] = F[more(S)] BY <1>10, <2>2
    <3>2. more(S) \in P BY <1>1, <1>4, <1>11, <2>2
    <3>3. good(more(S)) BY <3>2
    <3>4. good(S) BY <1>1, <1>2, <3>1, <3>3
    <3> QED BY <3>4
  <2> QED BY <2>1, <2>2
<1>12. P = SUBSET D
  <2>1. P \in SUBSET (SUBSET D) /\ rank \in [SUBSET D -> Nat] BY <1>3
  <2> HIDE DEF P
  <2> QED BY <1>11, <2>1, RankInduction
<1>13. good({n})
  <2>1. {n} \in SUBSET D OBVIOUS
  <2>2. {n} \in P
    <3> HIDE DEF P
    <3> QED BY <1>12, <2>1
  <2> QED BY <2>2
<1> QED BY <1>9, <1>13 DEF IsReached

\* Following what leads on, and not what has been passed on the way: what is found from k.
FollowedBy(leads, owned, k, seen, F) ==
  IF k \in seen THEN {} ELSE owned[k] \cup UNION {F[<<q, seen \cup {k}>>] : q \in leads[k]}
FoundBy(D, leads, owned, F) ==
  \A k \in D : \A seen \in SUBSET D : F[<<k, seen>>] = FollowedBy(leads, owned, k, seen, F)

\* There are such findings.
HasFindings(D, T, leads, owned) == \E F \in [D \X SUBSET D -> SUBSET T] : FoundBy(D, leads, owned, F)

\* The nodes on the way are fewer each time one is passed.
LEMMA FewerOnTheWay ==
  ASSUME NEW D, IsFiniteSet(D), NEW k \in D, NEW seen \in SUBSET D, k \notin seen
  PROVE  Cardinality(D \ (seen \cup {k})) < Cardinality(D \ seen)
<1>1. seen \cup {k} \in SUBSET D /\ seen \subseteq seen \cup {k} /\ seen # seen \cup {k} OBVIOUS
<1> QED BY <1>1, LessLeft

\* The recursion of following is defined for all nodes and all that may have been passed.
LEMMA FollowingIsDefined ==
  ASSUME NEW D, IsFiniteSet(D), NEW T, NEW leads \in [D -> SUBSET D], NEW owned \in [D -> SUBSET T]
  PROVE  HasFindings(D, T, leads, owned)
<1> DEFINE S == D \X SUBSET D
           V == SUBSET T
           N == Cardinality(D)
           rank == [pair \in S |-> Cardinality(D \ pair[2])]
           value(k, seen, f) == IF k \in seen THEN {} ELSE owned[k] \cup UNION {f[<<q, seen \cup {k}>>] : q \in leads[k]}
           step == [pair \in S |-> [f \in [S -> V] |-> value(pair[1], pair[2], f)]]
<1>1. N \in Nat /\ rank \in [S -> 0..N]
  <2>1. Cardinality(D) \in Nat /\ \A A \in SUBSET D : Cardinality(D \ A) \in 0..Cardinality(D) BY LeftTyped
  <2> QED BY <2>1
<1>2. \A k \in D, seen \in SUBSET D : <<k, seen>> \in S /\ rank[<<k, seen>>] = Cardinality(D \ seen) OBVIOUS
<1>3. \A pair \in S : pair[1] \in D /\ pair[2] \in SUBSET D /\ pair = <<pair[1], pair[2]>> OBVIOUS
<1>4. \A k \in D, seen \in SUBSET D : \A q \in leads[k] :
        /\ <<q, seen \cup {k}>> \in S
        /\ k \notin seen => rank[<<q, seen \cup {k}>>] < rank[<<k, seen>>]
  <2> SUFFICES ASSUME NEW k \in D, NEW seen \in SUBSET D, NEW q \in leads[k]
               PROVE  /\ <<q, seen \cup {k}>> \in S
                      /\ k \notin seen => rank[<<q, seen \cup {k}>>] < rank[<<k, seen>>]
    OBVIOUS
  <2>1. q \in D /\ seen \cup {k} \in SUBSET D OBVIOUS
  <2>2. rank[<<q, seen \cup {k}>>] = Cardinality(D \ (seen \cup {k})) BY <1>2, <2>1
  <2>3. rank[<<k, seen>>] = Cardinality(D \ seen) BY <1>2
  <2>4. k \notin seen => Cardinality(D \ (seen \cup {k})) < Cardinality(D \ seen) BY FewerOnTheWay
  <2> QED BY <2>1, <2>2, <2>3, <2>4
<1> HIDE DEF S, rank, N
<1>5. \A k \in D, seen \in SUBSET D : \A f \in [S -> V] : value(k, seen, f) \in V BY <1>4
<1>6. \A k \in D, seen \in SUBSET D : \A f, g \in [S -> V] :
        (\A y \in S : rank[y] < rank[<<k, seen>>] => f[y] = g[y]) => value(k, seen, f) = value(k, seen, g)
  <2> SUFFICES ASSUME NEW k \in D, NEW seen \in SUBSET D, NEW f \in [S -> V], NEW g \in [S -> V],
                      \A y \in S : rank[y] < rank[<<k, seen>>] => f[y] = g[y]
               PROVE  value(k, seen, f) = value(k, seen, g)
    OBVIOUS
  <2>1. CASE k \in seen BY <2>1
  <2>2. CASE k \notin seen
    <3>1. \A q \in leads[k] : f[<<q, seen \cup {k}>>] = g[<<q, seen \cup {k}>>] BY <1>4, <2>2
    <3>2. {f[<<q, seen \cup {k}>>] : q \in leads[k]} = {g[<<q, seen \cup {k}>>] : q \in leads[k]} BY <3>1
    <3> QED BY <3>2
  <2> QED BY <2>1, <2>2
<1> HIDE DEF V, value
<1>7. step \in [S -> [[S -> V] -> V]] /\ \A pair \in S : \A f \in [S -> V] : step[pair][f] = value(pair[1], pair[2], f)
  BY <1>3, <1>5
<1> HIDE DEF step
<1>8. LooksBelow(S, V, rank, step)
  <2> SUFFICES ASSUME NEW pair \in S, NEW f \in [S -> V], NEW g \in [S -> V],
                      \A y \in S : rank[y] < rank[pair] => f[y] = g[y]
               PROVE  step[pair][f] = step[pair][g]
    BY DEF LooksBelow
  <2>1. value(pair[1], pair[2], f) = value(pair[1], pair[2], g)
    <3>1. rank[pair] = rank[<<pair[1], pair[2]>>] BY <1>3
    <3>2. \A y \in S : rank[y] < rank[<<pair[1], pair[2]>>] => f[y] = g[y] BY <3>1
    <3> QED BY <1>3, <1>6, <3>2
  <2> QED BY <1>7, <2>1
<1>9. {} \in V BY DEF V
<1>10. HasRecursion(S, V, step) BY <1>1, <1>7, <1>8, <1>9, RankRecursion
<1>11. PICK f \in [S -> V] : \A pair \in S : f[pair] = value(pair[1], pair[2], f) BY <1>7, <1>10 DEF HasRecursion
<1>12. FoundBy(D, leads, owned, f)
  <2> SUFFICES ASSUME NEW k \in D, NEW seen \in SUBSET D PROVE f[<<k, seen>>] = value(k, seen, f)
    BY DEF FoundBy, FollowedBy, value
  <2>1. <<k, seen>>[1] = k /\ <<k, seen>>[2] = seen OBVIOUS
  <2> QED BY <1>2, <1>11, <2>1
<1> QED BY <1>11, <1>12 DEF HasFindings, S, V

\* It is what is owned by all that is reached, and nothing else.
LEMMA FollowingFinds ==
  ASSUME NEW D, IsFiniteSet(D), NEW leads \in [D -> SUBSET D], NEW owned, NEW F,
         FoundBy(D, leads, owned, F), NEW n \in D, NEW R, IsReached(D, leads, n, R)
  PROVE  F[<<n, {}>>] = UNION {owned[y] : y \in R}
<1> DEFINE S == D \X SUBSET D
           rank == [pair \in S |-> Cardinality(D \ pair[2])]
           avoids(U, k, seen) == k \in U \cup seen /\ \A x \in U : leads[x] \subseteq U \cup seen
           away(k, seen) == {y \in D : \A U \in SUBSET D : avoids(U, k, seen) => y \in U}
           inside(k, seen) == \A U \in SUBSET D : k \in U /\ Closed(leads, U) => F[<<k, seen>>] \subseteq UNION {owned[y] : y \in U}
           outside(k, seen) == \A y \in away(k, seen) : owned[y] \subseteq F[<<k, seen>>]
           P == {pair \in S : inside(pair[1], pair[2]) /\ outside(pair[1], pair[2])}
<1>1. rank \in [S -> Nat]
  <2>1. \A A \in SUBSET D : Cardinality(D \ A) \in Nat BY LeftTyped
  <2> QED BY <2>1
<1>2. \A k \in D, seen \in SUBSET D : <<k, seen>> \in S /\ rank[<<k, seen>>] = Cardinality(D \ seen) OBVIOUS
<1>3. \A pair \in S : pair[1] \in D /\ pair[2] \in SUBSET D /\ pair = <<pair[1], pair[2]>> OBVIOUS
<1>4. \A k \in D, seen \in SUBSET D : <<k, seen>> \in P <=> inside(k, seen) /\ outside(k, seen)
  <2> SUFFICES ASSUME NEW k \in D, NEW seen \in SUBSET D
               PROVE  <<k, seen>> \in P <=> inside(k, seen) /\ outside(k, seen)
    OBVIOUS
  <2>1. <<k, seen>>[1] = k /\ <<k, seen>>[2] = seen /\ <<k, seen>> \in S OBVIOUS
  <2> HIDE DEF inside, outside, S
  <2> QED BY <2>1
<1>5. P \in SUBSET S OBVIOUS
<1> HIDE DEF S, P, rank
<1>6. \A k \in D, seen \in SUBSET D : avoids(away(k, seen), k, seen)
  <2> SUFFICES ASSUME NEW k \in D, NEW seen \in SUBSET D PROVE avoids(away(k, seen), k, seen)
    OBVIOUS
  <2>1. k \in away(k, seen) \cup seen OBVIOUS
  <2>2. ASSUME NEW x \in away(k, seen), NEW z \in leads[x], z \notin seen PROVE z \in away(k, seen)
    <3>1. z \in D OBVIOUS
    <3>2. ASSUME NEW U \in SUBSET D, avoids(U, k, seen) PROVE z \in U BY <2>2, <3>2
    <3> QED BY <3>1, <3>2
  <2> QED BY <2>1, <2>2
<1>7. ASSUME NEW k \in D, NEW seen \in SUBSET D, \A y \in S : rank[y] < rank[<<k, seen>>] => y \in P
      PROVE  inside(k, seen) /\ outside(k, seen)
  <2>1. CASE k \in seen
    <3>1. F[<<k, seen>>] = {} BY <2>1 DEF FoundBy, FollowedBy
    <3>2. avoids({}, k, seen) BY <2>1
    <3>3. away(k, seen) = {} BY <3>2
    <3> QED BY <3>1, <3>3
  <2>2. CASE k \notin seen
    <3> DEFINE on == seen \cup {k}
    <3>1. on \in SUBSET D OBVIOUS
    <3>2. F[<<k, seen>>] = owned[k] \cup UNION {F[<<q, on>>] : q \in leads[k]} BY <2>2 DEF FoundBy, FollowedBy
    <3>3. \A q \in leads[k] : q \in D /\ inside(q, on) /\ outside(q, on)
      <4> SUFFICES ASSUME NEW q \in leads[k] PROVE q \in D /\ inside(q, on) /\ outside(q, on)
        OBVIOUS
      <4>1. q \in D OBVIOUS
      <4>2. Cardinality(D \ on) < Cardinality(D \ seen) BY <2>2, FewerOnTheWay
      <4>3. <<q, on>> \in S /\ rank[<<q, on>>] < rank[<<k, seen>>]
        <5> HIDE DEF on
        <5> QED BY <1>2, <3>1, <4>1, <4>2
      <4>4. <<q, on>> \in P BY <1>7, <4>3
      <4> HIDE DEF on, inside, outside
      <4> QED BY <1>4, <3>1, <4>1, <4>4
    <3>4. inside(k, seen)
      <4> SUFFICES ASSUME NEW U \in SUBSET D, k \in U, Closed(leads, U)
                   PROVE  F[<<k, seen>>] \subseteq UNION {owned[y] : y \in U}
        OBVIOUS
      <4>1. \A q \in leads[k] : q \in U BY DEF Closed
      <4>2. \A q \in leads[k] : F[<<q, on>>] \subseteq UNION {owned[y] : y \in U} BY <3>3, <4>1
      <4> QED BY <3>2, <4>2
    <3>5. away(k, seen) \subseteq {k} \cup UNION {away(q, on) : q \in leads[k]}
      <4> DEFINE B == {k} \cup UNION {away(q, on) : q \in leads[k]}
      <4>1. B \in SUBSET D OBVIOUS
      <4>2. \A q \in leads[k] : q \in B \cup seen
        <5> SUFFICES ASSUME NEW q \in leads[k] PROVE q \in B \cup seen
          OBVIOUS
        <5>1. q \in away(q, on) \cup on
          <6>1. avoids(away(q, on), q, on) BY <1>6, <3>1, <3>3
          <6> QED BY <6>1
        <5> QED BY <5>1
      <4>3. ASSUME NEW q \in leads[k], NEW x \in away(q, on) PROVE leads[x] \subseteq B \cup seen
        <5>1. leads[x] \subseteq away(q, on) \cup on
          <6>1. avoids(away(q, on), q, on) BY <1>6, <3>1, <3>3
          <6> QED BY <6>1
        <5> HIDE DEF away
        <5> QED BY <5>1
      <4>4. avoids(B, k, seen)
        <5> HIDE DEF away, on
        <5> QED BY <4>2, <4>3
      <4> HIDE DEF B
      <4>5. away(k, seen) \subseteq B BY <4>1, <4>4
      <4> QED BY <4>5 DEF B
    <3>6. outside(k, seen)
      <4> SUFFICES ASSUME NEW y \in away(k, seen) PROVE owned[y] \subseteq F[<<k, seen>>]
        OBVIOUS
      <4>1. CASE y = k BY <3>2, <4>1
      <4>2. ASSUME NEW q \in leads[k], y \in away(q, on) PROVE owned[y] \subseteq F[<<k, seen>>]
        <5>1. owned[y] \subseteq F[<<q, on>>] BY <3>3, <4>2
        <5> HIDE DEF on
        <5> QED BY <3>2, <5>1
      <4> HIDE DEF away, on
      <4> QED BY <3>5, <4>1, <4>2
    <3> QED BY <3>4, <3>6
  <2> QED BY <2>1, <2>2
<1>8. P = S
  <2>1. ASSUME NEW pair \in S, \A y \in S : rank[y] < rank[pair] => y \in P PROVE pair \in P
    <3>1. pair[1] \in D /\ pair[2] \in SUBSET D /\ pair = <<pair[1], pair[2]>> BY <1>3
    <3>2. inside(pair[1], pair[2]) /\ outside(pair[1], pair[2])
      <4> HIDE DEF inside, outside
      <4>1. rank[pair] = rank[<<pair[1], pair[2]>>] BY <3>1
      <4>2. \A y \in S : rank[y] < rank[<<pair[1], pair[2]>>] => y \in P BY <2>1, <4>1
      <4> QED BY <1>7, <3>1, <4>2
    <3> HIDE DEF inside, outside
    <3>3. <<pair[1], pair[2]>> \in P BY <1>4, <3>1, <3>2
    <3> QED BY <3>1, <3>3
  <2> QED BY <1>1, <1>5, <2>1, RankInduction
<1>9. inside(n, {}) /\ outside(n, {})
  <2>1. {} \in SUBSET D OBVIOUS
  <2>2. <<n, {}>> \in P BY <1>2, <1>8, <2>1
  <2> HIDE DEF inside, outside
  <2> QED BY <1>4, <2>1, <2>2
<1>10. R \subseteq away(n, {})
  <2>1. ASSUME NEW y \in R, NEW U \in SUBSET D, avoids(U, n, {}) PROVE y \in U
    <3>1. n \in U /\ Closed(leads, U) BY <2>1 DEF Closed
    <3> QED BY <3>1 DEF IsReached
  <2> QED BY <2>1 DEF IsReached
<1>11. F[<<n, {}>>] \subseteq UNION {owned[y] : y \in R} BY <1>9 DEF IsReached
<1>12. \A y \in R : owned[y] \subseteq F[<<n, {}>>] BY <1>9, <1>10
<1> QED BY <1>11, <1>12

-----------------------------------------------------------------------------
\* Dependencies: the cycles.

\* Where _cycles is: what is visited is on the stack or has been left, in a component.
Visited == Path \ Unvisited
On  == Range(stack)
Off == Visited \ On

NodeOf(i) == visiting[i].node

\* q is reached from p: it is in every set that holds p and what its members lead to in d.
ClosedSet(d, S) == \A x \in S : d[x] \subseteq S
Reaches(d, p, q) == \A S \in SUBSET Path : p \in S /\ ClosedSet(d, S) => q \in S
Both(d, p, q) == Reaches(d, p, q) /\ Reaches(d, q, p)
ComponentOf(d, p) == {q \in Path : Both(d, p, q)}

\* A node of the stack belongs to the last call that it was not visited before.
Within(i, x) ==
  /\ i \in 1..Len(visiting) /\ x \in On
  /\ indices[NodeOf(i)] <= indices[x]
  /\ i < Len(visiting) => indices[x] < indices[NodeOf(i + 1)]

\* The state of a search that is not over.
SearchTyped ==
  /\ adjacency \in [Path -> SUBSET Path] /\ \A p \in Path : p \notin adjacency[p]
  /\ index \in Nat /\ indices \in [Path -> Int] /\ low \in [Path -> Int]
  /\ \A p \in Path : indices[p] = -1 \/ indices[p] \in 0..(index - 1)
  /\ stack \in Seq(Path) /\ visiting \in Seq([node : Path, rest : SUBSET Path])

\* The stack is in the order of the visits.
StackInOrder ==
  /\ \A i \in 1..Len(stack) : indices[stack[i]] # -1
  /\ \A i, j \in 1..Len(stack) : i < j => indices[stack[i]] < indices[stack[j]]

\* So are the calls, each made from the one before.
CallsInOrder ==
  /\ \A i \in 1..Len(visiting) : NodeOf(i) \in On
  /\ \A i, j \in 1..Len(visiting) : i < j => indices[NodeOf(i)] < indices[NodeOf(j)]
  /\ \A i, j \in 1..Len(visiting) : i <= j => Reaches(adjacency, NodeOf(i), NodeOf(j))

\* Every node of the stack is in the component of the call it belongs to.
StackBelongs ==
  /\ \A x \in On : \E i \in 1..Len(visiting) : Within(i, x)
  /\ \A x \in On : \A i \in 1..Len(visiting) : Within(i, x) => Both(adjacency, NodeOf(i), x)

\* low is when a node of the stack was visited, which the call reaches.
LowIs(i, y) == low[NodeOf(i)] = indices[y] /\ indices[y] <= indices[NodeOf(i)] /\ Reaches(adjacency, NodeOf(i), y)
LowReached == \A i \in 1..Len(visiting) : \E y \in On : LowIs(i, y)

\* What is left to be looked at is only what the calls have left; what has been looked at, and
\* is on the stack, was not visited before low.
LookedAt ==
  \A i \in 1..Len(visiting) : \A x \in On : Within(i, x) =>
    \A w \in adjacency[x] :
      \/ x = NodeOf(i) /\ w \in visiting[i].rest
      \/ w \in Off
      \/ w \in On /\ low[NodeOf(i)] <= indices[w]

\* What has been left leads to nothing else, and its components have been found.
LeftIsFound ==
  /\ \A x \in Off : adjacency[x] \subseteq Off
  /\ cycles = {ComponentOf(adjacency, p) : p \in {q \in Off : ComponentOf(adjacency, q) # {q}}}

SearchInv ==
  /\ SearchTyped /\ StackInOrder /\ CallsInOrder /\ StackBelongs /\ LowReached /\ LookedAt /\ LeftIsFound
  /\ \A i \in 1..Len(visiting) : visiting[i].rest \subseteq adjacency[NodeOf(i)]

\* Reachability is reflexive and transitive, follows what leads on and stays in closed sets.
LEMMA ReachesFacts ==
  ASSUME NEW d \in [Path -> SUBSET Path]
  PROVE  /\ \A p \in Path : Reaches(d, p, p)
         /\ \A p, q, r \in Path : Reaches(d, p, q) /\ Reaches(d, q, r) => Reaches(d, p, r)
         /\ \A p, q \in Path : q \in d[p] => Reaches(d, p, q)
         /\ \A S \in SUBSET Path : ClosedSet(d, S) => \A p \in S : \A q \in Path : Reaches(d, p, q) => q \in S
<1>1. ASSUME NEW p \in Path, NEW q \in Path, q \in d[p] PROVE Reaches(d, p, q)
  <2> SUFFICES ASSUME NEW S \in SUBSET Path, p \in S, ClosedSet(d, S) PROVE q \in S
    BY DEF Reaches
  <2> QED BY <1>1 DEF ClosedSet
<1>2. \A p, q, r \in Path : Reaches(d, p, q) /\ Reaches(d, q, r) => Reaches(d, p, r) BY DEF Reaches
<1>3. \A p \in Path : Reaches(d, p, p) BY DEF Reaches
<1>4. \A S \in SUBSET Path : ClosedSet(d, S) => \A p \in S : \A q \in Path : Reaches(d, p, q) => q \in S
  BY DEF Reaches
<1> QED BY <1>1, <1>2, <1>3, <1>4

\* What is on the stack is visited.
LEMMA OnStack ==
  ASSUME SearchTyped, StackInOrder
  PROVE  /\ On \subseteq Path /\ \A x \in On : indices[x] \in 0..(index - 1) /\ x \in Visited
         /\ Len(stack) \in Nat /\ \A i \in 1..Len(stack) : stack[i] \in On
         /\ \A x \in On : \E i \in 1..Len(stack) : stack[i] = x
         /\ Off \subseteq Path /\ Off \cap On = {} /\ \A x \in Path : x \in Visited <=> indices[x] # -1
<1>1. stack \in Seq(Path) /\ DOMAIN stack = 1..Len(stack) BY DEF SearchTyped
<1>2. \A x \in On : \E i \in 1..Len(stack) : stack[i] = x BY <1>1 DEF On, Range
<1>3. \A i \in 1..Len(stack) : stack[i] \in On /\ stack[i] \in Path BY <1>1 DEF On, Range
<1>4. \A x \in Path : x \in Visited <=> indices[x] # -1 BY DEF Visited, Unvisited
<1>5. \A x \in On : x \in Path /\ indices[x] # -1 BY <1>2, <1>3 DEF StackInOrder
<1> QED BY <1>1, <1>2, <1>3, <1>4, <1>5 DEF SearchTyped, Off, Visited

\* visit(v) begins: the node comes last on the stack, and has all its targets left.
LEMMA EnterStep ==
  ASSUME SearchInv, NEW v \in Unvisited, NEW calls \in Seq([node : Path, rest : SUBSET Path]),
         Len(calls) = Len(visiting),
         \A i \in 1..Len(visiting) :
           /\ calls[i].node = NodeOf(i) /\ calls[i].rest \subseteq visiting[i].rest
           /\ visiting[i].rest \ {v} \subseteq calls[i].rest
           /\ i < Len(visiting) => calls[i].rest = visiting[i].rest,
         Len(visiting) > 0 => v \in adjacency[NodeOf(Len(visiting))],
         Enter(v, calls), UNCHANGED adjacency
  PROVE  SearchInv'
<1>a. PICK m \in Nat : m = Len(visiting) BY DEF SearchInv, SearchTyped
<1>0. /\ SearchTyped /\ StackInOrder /\ CallsInOrder /\ StackBelongs /\ LowReached /\ LookedAt /\ LeftIsFound
      /\ \A i \in 1..m : visiting[i].rest \subseteq adjacency[NodeOf(i)]
  BY <1>a DEF SearchInv
<1>1. /\ On \subseteq Path /\ \A x \in On : indices[x] \in 0..(index - 1) /\ x \in Visited
      /\ Len(stack) \in Nat /\ \A i \in 1..Len(stack) : stack[i] \in On
      /\ Off \subseteq Path /\ Off \cap On = {} /\ \A x \in Path : x \in Visited <=> indices[x] # -1
  BY <1>0, OnStack
<1>2. v \in Path /\ indices[v] = -1 /\ v \notin On /\ v \notin Off /\ index \in Nat
  BY <1>0, <1>1 DEF Unvisited, SearchTyped, Off
<1>3. /\ index' = index + 1 /\ indices' = [indices EXCEPT ![v] = index] /\ low' = [low EXCEPT ![v] = index]
      /\ stack' = Append(stack, v) /\ visiting' = Append(calls, [node |-> v, rest |-> adjacency[v]])
      /\ cycles' = cycles /\ adjacency' = adjacency
  BY DEF Enter
<1>4. /\ indices' \in [Path -> Int] /\ low' \in [Path -> Int] /\ indices'[v] = index /\ low'[v] = index
      /\ \A p \in Path \ {v} : indices'[p] = indices[p] /\ low'[p] = low[p]
  BY <1>0, <1>2, <1>3 DEF SearchTyped
<1>5. SearchTyped'
  <2>1. \A p \in Path : indices'[p] = -1 \/ indices'[p] \in 0..(index' - 1)
    BY <1>0, <1>2, <1>3, <1>4 DEF SearchTyped
  <2>2. stack' \in Seq(Path) BY <1>0, <1>2, <1>3 DEF SearchTyped
  <2>3. [node |-> v, rest |-> adjacency[v]] \in [node : Path, rest : SUBSET Path] BY <1>0, <1>2 DEF SearchTyped
  <2>4. visiting' \in Seq([node : Path, rest : SUBSET Path]) BY <1>3, <2>3
  <2> QED BY <1>0, <1>2, <1>3, <1>4, <2>1, <2>2, <2>4 DEF SearchTyped
<1>6. /\ Len(stack') = Len(stack) + 1 /\ stack'[Len(stack) + 1] = v
      /\ \A i \in 1..Len(stack) : stack'[i] = stack[i]
  BY <1>0, <1>2, <1>3 DEF SearchTyped
<1>7. On' = On \cup {v}
  <2>1. DOMAIN stack = 1..Len(stack) /\ DOMAIN stack' = 1..(Len(stack) + 1)
    BY <1>0, <1>5, <1>6 DEF SearchTyped
  <2> QED BY <1>1, <1>6, <2>1 DEF On, Range
<1>8. StackInOrder'
  <2>1. \A i \in 1..Len(stack') : i = Len(stack) + 1 \/ i \in 1..Len(stack) BY <1>1, <1>6
  <2>2. \A i \in 1..Len(stack) : indices'[stack'[i]] = indices[stack[i]] /\ indices[stack[i]] \in 0..(index - 1)
    BY <1>1, <1>2, <1>4, <1>6
  <2>3. indices'[stack'[Len(stack) + 1]] = index BY <1>4, <1>6
  <2>4. \A i \in 1..Len(stack') : indices'[stack'[i]] # -1 BY <1>2, <2>1, <2>2, <2>3
  <2>5. ASSUME NEW i \in 1..Len(stack'), NEW j \in 1..Len(stack'), i < j
        PROVE  indices'[stack'[i]] < indices'[stack'[j]]
    <3>1. i \in 1..Len(stack) BY <1>1, <1>6, <2>5
    <3>2. CASE j \in 1..Len(stack) BY <1>0, <2>2, <2>5, <3>1, <3>2 DEF StackInOrder
    <3>3. CASE j = Len(stack) + 1 BY <1>2, <2>2, <2>3, <3>1, <3>3
    <3> QED BY <2>1, <3>2, <3>3
  <2> QED BY <2>4, <2>5 DEF StackInOrder
<1>9. /\ Len(visiting') = m + 1 /\ visiting'[m + 1] = [node |-> v, rest |-> adjacency[v]]
      /\ \A i \in 1..m : visiting'[i] = calls[i]
      /\ \A i \in 1..(m + 1) : i = m + 1 \/ i \in 1..m
  BY <1>a, <1>3
<1>10. NodeOf(m + 1)' = v /\ \A i \in 1..m : NodeOf(i)' = NodeOf(i) /\ NodeOf(i) \in On
  BY <1>a, <1>0, <1>2, <1>9 DEF NodeOf, CallsInOrder
<1>11. Off' = Off
  <2>1. Visited' = Visited \cup {v}
    <3>1. \A x \in Path : indices'[x] = -1 <=> indices[x] = -1 /\ x # v BY <1>2, <1>4
    <3> QED BY <1>2, <3>1 DEF Visited, Unvisited
  <2> QED BY <1>2, <1>7, <2>1 DEF Off
<1>12. adjacency \in [Path -> SUBSET Path] /\ adjacency[v] \subseteq Path BY <1>0, <1>2 DEF SearchTyped
<1>13. \A x \in On : x \in Path /\ x # v /\ indices'[x] = indices[x] /\ low'[x] = low[x] /\ indices[x] \in Nat /\ indices[x] < index
  BY <1>1, <1>2, <1>4
<1>14. /\ \A x \in On : \A i \in 1..m : Within(i, x)' <=> Within(i, x)
       /\ \A x \in On : ~Within(m + 1, x)'
       /\ \A i \in 1..m : ~Within(i, v)'
       /\ Within(m + 1, v)'
  <2>1. ASSUME NEW x \in On, NEW i \in 1..m PROVE Within(i, x)' <=> Within(i, x)
    <3>1. CASE i = m
      <4>1. i < Len(visiting') /\ NodeOf(i + 1)' = v /\ indices'[x] < indices'[v] BY <1>2, <1>4, <1>9, <1>10, <1>13, <3>1
      <4> QED BY <1>a, <1>7, <1>9, <1>10, <1>13, <3>1, <4>1 DEF Within
    <3>2. CASE i < m
      <4>1. i + 1 \in 1..m BY <1>2, <3>2
      <4> QED BY <1>a, <1>2, <1>7, <1>9, <1>10, <1>13, <3>2, <4>1 DEF Within
    <3> QED BY <1>2, <3>1, <3>2
  <2>2. ASSUME NEW x \in On PROVE ~Within(m + 1, x)'
    <3>1. indices'[NodeOf(m + 1)'] = index /\ indices'[x] = indices[x] /\ indices[x] \in Nat /\ indices[x] < index
      BY <1>4, <1>10, <1>13
    <3> QED BY <1>2, <3>1 DEF Within
  <2>3. ASSUME NEW i \in 1..m PROVE ~Within(i, v)'
    <3>1. CASE i = m
      <4>1. i < Len(visiting') /\ NodeOf(i + 1)' = v BY <1>2, <1>9, <1>10, <3>1
      <4> QED BY <1>2, <1>4, <4>1 DEF Within
    <3>2. CASE i < m
      <4>1. i + 1 \in 1..m BY <1>2, <3>2
      <4>2. i < Len(visiting') /\ indices'[NodeOf(i + 1)'] < index BY <1>2, <1>9, <1>10, <1>13, <3>2, <4>1
      <4>3. indices'[NodeOf(i + 1)'] \in Int BY <1>10, <1>13, <4>1
      <4> QED BY <1>2, <1>4, <4>2, <4>3 DEF Within
    <3> QED BY <1>2, <3>1, <3>2
  <2>4. Within(m + 1, v)' BY <1>2, <1>4, <1>7, <1>9, <1>10 DEF Within
  <2> QED BY <2>1, <2>2, <2>3, <2>4
<1>15. CallsInOrder'
  <2>1. \A i \in 1..(m + 1) : NodeOf(i)' \in On' BY <1>7, <1>9, <1>10
  <2>2. ASSUME NEW i \in 1..(m + 1), NEW j \in 1..(m + 1), i < j PROVE indices'[NodeOf(i)'] < indices'[NodeOf(j)']
    <3>1. i \in 1..m /\ indices'[NodeOf(i)'] = indices[NodeOf(i)] /\ indices[NodeOf(i)] < index
      BY <1>10, <1>13, <2>2
    <3>2. CASE j \in 1..m BY <1>a, <1>0, <1>10, <1>13, <2>2, <3>1, <3>2 DEF CallsInOrder
    <3>3. CASE j = m + 1 BY <1>4, <1>10, <3>1, <3>3
    <3> QED BY <1>9, <3>2, <3>3
  <2>3. ASSUME NEW i \in 1..(m + 1), NEW j \in 1..(m + 1), i <= j
        PROVE  Reaches(adjacency, NodeOf(i)', NodeOf(j)')
    <3>1. CASE j \in 1..m
      <4>1. i \in 1..m BY <2>3, <3>1
      <4> QED BY <1>a, <1>0, <1>10, <2>3, <3>1, <4>1 DEF CallsInOrder
    <3>2. CASE i = m + 1 /\ j = m + 1 BY <1>2, <1>10, <1>12, <3>2, ReachesFacts
    <3>3. CASE i \in 1..m /\ j = m + 1
      <4>1. m \in 1..m /\ i <= m /\ m > 0 BY <3>3
      <4>2. Reaches(adjacency, NodeOf(i), NodeOf(m)) BY <1>a, <1>0, <3>3, <4>1 DEF CallsInOrder
      <4>3. NodeOf(i) \in Path /\ NodeOf(m) \in Path BY <1>10, <1>13, <3>3, <4>1
      <4>4. v \in adjacency[NodeOf(m)] BY <1>a, <4>1
      <4>5. Reaches(adjacency, NodeOf(m), v) BY <1>2, <1>12, <4>3, <4>4, ReachesFacts
      <4>6. Reaches(adjacency, NodeOf(i), v) BY <1>2, <1>12, <4>2, <4>3, <4>5, ReachesFacts
      <4> QED BY <1>10, <3>3, <4>6
    <3> QED BY <1>9, <2>3, <3>1, <3>2, <3>3
  <2> QED BY <1>3, <1>9, <2>1, <2>2, <2>3 DEF CallsInOrder
<1>16. StackBelongs'
  <2>1. ASSUME NEW x \in On PROVE \E i \in 1..(m + 1) : Within(i, x)'
    <3>1. PICK i \in 1..m : Within(i, x) BY <1>a, <1>0 DEF StackBelongs
    <3>2. i \in 1..(m + 1) /\ Within(i, x)' BY <1>14, <3>1
    <3> QED BY <3>2
  <2>2. m + 1 \in 1..(m + 1) /\ Within(m + 1, v)' BY <1>14
  <2>3. ASSUME NEW x \in On, NEW i \in 1..(m + 1), Within(i, x)' PROVE Both(adjacency, NodeOf(i)', x)
    <3>1. i \in 1..m BY <1>9, <1>14, <2>3
    <3>2. Within(i, x) BY <1>14, <2>3, <3>1
    <3>3. Both(adjacency, NodeOf(i), x) BY <1>a, <1>0, <3>1, <3>2 DEF StackBelongs
    <3> QED BY <1>10, <3>1, <3>3
  <2>4. ASSUME NEW i \in 1..(m + 1), Within(i, v)' PROVE Both(adjacency, NodeOf(i)', v)
    <3>1. i = m + 1 BY <1>9, <1>14, <2>4
    <3>2. Reaches(adjacency, v, v) BY <1>2, <1>12, ReachesFacts
    <3> QED BY <1>10, <3>1, <3>2 DEF Both
  <2> QED BY <1>3, <1>7, <1>9, <2>1, <2>2, <2>3, <2>4 DEF StackBelongs
<1>17. LowReached'
  <2>1. ASSUME NEW i \in 1..m PROVE \E y \in On' : LowIs(i, y)'
    <3>1. PICK y \in On : LowIs(i, y) BY <1>a, <1>0 DEF LowReached
    <3>2. LowIs(i, y)' BY <1>3, <1>10, <1>13, <3>1 DEF LowIs
    <3> QED BY <1>7, <3>2
  <2>2. v \in On' /\ LowIs(m + 1, v)'
    <3>1. Reaches(adjacency, v, v) /\ v \in On' BY <1>2, <1>7, <1>12, ReachesFacts
    <3> QED BY <1>2, <1>3, <1>4, <1>10, <3>1 DEF LowIs
  <2> QED BY <1>9, <2>1, <2>2 DEF LowReached
<1>18. LookedAt'
  <2> SUFFICES ASSUME NEW i \in 1..(m + 1), NEW x \in On', Within(i, x)', NEW w \in adjacency[x]
               PROVE  \/ x = NodeOf(i)' /\ w \in visiting'[i].rest
                      \/ w \in Off
                      \/ w \in On' /\ low'[NodeOf(i)'] <= indices'[w]
    BY <1>3, <1>9, <1>11 DEF LookedAt
  <2>1. CASE x = v BY <1>9, <1>10, <1>14, <2>1
  <2>2. CASE x \in On
    <3>1. i \in 1..m /\ Within(i, x) BY <1>9, <1>14, <2>2
    <3>2. \/ x = NodeOf(i) /\ w \in visiting[i].rest
          \/ w \in Off
          \/ w \in On /\ low[NodeOf(i)] <= indices[w]
      BY <1>a, <1>0, <2>2, <3>1 DEF LookedAt
    <3>3. CASE x = NodeOf(i) /\ w \in visiting[i].rest /\ w # v
      <4>1. w \in calls[i].rest BY <1>a, <3>1, <3>3
      <4> QED BY <1>9, <1>10, <3>1, <3>3, <4>1
    <3>4. CASE w = v
      <4>1. PICK y \in On : LowIs(i, y) BY <1>a, <1>0, <3>1 DEF LowReached
      <4>2. low[NodeOf(i)] <= index /\ low'[NodeOf(i)'] = low[NodeOf(i)]
        BY <1>2, <1>10, <1>13, <3>1, <4>1 DEF LowIs
      <4> QED BY <1>4, <1>7, <3>4, <4>2
    <3>5. CASE w \in On /\ low[NodeOf(i)] <= indices[w] BY <1>7, <1>10, <1>13, <3>1, <3>5
    <3> QED BY <3>2, <3>3, <3>4, <3>5
  <2> QED BY <1>7, <2>1, <2>2
<1>19. LeftIsFound' BY <1>0, <1>3, <1>11 DEF LeftIsFound
<1>20. \A i \in 1..(m + 1) : visiting'[i].rest \subseteq adjacency[NodeOf(i)']
  <2>1. \A i \in 1..m : visiting'[i].rest \subseteq visiting[i].rest BY <1>a, <1>9
  <2>2. visiting'[m + 1].rest = adjacency[v] BY <1>9
  <2> QED BY <1>0, <1>9, <1>10, <2>1, <2>2
<1> QED BY <1>3, <1>5, <1>8, <1>9, <1>15, <1>16, <1>17, <1>18, <1>19, <1>20 DEF SearchInv

\* There is a smallest path.
LEMMA SmallestIn == ASSUME NEW S \in SUBSET Path, S # {} PROVE Smallest(S) \in S
<1> DEFINE below == OpToRel(<, Nat)
<1>1. S \subseteq Nat BY DependenciesAssumption
<1>2. PICK p \in S : \A q \in S : ~(q < p)
  <2>1. IsWellFoundedOn(below, Nat) BY NatLessThanWellFounded
  <2>2. \E p \in S : \A q \in S : <<q, p>> \notin below
    <3> HIDE DEF below
    <3> QED BY <1>1, <2>1, WFMin
  <2> QED BY <1>1, <2>2 DEF OpToRel
<1>3. \A q \in S : p <= q BY <1>1, <1>2
<1> QED BY <1>3, Zenon DEF Smallest

\* The call under way, and the target it takes.
LEMMA CallIs ==
  ASSUME SearchInv, visiting # <<>>
  PROVE  /\ Len(visiting) \in Nat \ {0} /\ Call = visiting[Len(visiting)] /\ Call.node = NodeOf(Len(visiting))
         /\ Call.node \in Path /\ Call.rest \subseteq adjacency[Call.node] /\ adjacency[Call.node] \subseteq Path
         /\ Call.rest # {} =>
              /\ Target \in Call.rest
              /\ Taken \in Seq([node : Path, rest : SUBSET Path]) /\ Len(Taken) = Len(visiting)
              /\ \A i \in 1..Len(visiting) :
                   /\ Taken[i].node = NodeOf(i)
                   /\ Taken[i].rest = IF i = Len(visiting) THEN visiting[i].rest \ {Target} ELSE visiting[i].rest
<1>1. /\ visiting \in Seq([node : Path, rest : SUBSET Path]) /\ adjacency \in [Path -> SUBSET Path]
      /\ \A i \in 1..Len(visiting) : visiting[i].rest \subseteq adjacency[NodeOf(i)]
  BY DEF SearchInv, SearchTyped
<1>2. Len(visiting) \in Nat \ {0} /\ Len(visiting) \in 1..Len(visiting) BY <1>1
<1>3. Call = visiting[Len(visiting)] /\ Call.node = NodeOf(Len(visiting)) BY DEF Call, NodeOf
<1>8. \A i \in 1..Len(visiting) : visiting[i] \in [node : Path, rest : SUBSET Path]
  <2> DEFINE R == [node : Path, rest : SUBSET Path]
  <2>1. visiting \in Seq(R) BY <1>1
  <2> HIDE DEF R
  <2>2. \A i \in 1..Len(visiting) : visiting[i] \in R BY <2>1
  <2> QED BY <2>2 DEF R
<1>4. Call \in [node : Path, rest : SUBSET Path] BY <1>2, <1>3, <1>8
<1>5. Call.node \in Path /\ Call.rest \subseteq adjacency[Call.node] /\ adjacency[Call.node] \subseteq Path
  BY <1>1, <1>2, <1>3, <1>4
<1>6. Call.rest # {} => Target \in Call.rest BY <1>4, <1>5, SmallestIn DEF Target
<1>7. /\ Taken \in Seq([node : Path, rest : SUBSET Path]) /\ Len(Taken) = Len(visiting)
      /\ \A i \in 1..Len(visiting) :
           /\ Taken[i].node = NodeOf(i)
           /\ Taken[i].rest = IF i = Len(visiting) THEN visiting[i].rest \ {Target} ELSE visiting[i].rest
  <2> DEFINE w == Target
             e == [node |-> Call.node, rest |-> Call.rest \ {w}]
  <2>1. e \in [node : Path, rest : SUBSET Path] BY <1>4
  <2>2. Taken = [visiting EXCEPT ![Len(visiting)] = e]
    <3>1. [Call EXCEPT !.rest = Call.rest \ {w}] = e BY <1>4
    <3>2. Taken = [visiting EXCEPT ![Len(visiting)] = [Call EXCEPT !.rest = Call.rest \ {w}]] BY <1>3, Zenon DEF Taken
    <3> QED BY <3>1, <3>2
  <2> HIDE DEF w
  <2>3. Taken[Len(visiting)].node = NodeOf(Len(visiting)) /\ Taken[Len(visiting)].rest = visiting[Len(visiting)].rest \ {w}
    BY <1>1, <1>2, <1>3, <2>2
  <2>4. \A i \in 1..Len(visiting) : i # Len(visiting) => Taken[i] = visiting[i] BY <1>1, <1>2, <2>2
  <2>5. Taken \in Seq([node : Path, rest : SUBSET Path]) /\ Len(Taken) = Len(visiting) BY <1>1, <1>2, <2>1, <2>2
  <2> QED BY <2>3, <2>4, <2>5 DEF w, NodeOf
<1> QED BY <1>2, <1>3, <1>5, <1>6, <1>7

\* A target that was visited before: low is lowered to it if it is on the stack.
LEMMA LookBackStep ==
  ASSUME SearchInv, LookBack
  PROVE  SearchInv'
<1>a. PICK m \in Nat : m = Len(visiting)
  <2>1. visiting \in Seq([node : Path, rest : SUBSET Path]) BY DEF SearchInv, SearchTyped
  <2> QED BY <2>1
<1>0. /\ SearchTyped /\ StackInOrder /\ CallsInOrder /\ StackBelongs /\ LowReached /\ LookedAt /\ LeftIsFound
      /\ \A i \in 1..m : visiting[i].rest \subseteq adjacency[NodeOf(i)]
  BY <1>a DEF SearchInv
<1>1. /\ visiting # <<>> /\ Call.rest # {} /\ Target \notin Unvisited
      /\ low' = [low EXCEPT ![Call.node] = Lower(Call.node, Target)] /\ visiting' = Taken
      /\ UNCHANGED <<index, indices, stack, cycles, adjacency>>
  BY DEF LookBack, Detecting
<1>b. PICK v \in Path : v = Call.node BY <1>1, CallIs
<1>c. PICK w \in adjacency[v] : w = Target BY <1>1, <1>b, CallIs
<1>2. /\ m \in 1..m /\ v = NodeOf(m) /\ w \in Path /\ w \in visiting[m].rest /\ adjacency[v] \subseteq Path
      /\ visiting' \in Seq([node : Path, rest : SUBSET Path]) /\ Len(visiting') = m
      /\ \A i \in 1..m : visiting'[i].node = NodeOf(i)
                          /\ visiting'[i].rest = IF i = m THEN visiting[i].rest \ {w} ELSE visiting[i].rest
  <2> DEFINE R == [node : Path, rest : SUBSET Path]
  <2>1. /\ m \in Nat \ {0} /\ Call = visiting[m] /\ Call.node = NodeOf(m)
        /\ Call.rest \subseteq adjacency[Call.node] /\ adjacency[Call.node] \subseteq Path
        /\ Target \in Call.rest
        /\ Taken \in Seq(R) /\ Len(Taken) = m
        /\ \A i \in 1..m : /\ Taken[i].node = NodeOf(i)
                           /\ Taken[i].rest = IF i = m THEN visiting[i].rest \ {Target} ELSE visiting[i].rest
    BY <1>a, <1>1, CallIs
  <2> HIDE DEF R
  <2>2. m \in 1..m /\ v = NodeOf(m) /\ w \in visiting[m].rest /\ adjacency[v] \subseteq Path BY <1>b, <1>c, <2>1
  <2>3. visiting' = Taken BY <1>1
  <2> QED BY <1>c, <2>1, <2>2, <2>3 DEF R
<1>3. /\ On \subseteq Path /\ \A x \in On : indices[x] \in 0..(index - 1) /\ x \in Visited
      /\ Off \subseteq Path /\ Off \cap On = {}
  BY <1>0, OnStack
<1>4. w \in Visited /\ (w \in On \/ w \in Off) BY <1>1, <1>2, <1>c DEF Visited, Off
<1>5. /\ low' \in [Path -> Int] /\ \A p \in Path \ {v} : low'[p] = low[p]
      /\ low'[v] = low[v] \/ (w \in On /\ low'[v] = indices[w] /\ low'[v] <= low[v])
      /\ low'[v] <= low[v] /\ (w \in On => low'[v] <= indices[w])
  <2>1. low[v] \in Int /\ indices[w] \in Int /\ low \in [Path -> Int] BY <1>0, <1>2 DEF SearchTyped
  <2>5. low' = [low EXCEPT ![v] = Lower(v, w)] BY <1>1, <1>b, <1>c
  <2>6. Lower(v, w) \in Int => low' \in [Path -> Int] /\ low'[v] = Lower(v, w) BY <2>1, <2>5
  <2>2. \A p \in Path \ {v} : low'[p] = low[p] BY <2>1, <2>5
  <2>3. CASE w \in On
    <3>1. Lower(v, w) = Less(low[v], indices[w]) BY <2>3 DEF Lower, On
    <3>2. Lower(v, w) \in Int /\ Lower(v, w) <= low[v] /\ Lower(v, w) <= indices[w]
          /\ Lower(v, w) \in {low[v], indices[w]}
      BY <2>1, <3>1 DEF Less
    <3>3. low' \in [Path -> Int] /\ low'[v] = Lower(v, w) BY <2>6, <3>2
    <3>4. low'[v] <= low[v] /\ low'[v] <= indices[w] /\ low'[v] \in {low[v], indices[w]} BY <3>2, <3>3
    <3> QED BY <2>2, <2>3, <3>3, <3>4
  <2>4. CASE w \notin On
    <3>1. Lower(v, w) = low[v] BY <2>4 DEF Lower, On
    <3>2. low' \in [Path -> Int] /\ low'[v] = low[v] BY <2>1, <2>6, <3>1
    <3>3. low'[v] <= low[v] BY <2>1, <3>2
    <3> QED BY <2>2, <2>4, <3>2, <3>3
  <2> QED BY <2>3, <2>4
<1>6. On' = On /\ Off' = Off /\ \A i \in 1..m : NodeOf(i)' = NodeOf(i) /\ NodeOf(i) \in On
  <2>1. On' = On /\ Off' = Off BY <1>1 DEF On, Off, Visited, Unvisited
  <2> QED BY <1>a, <1>0, <1>2, <2>1 DEF NodeOf, CallsInOrder
<1>7. \A i \in 1..m : \A x \in On : Within(i, x)' <=> Within(i, x)
  <2> SUFFICES ASSUME NEW i \in 1..m, NEW x \in On PROVE Within(i, x)' <=> Within(i, x)
    OBVIOUS
  <2>1. i < m => NodeOf(i + 1)' = NodeOf(i + 1) BY <1>6
  <2> QED BY <1>a, <1>1, <1>2, <1>6, <2>1 DEF Within
<1>8. SearchTyped' BY <1>0, <1>1, <1>2, <1>5 DEF SearchTyped
<1>9. StackInOrder' BY <1>0, <1>1 DEF StackInOrder
<1>10. CallsInOrder' BY <1>a, <1>0, <1>1, <1>2, <1>6 DEF CallsInOrder
<1>11. StackBelongs'
  <2>1. \A x \in On : \E i \in 1..m : Within(i, x)' BY <1>a, <1>0, <1>7 DEF StackBelongs
  <2>2. \A x \in On : \A i \in 1..m : Within(i, x)' => Both(adjacency, NodeOf(i)', x)
    BY <1>a, <1>0, <1>6, <1>7 DEF StackBelongs
  <2> QED BY <1>1, <1>2, <1>6, <2>1, <2>2 DEF StackBelongs
<1>12. LowReached'
  <2> SUFFICES ASSUME NEW i \in 1..m PROVE \E y \in On : LowIs(i, y)'
    BY <1>2, <1>6 DEF LowReached
  <2>1. PICK y \in On : LowIs(i, y) BY <1>a, <1>0 DEF LowReached
  <2>2. CASE low'[NodeOf(i)] = low[NodeOf(i)]
    <3>1. LowIs(i, y)' BY <1>1, <1>6, <2>1, <2>2 DEF LowIs
    <3> QED BY <3>1
  <2>3. CASE NodeOf(i) = v /\ w \in On /\ low'[v] = indices[w] /\ low'[v] <= low[v]
    <3>1. Reaches(adjacency, v, w) BY <1>0, <1>2, ReachesFacts DEF SearchTyped
    <3>2. low[v] <= indices[v] /\ low[v] \in Int /\ indices[v] \in Int /\ indices[w] \in Int
      BY <1>0, <1>2, <2>1, <2>3 DEF LowIs, SearchTyped
    <3>3. indices[w] <= indices[v] BY <2>3, <3>2
    <3>4. LowIs(i, w)' BY <1>1, <1>6, <2>3, <3>1, <3>3 DEF LowIs
    <3> QED BY <2>3, <3>4
  <2>4. NodeOf(i) \in Path BY <1>3, <1>6
  <2> QED BY <1>5, <2>2, <2>3, <2>4
<1>13. LookedAt'
  <2> SUFFICES ASSUME NEW i \in 1..m, NEW x \in On, Within(i, x), NEW u \in adjacency[x]
               PROVE  \/ x = NodeOf(i) /\ u \in visiting'[i].rest
                      \/ u \in Off
                      \/ u \in On /\ low'[NodeOf(i)] <= indices[u]
    BY <1>1, <1>2, <1>6, <1>7 DEF LookedAt
  <2>1. \/ x = NodeOf(i) /\ u \in visiting[i].rest
        \/ u \in Off
        \/ u \in On /\ low[NodeOf(i)] <= indices[u]
    BY <1>a, <1>0 DEF LookedAt
  <2>2. low'[NodeOf(i)] <= low[NodeOf(i)] /\ low'[NodeOf(i)] \in Int /\ low[NodeOf(i)] \in Int
    <3>1. NodeOf(i) \in Path /\ low[NodeOf(i)] \in Int /\ low'[NodeOf(i)] \in Int
      BY <1>0, <1>3, <1>5, <1>6 DEF SearchTyped
    <3>2. NodeOf(i) = v \/ low'[NodeOf(i)] = low[NodeOf(i)] BY <1>5, <3>1
    <3> QED BY <1>5, <3>1, <3>2
  <2>3. CASE x = NodeOf(i) /\ u \in visiting[i].rest
    <3>1. CASE i = m /\ u = w BY <1>2, <1>4, <1>5, <3>1
    <3>2. CASE ~(i = m /\ u = w) BY <1>2, <2>3, <3>2
    <3> QED BY <3>1, <3>2
  <2>4. CASE u \in On /\ low[NodeOf(i)] <= indices[u]
    <3>1. indices[u] \in Int BY <1>3, <2>4
    <3> QED BY <2>2, <2>4, <3>1
  <2> QED BY <2>1, <2>3, <2>4
<1>14. LeftIsFound' BY <1>0, <1>1, <1>6 DEF LeftIsFound
<1>15. \A i \in 1..m : visiting'[i].rest \subseteq adjacency[NodeOf(i)'] BY <1>0, <1>2, <1>6
<1> QED BY <1>1, <1>2, <1>8, <1>9, <1>10, <1>11, <1>12, <1>13, <1>14, <1>15 DEF SearchInv

\* Being in one component is an equivalence.
LEMMA BothFacts ==
  ASSUME NEW d \in [Path -> SUBSET Path]
  PROVE  /\ \A p \in Path : Both(d, p, p)
         /\ \A p, q \in Path : Both(d, p, q) => Both(d, q, p)
         /\ \A p, q, r \in Path : Both(d, p, q) /\ Both(d, q, r) => Both(d, p, r)
         /\ \A p, q \in Path : Both(d, p, q) => ComponentOf(d, p) = ComponentOf(d, q)
<1>1. \A p \in Path : Both(d, p, p) BY ReachesFacts DEF Both
<1>2. \A p, q \in Path : Both(d, p, q) => Both(d, q, p) BY DEF Both
<1>3. \A p, q, r \in Path : Both(d, p, q) /\ Both(d, q, r) => Both(d, p, r) BY ReachesFacts DEF Both
<1>4. \A p, q \in Path : Both(d, p, q) => ComponentOf(d, p) = ComponentOf(d, q)
  BY <1>2, <1>3 DEF ComponentOf
<1> QED BY <1>1, <1>2, <1>3, <1>4

\* A node of the stack splits it into what was visited before and what was not.
LEMMA StackSplit ==
  ASSUME SearchTyped, StackInOrder, NEW v \in On, NEW from, from = CHOOSE i \in DOMAIN stack : stack[i] = v
  PROVE  /\ Range(SubSeq(stack, from, Len(stack))) = {x \in On : indices[v] <= indices[x]}
         /\ Range(SubSeq(stack, 1, from - 1)) = {x \in On : indices[x] < indices[v]}
         /\ SubSeq(stack, 1, from - 1) \in Seq(Path) /\ Len(SubSeq(stack, 1, from - 1)) \in 0..Len(stack)
         /\ \A i \in 1..Len(SubSeq(stack, 1, from - 1)) : SubSeq(stack, 1, from - 1)[i] = stack[i]
<1>1. /\ stack \in Seq(Path) /\ DOMAIN stack = 1..Len(stack) /\ Len(stack) \in Nat
      /\ \A x \in On : indices[x] \in Int /\ \E i \in 1..Len(stack) : stack[i] = x
      /\ \A i \in 1..Len(stack) : stack[i] \in On
      /\ \A i, j \in 1..Len(stack) : i < j => indices[stack[i]] < indices[stack[j]]
  BY OnStack DEF SearchTyped, StackInOrder
<1>2. from \in 1..Len(stack) /\ stack[from] = v BY <1>1
<1>3. \A i \in 1..Len(stack) : (from <= i) <=> (indices[v] <= indices[stack[i]])
  <2> SUFFICES ASSUME NEW i \in 1..Len(stack) PROVE (from <= i) <=> (indices[v] <= indices[stack[i]])
    OBVIOUS
  <2>1. indices[v] \in Int /\ indices[stack[i]] \in Int BY <1>1
  <2>2. i < from => indices[stack[i]] < indices[v] BY <1>1, <1>2
  <2>3. from < i => indices[v] < indices[stack[i]] BY <1>1, <1>2
  <2>4. i = from => indices[v] = indices[stack[i]] BY <1>2
  <2> QED BY <1>2, <2>1, <2>2, <2>3, <2>4
<1>4. Range(SubSeq(stack, from, Len(stack))) = {x \in On : indices[v] <= indices[x]}
  <2> DEFINE s == SubSeq(stack, from, Len(stack))
  <2>1. DOMAIN s = 1..(Len(stack) - from + 1) /\ \A i \in DOMAIN s : s[i] = stack[from + i - 1] BY <1>1, <1>2
  <2> HIDE DEF s
  <2>2. ASSUME NEW x \in Range(s) PROVE x \in On /\ indices[v] <= indices[x]
    <3>1. PICK i \in DOMAIN s : x = s[i] BY DEF Range
    <3>2. from + i - 1 \in 1..Len(stack) /\ from <= from + i - 1 /\ x = stack[from + i - 1] BY <1>1, <1>2, <2>1, <3>1
    <3> QED BY <1>1, <1>3, <3>2
  <2>3. ASSUME NEW x \in On, indices[v] <= indices[x] PROVE x \in Range(s)
    <3>1. PICK i \in 1..Len(stack) : stack[i] = x BY <1>1
    <3>2. from <= i BY <1>3, <2>3, <3>1
    <3>3. i - from + 1 \in DOMAIN s /\ from + (i - from + 1) - 1 = i BY <1>1, <1>2, <2>1, <3>2
    <3>4. s[i - from + 1] = x BY <2>1, <3>1, <3>3
    <3> QED BY <3>3, <3>4 DEF Range
  <2>4. Range(s) = {x \in On : indices[v] <= indices[x]} BY <2>2, <2>3
  <2> QED BY <2>4 DEF s
<1>5. SubSeq(stack, 1, from - 1) \in Seq(Path) /\ Len(SubSeq(stack, 1, from - 1)) = from - 1
      /\ \A i \in 1..(from - 1) : SubSeq(stack, 1, from - 1)[i] = stack[i]
  BY <1>1, <1>2
<1>6. Range(SubSeq(stack, 1, from - 1)) = {x \in On : indices[x] < indices[v]}
  <2> DEFINE s == SubSeq(stack, 1, from - 1)
  <2>1. DOMAIN s = 1..(from - 1) /\ \A i \in DOMAIN s : s[i] = stack[i] BY <1>1, <1>2
  <2> HIDE DEF s
  <2>2. ASSUME NEW x \in Range(s) PROVE x \in On /\ indices[x] < indices[v]
    <3>1. PICK i \in DOMAIN s : x = s[i] BY DEF Range
    <3>2. i \in 1..Len(stack) /\ i < from /\ x = stack[i] BY <1>1, <1>2, <2>1, <3>1
    <3> QED BY <1>1, <1>2, <3>2
  <2>3. ASSUME NEW x \in On, indices[x] < indices[v] PROVE x \in Range(s)
    <3>1. PICK i \in 1..Len(stack) : stack[i] = x BY <1>1
    <3>2. ~(from <= i) BY <1>1, <1>3, <2>3, <3>1
    <3>3. i \in DOMAIN s BY <1>1, <1>2, <2>1, <3>2
    <3> QED BY <2>1, <3>1, <3>3 DEF Range
  <2>4. Range(s) = {x \in On : indices[x] < indices[v]} BY <2>2, <2>3
  <2> QED BY <2>4 DEF s
<1> QED BY <1>1, <1>2, <1>4, <1>5, <1>6

\* visit(v) ends, and low is when v was visited: what is on the stack from v on is the
\* component of v, and leads only to itself and to what was left before.
LEMMA RootIs ==
  ASSUME SearchInv, visiting # <<>>, Call.rest = {}, low[Call.node] = indices[Call.node],
         NEW C, C = {x \in On : indices[Call.node] <= indices[x]}
  PROVE  /\ Call.node \in C /\ C = ComponentOf(adjacency, Call.node)
         /\ \A x \in C \cup Off : adjacency[x] \subseteq C \cup Off
<1>a. PICK m \in Nat : m = Len(visiting) /\ m \in 1..m /\ Call.node = NodeOf(m) /\ Call = visiting[m]
  <2>1. Len(visiting) \in Nat \ {0} /\ Call = visiting[Len(visiting)] /\ Call.node = NodeOf(Len(visiting)) BY CallIs
  <2> QED BY <2>1
<1>b. PICK v \in On : v = Call.node BY <1>a DEF SearchInv, CallsInOrder
<1>1. /\ adjacency \in [Path -> SUBSET Path] /\ On \subseteq Path /\ Off \subseteq Path /\ Off \cap On = {}
      /\ \A x \in On : indices[x] \in Int
      /\ \A x \in Off : adjacency[x] \subseteq Off
  BY OnStack DEF SearchInv, SearchTyped, LeftIsFound
<1>2. \A x \in On : x \in C <=> Within(m, x) BY <1>a, <1>b DEF Within
<1>3. v \in C BY <1>1, <1>b
<1>4. \A x \in C : Both(adjacency, v, x) BY <1>a, <1>b, <1>2 DEF SearchInv, StackBelongs
<1>5. ASSUME NEW x \in C, NEW w \in adjacency[x] PROVE w \in C \cup Off
  <2>1. \/ x = NodeOf(m) /\ w \in visiting[m].rest
        \/ w \in Off
        \/ w \in On /\ low[NodeOf(m)] <= indices[w]
    BY <1>a, <1>2, <1>5 DEF SearchInv, LookedAt
  <2> QED BY <1>a, <2>1
<1>6. C \cup Off \in SUBSET Path /\ ClosedSet(adjacency, C \cup Off) /\ ClosedSet(adjacency, Off)
  BY <1>1, <1>5 DEF ClosedSet
<1>7. ASSUME NEW q \in Path, Both(adjacency, v, q) PROVE q \in C
  <2>1. q \in C \cup Off BY <1>1, <1>3, <1>6, <1>7, ReachesFacts DEF Both
  <2>2. q \notin Off
    <3>1. q \in Off => v \in Off BY <1>1, <1>6, <1>7, ReachesFacts DEF Both
    <3> QED BY <1>1, <3>1
  <2> QED BY <2>1, <2>2
<1>8. C = ComponentOf(adjacency, v) BY <1>1, <1>4, <1>7 DEF ComponentOf
<1> QED BY <1>1, <1>3, <1>5, <1>8, <1>b

\* visit(v) ends: its caller is told of low.
LEMMA ReturnIs ==
  ASSUME SearchInv, Return
  PROVE  \E m \in Nat : \E v \in On :
           /\ m = Len(visiting) /\ m \in 1..m /\ Call = visiting[m] /\ v = NodeOf(m) /\ v = Call.node /\ v \in Path
           /\ visiting' \in Seq([node : Path, rest : SUBSET Path]) /\ Len(visiting') = m - 1
           /\ \A i \in 1..(m - 1) : visiting'[i] = visiting[i] /\ NodeOf(i)' = NodeOf(i) /\ NodeOf(i) \in On
           /\ low' \in [Path -> Int]
           /\ \A p \in Path : (m = 1 \/ p # NodeOf(m - 1)) => low'[p] = low[p]
           /\ m > 1 => low'[NodeOf(m - 1)] = Less(low[NodeOf(m - 1)], low[v])
           /\ \A i \in 1..m : \A j \in 1..m : i # j => NodeOf(i) # NodeOf(j)
<1> DEFINE R == [node : Path, rest : SUBSET Path]
<1>1. SearchTyped /\ StackInOrder /\ CallsInOrder /\ visiting \in Seq(R) /\ low \in [Path -> Int]
      /\ visiting # <<>>
  BY DEF SearchInv, SearchTyped, Return
<1> HIDE DEF R
<1>2. PICK m \in Nat : m = Len(visiting) /\ m \in 1..m /\ Call = visiting[m] /\ Call.node = NodeOf(m)
  <2>1. Len(visiting) \in Nat \ {0} /\ Call = visiting[Len(visiting)] /\ Call.node = NodeOf(Len(visiting))
    BY <1>1, CallIs
  <2> QED BY <2>1
<1>3. PICK v \in On : v = NodeOf(m) BY <1>1, <1>2 DEF CallsInOrder
<1>4. /\ On \subseteq Path /\ \A i \in 1..m : NodeOf(i) \in On /\ NodeOf(i) \in Path /\ indices[NodeOf(i)] \in Int
  BY <1>1, <1>2, OnStack DEF CallsInOrder
<1>5. visiting' = SubSeq(visiting, 1, m - 1) BY <1>2 DEF Return
<1>6. visiting' \in Seq(R) /\ Len(visiting') = m - 1 /\ \A i \in 1..(m - 1) : visiting'[i] = visiting[i]
  BY <1>1, <1>2, <1>5
<1>7. \A i \in 1..m : \A j \in 1..m : i # j => NodeOf(i) # NodeOf(j)
  <2>1. \A i, j \in 1..m : i < j => indices[NodeOf(i)] < indices[NodeOf(j)] BY <1>1, <1>2 DEF CallsInOrder
  <2> SUFFICES ASSUME NEW i \in 1..m, NEW j \in 1..m, i # j PROVE NodeOf(i) # NodeOf(j)
    OBVIOUS
  <2>2. i < j \/ j < i BY <1>2
  <2> QED BY <1>4, <2>1, <2>2
<1>8. /\ low' \in [Path -> Int]
      /\ \A p \in Path : (m = 1 \/ p # NodeOf(m - 1)) => low'[p] = low[p]
      /\ m > 1 => low'[NodeOf(m - 1)] = Less(low[NodeOf(m - 1)], low[v])
  <2>1. low' = IF m = 1 THEN low
               ELSE LET u == visiting[m - 1].node IN [low EXCEPT ![u] = Less(low[u], low[v])]
    BY <1>2, <1>3 DEF Return
  <2>2. CASE m = 1 BY <1>1, <2>1, <2>2
  <2>3. CASE m # 1
    <3>1. m - 1 \in 1..m /\ m > 1 BY <1>2, <2>3
    <3>2. PICK u \in Path : u = NodeOf(m - 1) BY <1>4, <3>1
    <3>3. low' = [low EXCEPT ![u] = Less(low[u], low[v])] BY <2>1, <2>3, <3>2 DEF NodeOf
    <3>4. Less(low[u], low[v]) \in Int BY <1>1, <1>3, <1>4, <3>2 DEF Less
    <3>5. low' \in [Path -> Int] /\ low'[u] = Less(low[u], low[v]) /\ \A p \in Path \ {u} : low'[p] = low[p]
      BY <1>1, <3>2, <3>3, <3>4
    <3> QED BY <2>3, <3>2, <3>5
  <2> QED BY <2>2, <2>3
<1>9. \A i \in 1..(m - 1) : visiting'[i] = visiting[i] /\ NodeOf(i)' = NodeOf(i) /\ NodeOf(i) \in On
  BY <1>2, <1>4, <1>6 DEF NodeOf
<1>10. visiting' \in Seq([node : Path, rest : SUBSET Path]) BY <1>6 DEF R
<1> QED BY <1>2, <1>3, <1>4, <1>6, <1>7, <1>8, <1>9, <1>10

\* visit(v) ends at the root of a component, which leaves the stack.
LEMMA PopStep ==
  ASSUME SearchInv, Return, low[Call.node] = indices[Call.node]
  PROVE  SearchInv'
<1>a. PICK m \in Nat : \E v \in On :
           /\ m = Len(visiting) /\ m \in 1..m /\ Call = visiting[m] /\ v = NodeOf(m) /\ v = Call.node /\ v \in Path
           /\ visiting' \in Seq([node : Path, rest : SUBSET Path]) /\ Len(visiting') = m - 1
           /\ \A i \in 1..(m - 1) : visiting'[i] = visiting[i] /\ NodeOf(i)' = NodeOf(i) /\ NodeOf(i) \in On
           /\ low' \in [Path -> Int]
           /\ \A p \in Path : (m = 1 \/ p # NodeOf(m - 1)) => low'[p] = low[p]
           /\ m > 1 => low'[NodeOf(m - 1)] = Less(low[NodeOf(m - 1)], low[v])
           /\ \A i \in 1..m : \A j \in 1..m : i # j => NodeOf(i) # NodeOf(j)
  BY ReturnIs
<1>b. PICK v \in On :
           /\ m = Len(visiting) /\ m \in 1..m /\ Call = visiting[m] /\ v = NodeOf(m) /\ v = Call.node /\ v \in Path
           /\ visiting' \in Seq([node : Path, rest : SUBSET Path]) /\ Len(visiting') = m - 1
           /\ \A i \in 1..(m - 1) : visiting'[i] = visiting[i] /\ NodeOf(i)' = NodeOf(i) /\ NodeOf(i) \in On
           /\ low' \in [Path -> Int]
           /\ \A p \in Path : (m = 1 \/ p # NodeOf(m - 1)) => low'[p] = low[p]
           /\ m > 1 => low'[NodeOf(m - 1)] = Less(low[NodeOf(m - 1)], low[v])
  BY <1>a
<1>c. v = Call.node /\ v = NodeOf(m) BY <1>b
<1>0. /\ SearchTyped /\ StackInOrder /\ CallsInOrder /\ StackBelongs /\ LowReached /\ LookedAt /\ LeftIsFound
      /\ \A i \in 1..m : visiting[i].rest \subseteq adjacency[NodeOf(i)]
  BY <1>b DEF SearchInv
<1>1. /\ On \subseteq Path /\ \A x \in On : indices[x] \in Int /\ x \in Visited /\ x \in Path
      /\ Off \subseteq Path /\ Off \cap On = {} /\ Visited = On \cup Off
      /\ adjacency \in [Path -> SUBSET Path]
  BY <1>0, OnStack DEF Off, SearchTyped
<1>2. /\ UNCHANGED <<index, indices, adjacency>> /\ visiting # <<>> /\ Call.rest = {} /\ low[v] = indices[v]
  BY <1>b DEF Return, Detecting
<1>3. PICK C \in SUBSET Path : C = {x \in On : indices[v] <= indices[x]} BY <1>1
<1>4. /\ v \in C /\ C = ComponentOf(adjacency, v)
      /\ \A x \in C \cup Off : adjacency[x] \subseteq C \cup Off
  BY <1>2, <1>3, <1>b, RootIs
<1>5. PICK from : from = CHOOSE i \in DOMAIN stack : stack[i] = v OBVIOUS
<1>6. /\ stack' = SubSeq(stack, 1, from - 1)
      /\ cycles' = IF C # {v} \/ v \in adjacency[v] THEN cycles \cup {C} ELSE cycles
  <2>1. Range(SubSeq(stack, from, Len(stack))) = C BY <1>0, <1>3, <1>5, StackSplit
  <2>2. /\ stack' = SubSeq(stack, 1, from - 1)
        /\ cycles' = IF Range(SubSeq(stack, from, Len(stack))) # {v} \/ v \in adjacency[v]
                      THEN cycles \cup {Range(SubSeq(stack, from, Len(stack)))} ELSE cycles
    BY <1>2, <1>5, <1>c, Zenon DEF Return
  <2> QED BY <2>1, <2>2
<1>7. /\ On' = {x \in On : indices[x] < indices[v]} /\ stack' \in Seq(Path) /\ Len(stack') \in 0..Len(stack)
      /\ \A i \in 1..Len(stack') : stack'[i] = stack[i]
  BY <1>0, <1>5, <1>6, StackSplit DEF On
<1>8. /\ On' = On \ C /\ Off' = Off \cup C
  <2>1. On' = On \ C BY <1>1, <1>3, <1>7
  <2>2. Visited' = Visited BY <1>2 DEF Visited, Unvisited
  <2>3. C \subseteq On BY <1>3
  <2> QED BY <1>1, <2>1, <2>2, <2>3 DEF Off
<1>9. \A i \in 1..(m - 1) : i \in 1..m /\ indices[NodeOf(i)] < indices[v] /\ NodeOf(i) \in On' /\ NodeOf(i) \in Path
  <2>1. \A i \in 1..(m - 1) : i \in 1..m /\ i < m BY <1>b
  <2>2. \A i \in 1..(m - 1) : indices[NodeOf(i)] < indices[NodeOf(m)] BY <1>0, <1>b, <2>1 DEF CallsInOrder
  <2> QED BY <1>1, <1>7, <1>b, <2>1, <2>2
<1>10. \A i \in 1..(m - 1) : low'[NodeOf(i)] = low[NodeOf(i)]
  <2>1. \A i \in 1..(m - 1) : i = m - 1 \/ NodeOf(i) # NodeOf(m - 1)
    BY <1>a, <1>b
  <2>2. CASE m > 1
    <3>1. m - 1 \in 1..(m - 1) BY <2>2
    <3>2. PICK u \in Path : u = NodeOf(m - 1) BY <1>9, <3>1
    <3>3. \E y \in On : LowIs(m - 1, y) BY <1>0, <1>9, <1>b, <3>1 DEF LowReached
    <3>4. low[u] <= indices[u] /\ indices[u] < indices[v] /\ indices[u] \in Int /\ low[u] \in Int
          /\ indices[v] \in Int
      BY <1>0, <1>1, <1>9, <3>1, <3>2, <3>3 DEF LowIs, SearchTyped
    <3>5. low[u] <= low[v] BY <1>2, <3>4
    <3>6. low'[u] = low[u] BY <1>b, <2>2, <3>2, <3>5 DEF Less
    <3> QED BY <1>9, <1>b, <2>1, <3>2, <3>6
  <2>3. CASE m = 1 BY <1>9, <1>b, <2>3
  <2> QED BY <1>b, <2>2, <2>3
<1>11. \A i \in 1..(m - 1) : \A x \in On' : Within(i, x)' <=> Within(i, x)
  <2> SUFFICES ASSUME NEW i \in 1..(m - 1), NEW x \in On' PROVE Within(i, x)' <=> Within(i, x)
    OBVIOUS
  <2>1. x \in On /\ indices[x] < indices[v] BY <1>7
  <2>2. CASE i = m - 1
    <3>0. i + 1 = m BY <1>b, <2>2
    <3>1. NodeOf(i + 1) = v BY <1>c, <3>0
    <3> QED BY <1>2, <1>9, <1>b, <2>1, <2>2, <3>1 DEF Within
  <2>3. CASE i < m - 1
    <3>1. i + 1 \in 1..(m - 1) /\ i < m BY <1>b, <2>3
    <3>2. NodeOf(i + 1)' = NodeOf(i + 1) BY <1>b, <3>1
    <3> QED BY <1>2, <1>9, <1>b, <2>1, <2>3, <3>1, <3>2 DEF Within
  <2> QED BY <1>b, <2>2, <2>3
<1>12. SearchTyped' BY <1>0, <1>2, <1>7, <1>b DEF SearchTyped
<1>13. StackInOrder'
  <2>1. \A i \in 1..Len(stack') : i \in 1..Len(stack)
    BY <1>0, <1>7 DEF SearchTyped
  <2> QED BY <1>0, <1>2, <1>7, <2>1 DEF StackInOrder
<1>14. CallsInOrder'
  <2>1. \A i \in 1..(m - 1) : NodeOf(i)' \in On' BY <1>9, <1>b
  <2>2. \A i, j \in 1..(m - 1) : i < j => indices[NodeOf(i)'] < indices[NodeOf(j)'] 
    BY <1>0, <1>9, <1>b DEF CallsInOrder
  <2>3. \A i, j \in 1..(m - 1) : i <= j => Reaches(adjacency, NodeOf(i)', NodeOf(j)')
    BY <1>0, <1>9, <1>b DEF CallsInOrder
  <2> QED BY <1>2, <1>b, <2>1, <2>2, <2>3 DEF CallsInOrder
<1>15. StackBelongs'
  <2>1. ASSUME NEW x \in On' PROVE \E i \in 1..(m - 1) : Within(i, x)'
    <3>1. x \in On /\ indices[x] < indices[v] BY <1>7
    <3>2. PICK i \in 1..m : Within(i, x) BY <1>0, <1>b, <3>1 DEF StackBelongs
    <3>3. i # m
      <4>1. Within(m, x) => indices[v] <= indices[x] BY <1>c DEF Within
      <4>2. indices[v] \in Int /\ indices[x] \in Int BY <1>1, <3>1
      <4> QED BY <3>1, <3>2, <4>1, <4>2
    <3>4. i \in 1..(m - 1) BY <1>b, <3>3
    <3> QED BY <1>11, <3>2, <3>4
  <2>2. ASSUME NEW x \in On', NEW i \in 1..(m - 1), Within(i, x)' PROVE Both(adjacency, NodeOf(i)', x)
    <3>1. x \in On /\ i \in 1..m /\ Within(i, x) BY <1>7, <1>9, <1>11, <2>2
    <3>2. Both(adjacency, NodeOf(i), x) BY <1>0, <1>b, <3>1 DEF StackBelongs
    <3> QED BY <1>b, <3>2
  <2> QED BY <1>2, <1>b, <2>1, <2>2 DEF StackBelongs
<1>16. LowReached'
  <2> SUFFICES ASSUME NEW i \in 1..(m - 1) PROVE \E y \in On' : LowIs(i, y)'
    BY <1>b DEF LowReached
  <2>1. PICK y \in On : LowIs(i, y) BY <1>0, <1>9, <1>b DEF LowReached
  <2>2. NodeOf(i) \in On /\ indices[y] <= indices[NodeOf(i)] BY <1>b, <2>1 DEF LowIs
  <2>3. y \in On' BY <1>1, <1>7, <1>9, <2>2
  <2>4. LowIs(i, y)' BY <1>2, <1>10, <1>b, <2>1 DEF LowIs
  <2> QED BY <2>3, <2>4
<1>17. LookedAt'
  <2> SUFFICES ASSUME NEW i \in 1..(m - 1), NEW x \in On', Within(i, x)', NEW w \in adjacency[x]
               PROVE  \/ x = NodeOf(i)' /\ w \in visiting'[i].rest
                      \/ w \in Off'
                      \/ w \in On' /\ low'[NodeOf(i)'] <= indices'[w]
    BY <1>2, <1>b DEF LookedAt
  <2>1. x \in On /\ i \in 1..m /\ Within(i, x) BY <1>7, <1>9, <1>11
  <2>2. \/ x = NodeOf(i) /\ w \in visiting[i].rest
        \/ w \in Off
        \/ w \in On /\ low[NodeOf(i)] <= indices[w]
    BY <1>0, <1>b, <2>1 DEF LookedAt
  <2> QED BY <1>2, <1>8, <1>10, <1>b, <2>2
<1>18. LeftIsFound'
  <2>1. \A x \in Off' : adjacency[x] \subseteq Off' BY <1>4, <1>8
  <2>2. \A p \in C : ComponentOf(adjacency, p) = C
    <3>1. \A p \in C : p \in Path /\ Both(adjacency, v, p) BY <1>4 DEF ComponentOf
    <3> QED BY <1>1, <1>4, <1>b, <3>1, BothFacts
  <2>3. cycles = {ComponentOf(adjacency, p) : p \in {q \in Off : ComponentOf(adjacency, q) # {q}}}
    BY <1>0 DEF LeftIsFound
  <2>4. v \notin adjacency[v] BY <1>0, <1>b DEF SearchTyped
  <2>5. CASE C = {v}
    <3>1. cycles' = cycles BY <1>6, <2>4, <2>5
    <3>2. {q \in Off : ComponentOf(adjacency, q) # {q}} = {q \in Off \cup C : ComponentOf(adjacency, q) # {q}}
      BY <2>2, <2>5
    <3> QED BY <1>2, <1>8, <2>1, <2>3, <3>1, <3>2 DEF LeftIsFound
  <2>6. CASE C # {v}
    <3>1. cycles' = cycles \cup {C} BY <1>6, <2>6
    <3>2. \A p \in C : C # {p} BY <1>4, <2>6
    <3>3. {q \in Off \cup C : ComponentOf(adjacency, q) # {q}} = {q \in Off : ComponentOf(adjacency, q) # {q}} \cup C
      BY <2>2, <3>2
    <3>4. cycles' = {ComponentOf(adjacency, p) : p \in {q \in Off \cup C : ComponentOf(adjacency, q) # {q}}}
      BY <1>4, <2>2, <2>3, <3>1, <3>3
    <3> QED BY <1>2, <1>8, <2>1, <3>4 DEF LeftIsFound
  <2> QED BY <2>5, <2>6
<1>19. \A i \in 1..(m - 1) : visiting'[i].rest \subseteq adjacency[NodeOf(i)'] BY <1>0, <1>9, <1>b
<1> QED BY <1>2, <1>b, <1>12, <1>13, <1>14, <1>15, <1>16, <1>17, <1>18, <1>19 DEF SearchInv

\* visit(v) ends, and is not the root of a component: what belongs to it belongs to its caller.
LEMMA KeepStep ==
  ASSUME SearchInv, Return, low[Call.node] # indices[Call.node]
  PROVE  SearchInv'
<1>a. PICK m \in Nat : \E v \in On :
           /\ m = Len(visiting) /\ m \in 1..m /\ Call = visiting[m] /\ v = NodeOf(m) /\ v = Call.node /\ v \in Path
           /\ visiting' \in Seq([node : Path, rest : SUBSET Path]) /\ Len(visiting') = m - 1
           /\ \A i \in 1..(m - 1) : visiting'[i] = visiting[i] /\ NodeOf(i)' = NodeOf(i) /\ NodeOf(i) \in On
           /\ low' \in [Path -> Int]
           /\ \A p \in Path : (m = 1 \/ p # NodeOf(m - 1)) => low'[p] = low[p]
           /\ m > 1 => low'[NodeOf(m - 1)] = Less(low[NodeOf(m - 1)], low[v])
           /\ \A i \in 1..m : \A j \in 1..m : i # j => NodeOf(i) # NodeOf(j)
  BY ReturnIs
<1>b. PICK v \in On :
           /\ m = Len(visiting) /\ m \in 1..m /\ Call = visiting[m] /\ v = NodeOf(m) /\ v = Call.node /\ v \in Path
           /\ visiting' \in Seq([node : Path, rest : SUBSET Path]) /\ Len(visiting') = m - 1
           /\ \A i \in 1..(m - 1) : visiting'[i] = visiting[i] /\ NodeOf(i)' = NodeOf(i) /\ NodeOf(i) \in On
           /\ low' \in [Path -> Int]
           /\ \A p \in Path : (m = 1 \/ p # NodeOf(m - 1)) => low'[p] = low[p]
           /\ m > 1 => low'[NodeOf(m - 1)] = Less(low[NodeOf(m - 1)], low[v])
           /\ \A i \in 1..m : \A j \in 1..m : i # j => NodeOf(i) # NodeOf(j)
  BY <1>a
<1>c. v = Call.node /\ v = NodeOf(m) /\ m = Len(visiting) /\ m \in 1..m /\ low' \in [Path -> Int] BY <1>b
<1>0. /\ SearchTyped /\ StackInOrder /\ CallsInOrder /\ StackBelongs /\ LowReached /\ LookedAt /\ LeftIsFound
      /\ \A i \in 1..m : visiting[i].rest \subseteq adjacency[NodeOf(i)]
  BY <1>b DEF SearchInv
<1>1. /\ On \subseteq Path /\ \A x \in On : indices[x] \in Int /\ low[x] \in Int /\ x \in Visited /\ x \in Path
      /\ adjacency \in [Path -> SUBSET Path]
  BY <1>0, OnStack DEF SearchTyped
<1>2. /\ UNCHANGED <<index, indices, adjacency, stack, cycles>> /\ Call.rest = {} /\ low[v] # indices[v]
  <2>1. low[v] # indices[v] BY <1>c
  <2>2. UNCHANGED <<stack, cycles>> BY Zenon DEF Return
  <2> QED BY <2>1, <2>2 DEF Return, Detecting
<1>3. On' = On /\ Off' = Off BY <1>2 DEF On, Off, Visited, Unvisited
<1>4. PICK y \in On : low[v] = indices[y] /\ indices[y] < indices[v] /\ Reaches(adjacency, v, y)
  <2>1. PICK y \in On : LowIs(m, y) BY <1>0, <1>b DEF LowReached
  <2>2. low[v] = indices[y] /\ indices[y] <= indices[v] /\ Reaches(adjacency, v, y) BY <1>c, <2>1 DEF LowIs
  <2> QED BY <1>1, <1>2, <2>2
<1>5. PICK j \in 1..m : Within(j, y) BY <1>0, <1>b DEF StackBelongs
<1>6. j # m
  <2>1. Within(m, y) => indices[v] <= indices[y] BY <1>c DEF Within
  <2>2. indices[v] \in Int /\ indices[y] \in Int BY <1>1
  <2> QED BY <1>4, <1>5, <2>1, <2>2
<1>7. m > 1 /\ m - 1 \in 1..m /\ m - 1 \in 1..(m - 1) /\ j <= m - 1 BY <1>6
<1>8. PICK u \in On : u = NodeOf(m - 1) /\ u = NodeOf(m - 1)' BY <1>b, <1>7
<1>9. Both(adjacency, u, v)
  <2>1. Both(adjacency, NodeOf(j), y) BY <1>0, <1>5, <1>b DEF StackBelongs
  <2>2. Reaches(adjacency, NodeOf(j), u) BY <1>0, <1>7, <1>8, <1>c DEF CallsInOrder
  <2>3. Reaches(adjacency, u, v) BY <1>0, <1>7, <1>8, <1>c DEF CallsInOrder
  <2>4. NodeOf(j) \in Path /\ u \in Path /\ v \in Path /\ y \in Path BY <1>1, <1>7, <1>8, <1>b
  <2>5. Reaches(adjacency, y, u) BY <1>1, <2>1, <2>2, <2>4, ReachesFacts DEF Both
  <2>6. Reaches(adjacency, v, u) BY <1>1, <1>4, <2>4, <2>5, ReachesFacts
  <2> QED BY <2>3, <2>6 DEF Both
<1>10. /\ low' \in [Path -> Int] /\ low'[u] \in {low[u], low[v]} /\ low'[u] <= low[u] /\ low'[u] <= low[v]
       /\ \A i \in 1..(m - 1) : i # m - 1 => low'[NodeOf(i)] = low[NodeOf(i)]
  <2>1. \A i \in 1..(m - 1) : i # m - 1 => NodeOf(i) # NodeOf(m - 1) /\ NodeOf(i) \in Path
    <3>1. \A i \in 1..(m - 1) : i \in 1..m BY <1>7
    <3> QED BY <1>1, <1>7, <1>b, <3>1
  <2>2. \A i \in 1..(m - 1) : i # m - 1 => low'[NodeOf(i)] = low[NodeOf(i)] BY <1>b, <2>1
  <2>3. low'[u] = Less(low[u], low[v]) BY <1>7, <1>8, <1>b
  <2>4. low[u] \in Int /\ low[v] \in Int BY <1>1
  <2> QED BY <1>c, <2>2, <2>3, <2>4 DEF Less
<1>11. \A i \in 1..(m - 1) : i \in 1..m /\ NodeOf(i) \in On /\ NodeOf(i)' = NodeOf(i) /\ visiting'[i] = visiting[i]
       /\ (i = m - 1 \/ (i < m - 1 /\ i + 1 \in 1..(m - 1)))
  BY <1>7, <1>b
<1>12. /\ indices[u] < indices[v]
       /\ \A i \in 1..(m - 1) : \A x \in On :
            IF i = m - 1 THEN Within(i, x)' <=> Within(i, x) \/ Within(m, x) ELSE Within(i, x)' <=> Within(i, x)
  <2>1. indices[u] < indices[v] BY <1>0, <1>7, <1>8, <1>c DEF CallsInOrder
  <2> SUFFICES ASSUME NEW i \in 1..(m - 1), NEW x \in On
               PROVE  IF i = m - 1 THEN Within(i, x)' <=> Within(i, x) \/ Within(m, x) ELSE Within(i, x)' <=> Within(i, x)
    BY <2>1
  <2>2. CASE i = m - 1
    <3>1. i + 1 = m /\ NodeOf(i) = u /\ NodeOf(i)' = u BY <1>7, <1>8, <2>2
    <3>2. Within(i, x)' <=> indices[u] <= indices[x] BY <1>2, <1>3, <1>b, <2>2, <3>1 DEF Within
    <3>3. Within(i, x) <=> indices[u] <= indices[x] /\ indices[x] < indices[v]
      BY <1>b, <1>c, <2>2, <3>1 DEF Within
    <3>4. Within(m, x) <=> indices[v] <= indices[x] BY <1>b, <1>c DEF Within
    <3>5. indices[u] \in Int /\ indices[v] \in Int /\ indices[x] \in Int BY <1>1
    <3> QED BY <2>1, <2>2, <3>2, <3>3, <3>4, <3>5
  <2>3. CASE i # m - 1
    <3>1. i < m - 1 /\ i < m /\ i + 1 \in 1..(m - 1) /\ i \in 1..m BY <1>7, <2>3
    <3>2. NodeOf(i + 1)' = NodeOf(i + 1) /\ NodeOf(i)' = NodeOf(i) BY <1>b, <3>1
    <3>3. Within(i, x)' <=> Within(i, x) BY <1>2, <1>3, <1>b, <3>1, <3>2 DEF Within
    <3> QED BY <2>3, <3>3
  <2> QED BY <2>2, <2>3
<1>13. SearchTyped' BY <1>0, <1>2, <1>10, <1>b DEF SearchTyped
<1>14. StackInOrder' BY <1>0, <1>2 DEF StackInOrder
<1>15. CallsInOrder'
  <2>1. \A i, k \in 1..(m - 1) : i < k => indices[NodeOf(i)'] < indices[NodeOf(k)']
    BY <1>0, <1>11, <1>b DEF CallsInOrder
  <2>2. \A i, k \in 1..(m - 1) : i <= k => Reaches(adjacency, NodeOf(i)', NodeOf(k)')
    BY <1>0, <1>11, <1>b DEF CallsInOrder
  <2> QED BY <1>2, <1>3, <1>11, <1>b, <2>1, <2>2 DEF CallsInOrder
<1>16. StackBelongs'
  <2>1. ASSUME NEW x \in On PROVE \E i \in 1..(m - 1) : Within(i, x)'
    <3>1. PICK i \in 1..m : Within(i, x) BY <1>0, <1>b DEF StackBelongs
    <3>2. CASE i = m BY <1>7, <1>12, <3>1, <3>2
    <3>3. CASE i # m
      <4>1. i \in 1..(m - 1) BY <1>7, <3>3
      <4> QED BY <1>12, <3>1, <4>1
    <3> QED BY <3>2, <3>3
  <2>2. ASSUME NEW x \in On, NEW i \in 1..(m - 1), Within(i, x)' PROVE Both(adjacency, NodeOf(i)', x)
    <3>1. CASE Within(i, x)
      <4>1. Both(adjacency, NodeOf(i), x) BY <1>0, <1>11, <1>b, <3>1 DEF StackBelongs
      <4> QED BY <1>11, <4>1
    <3>2. CASE i = m - 1 /\ Within(m, x)
      <4>1. Both(adjacency, v, x) BY <1>0, <1>b, <1>c, <3>2 DEF StackBelongs
      <4>2. u \in Path /\ v \in Path /\ x \in Path BY <1>1
      <4>3. Both(adjacency, u, x) BY <1>1, <1>9, <4>1, <4>2, BothFacts
      <4> QED BY <1>8, <3>2, <4>3
    <3> QED BY <1>12, <2>2, <3>1, <3>2
  <2> QED BY <1>2, <1>3, <1>b, <2>1, <2>2 DEF StackBelongs
<1>17. LowReached'
  <2> SUFFICES ASSUME NEW i \in 1..(m - 1) PROVE \E z \in On : LowIs(i, z)'
    BY <1>3, <1>b DEF LowReached
  <2>1. PICK z \in On : LowIs(i, z) BY <1>0, <1>11, <1>b DEF LowReached
  <2>2. CASE low'[NodeOf(i)] = low[NodeOf(i)]
    <3>1. LowIs(i, z)' BY <1>2, <1>11, <2>1, <2>2 DEF LowIs
    <3> QED BY <3>1
  <2>3. CASE i = m - 1 /\ low'[u] = low[v]
    <3>1. low[u] <= indices[u] /\ low[u] \in Int /\ low[v] \in Int /\ indices[u] \in Int
      BY <1>1, <1>8, <2>1, <2>3 DEF LowIs
    <3>2. indices[y] <= indices[u] BY <1>4, <1>10, <2>3, <3>1
    <3>3. Reaches(adjacency, u, y)
      <4>1. u \in Path /\ v \in Path /\ y \in Path BY <1>1
      <4> QED BY <1>1, <1>4, <1>9, <4>1, ReachesFacts DEF Both
    <3>4. LowIs(i, y)' BY <1>2, <1>4, <1>8, <2>3, <3>2, <3>3 DEF LowIs
    <3> QED BY <3>4
  <2> QED BY <1>8, <1>10, <2>2, <2>3
<1>18. LookedAt'
  <2> SUFFICES ASSUME NEW i \in 1..(m - 1), NEW x \in On, Within(i, x)', NEW w \in adjacency[x]
               PROVE  \/ x = NodeOf(i) /\ w \in visiting[i].rest
                      \/ w \in Off
                      \/ w \in On /\ low'[NodeOf(i)] <= indices[w]
    BY <1>2, <1>3, <1>11, <1>b DEF LookedAt
  <2>1. low'[NodeOf(i)] \in Int /\ low[NodeOf(i)] \in Int /\ low'[NodeOf(i)] <= low[NodeOf(i)]
    <3>1. NodeOf(i) \in Path BY <1>1, <1>11
    <3>2. low'[NodeOf(i)] \in Int /\ low[NodeOf(i)] \in Int BY <1>0, <1>10, <3>1 DEF SearchTyped
    <3> QED BY <1>8, <1>10, <3>2
  <2>2. CASE Within(i, x)
    <3>1. \/ x = NodeOf(i) /\ w \in visiting[i].rest
          \/ w \in Off
          \/ w \in On /\ low[NodeOf(i)] <= indices[w]
      BY <1>0, <1>11, <1>b, <2>2 DEF LookedAt
    <3>2. w \in On => indices[w] \in Int BY <1>1
    <3> QED BY <2>1, <3>1, <3>2
  <2>3. CASE i = m - 1 /\ Within(m, x)
    <3>1. \/ x = v /\ w \in visiting[m].rest
          \/ w \in Off
          \/ w \in On /\ low[v] <= indices[w]
      BY <1>0, <1>b, <1>c, <2>3 DEF LookedAt
    <3>2. visiting[m].rest = {} BY <1>2, <1>b
    <3>3. w \in On => indices[w] \in Int /\ low[v] \in Int BY <1>1
    <3>4. NodeOf(i) = u /\ low'[u] <= low[v] BY <1>8, <1>10, <2>3
    <3> QED BY <2>1, <3>1, <3>2, <3>3, <3>4
  <2> QED BY <1>12, <2>2, <2>3
<1>19. LeftIsFound' BY <1>0, <1>2, <1>3 DEF LeftIsFound
<1>20. \A i \in 1..(m - 1) : visiting'[i].rest \subseteq adjacency[NodeOf(i)'] BY <1>0, <1>11
<1> QED BY <1>2, <1>b, <1>13, <1>14, <1>15, <1>16, <1>17, <1>18, <1>19, <1>20 DEF SearchInv

\* visit(v) ends.
LEMMA ReturnStep ==
  ASSUME SearchInv, Return
  PROVE  SearchInv'
BY PopStep, KeepStep

-----------------------------------------------------------------------------
\* Dependencies: the exports.

Symbols == {"symbol"} \X Path \X Name
Passes == [key \in Keys |-> Passed(key)]
Owns == [key \in Keys |-> Owned(key)]

\* What a reference leads to are files.
LEMMA TargetsAreFiles == ASSUME NEW p, NEW ref PROVE Targets(p, ref) \subseteq Path
<1>1. \A m : Answering(m) \subseteq Path BY DEF Answering
<1> QED BY <1>1 DEF Targets

\* What a file declares and exports has names, and what it leads to are keys.
LEMMA ExportsTyped ==
  ASSUME files \in Projects
  PROVE  /\ IsFiniteSet(Keys) /\ Passes \in [Keys -> SUBSET Keys] /\ Owns \in [Keys -> SUBSET Symbols]
         /\ \A key \in Keys : \A e \in Exports(key[1], key[2]) : e[1] \in files[key[1]].exports /\ e[2] \in Name
<1>1. \A p \in Path : \A x \in files[p].exports : x.name \in Name \cup {Star} BY DependenciesAssumption
<1>2. ASSUME NEW p \in Path, NEW name \in Name, NEW e \in Exports(p, name)
      PROVE  e[1] \in files[p].exports /\ e[2] \in Name
  <2>1. PICK x \in files[p].exports : e = <<x, IF x.name = Star THEN name ELSE x.name>> BY <1>2 DEF Exports
  <2>2. e[1] = x /\ e[2] = IF x.name = Star THEN name ELSE x.name BY <2>1
  <2> QED BY <1>1, <2>2
<1>3. \A key \in Keys : key[1] \in Path /\ key[2] \in Name BY DEF Keys
<1>4. \A key \in Keys : Passed(key) \in SUBSET Keys BY <1>2, <1>3, TargetsAreFiles DEF Passed, Keys
<1>5. \A key \in Keys : Owned(key) \in SUBSET Symbols
  <2> SUFFICES ASSUME NEW key \in Keys, NEW e, NEW s \in Published(key[1], e)
               PROVE  s \in Symbols
    BY DEF Owned
  <2>1. PICK n \in Name : s \in SymbolOf(key[1], n) BY DEF Published
  <2>2. s = <<"symbol", key[1], n>> BY <2>1 DEF SymbolOf, Symbol
  <2> QED BY <1>3, <2>2 DEF Symbols
<1>6. IsFiniteSet(Keys) BY DependenciesAssumption, FS_Product DEF Keys
<1> QED BY <1>2, <1>3, <1>4, <1>5, <1>6 DEF Passes, Owns

\* What exported_symbol makes of a key, when it has passed the keys seen.
ExportedOf(key, seen, f) ==
  IF key \in seen THEN {}
  ELSE UNION {LET x == e[1] inner == e[2] IN
              IF x.from # Nobody
              THEN UNION {f[<<<<q, inner>>, seen \cup {key}>>] : q \in Targets(key[1], From(x))}
              ELSE IF x.name # Star THEN Published(key[1], inner) ELSE {} : e \in Exports(key[1], key[2])}
ExportedBy(pair, f) == ExportedOf(pair[1], pair[2], f)

\* It follows what a key passes on, and finds what it owns.
LEMMA ExportedFollows ==
  ASSUME NEW key \in Keys, NEW seen \in SUBSET Keys, NEW f
  PROVE  ExportedBy(<<key, seen>>, f) = FollowedBy(Passes, Owns, key, seen, f)
<1> DEFINE es == Exports(key[1], key[2])
           on == seen \cup {key}
           part(e) == IF e[1].from # Nobody
                      THEN UNION {f[<<<<q, e[2]>>, on>>] : q \in Targets(key[1], From(e[1]))}
                      ELSE IF e[1].name # Star THEN Published(key[1], e[2]) ELSE {}
<1>1. ExportedBy(<<key, seen>>, f) = IF key \in seen THEN {} ELSE UNION {part(e) : e \in es}
  <2>1. <<key, seen>>[1] = key /\ <<key, seen>>[2] = seen OBVIOUS
  <2>2. ExportedBy(<<key, seen>>, f) = ExportedOf(key, seen, f) BY <2>1 DEF ExportedBy
  <2>3. ExportedOf(key, seen, f) = IF key \in seen THEN {} ELSE UNION {part(e) : e \in es} BY Zenon DEF ExportedOf
  <2> QED BY <2>2, <2>3
<1>2. Passes[key] = Passed(key) /\ Owns[key] = Owned(key) BY DEF Passes, Owns
<1>3. Passed(key) = UNION {Targets(key[1], From(e[1])) \X {e[2]} : e \in {x \in es : x[1].from # Nobody}} BY Zenon DEF Passed
<1>4. Owned(key) = UNION {Published(key[1], e[2]) : e \in {x \in es : x[1].from = Nobody /\ x[1].name # Star}}
  BY Zenon DEF Owned
<1> HIDE DEF es, on
<1>5. ASSUME NEW e \in es, NEW s \in part(e)
      PROVE  s \in Owned(key) \cup UNION {f[<<q, on>>] : q \in Passed(key)}
  <2>1. CASE e[1].from # Nobody
    <3>1. PICK q \in Targets(key[1], From(e[1])) : s \in f[<<<<q, e[2]>>, on>>] BY <1>5, <2>1
    <3>2. <<q, e[2]>> \in Passed(key) BY <1>3, <2>1, <3>1
    <3> QED BY <3>1, <3>2
  <2>2. CASE e[1].from = Nobody
    <3>1. e[1].name # Star /\ s \in Published(key[1], e[2]) BY <1>5, <2>2
    <3> QED BY <1>4, <2>2, <3>1
  <2> QED BY <2>1, <2>2
<1>6. ASSUME NEW s \in Owned(key) PROVE \E e \in es : s \in part(e)
  <2>1. PICK e \in es : e[1].from = Nobody /\ e[1].name # Star /\ s \in Published(key[1], e[2]) BY <1>4
  <2>2. s \in part(e) BY <2>1
  <2> HIDE DEF part
  <2> QED BY <2>2
<1>7. ASSUME NEW k \in Passed(key), NEW s \in f[<<k, on>>] PROVE \E e \in es : s \in part(e)
  <2>1. PICK e \in es : e[1].from # Nobody /\ k \in Targets(key[1], From(e[1])) \X {e[2]} BY <1>3
  <2>2. PICK q \in Targets(key[1], From(e[1])) : k = <<q, e[2]>> BY <2>1
  <2>3. s \in part(e) BY <2>1, <2>2
  <2> HIDE DEF part
  <2> QED BY <2>3
<1> HIDE DEF part
<1>8. UNION {part(e) : e \in es} = Owned(key) \cup UNION {f[<<q, on>>] : q \in Passed(key)}
  BY <1>5, <1>6, <1>7
<1> QED BY <1>1, <1>2, <1>8 DEF on, FollowedBy

\* exported_symbol finds what a chain of re-exports leads to, and nothing else.
LEMMA ExportedIs ==
  ASSUME files \in Projects, NEW p \in Path, NEW name \in Name,
         NEW R, IsReached(Keys, Passes, <<p, name>>, R)
  PROVE  Exported(p, name) = UNION {Owned(key) : key \in R}
<1> DEFINE S == Keys \X SUBSET Keys
           is(f) == f = [pair \in S |-> ExportedBy(pair, f)]
           F == CHOOSE f : is(f)
<1>1. Exported(p, name) = F[<<<<p, name>>, {}>>] BY Zenon DEF Exported, ExportedBy, ExportedOf
<1>2. IsFiniteSet(Keys) /\ Passes \in [Keys -> SUBSET Keys] /\ Owns \in [Keys -> SUBSET Symbols]
  BY ExportsTyped
<1>3. HasFindings(Keys, Symbols, Passes, Owns) BY <1>2, FollowingIsDefined
<1>4. PICK f \in [S -> SUBSET Symbols] : FoundBy(Keys, Passes, Owns, f) BY <1>3 DEF HasFindings
<1>5. \A pair \in S : pair[1] \in Keys /\ pair[2] \in SUBSET Keys /\ pair = <<pair[1], pair[2]>> OBVIOUS
<1>6. is(f)
  <2>1. \A pair \in S : f[pair] = ExportedBy(pair, f)
    <3> SUFFICES ASSUME NEW pair \in S PROVE f[pair] = ExportedBy(pair, f)
      OBVIOUS
    <3>1. PICK key \in Keys : key = pair[1] BY <1>5
    <3>2. PICK seen \in SUBSET Keys : seen = pair[2] BY <1>5
    <3>3. pair = <<key, seen>> BY <1>5, <3>1, <3>2
    <3>4. f[<<key, seen>>] = FollowedBy(Passes, Owns, key, seen, f) BY <1>4 DEF FoundBy
    <3>5. ExportedBy(<<key, seen>>, f) = FollowedBy(Passes, Owns, key, seen, f) BY ExportedFollows
    <3> QED BY <3>3, <3>4, <3>5
  <2> QED BY <2>1
<1>7. is(F) BY <1>6, Zenon
<1> HIDE DEF F
<1>8. FoundBy(Keys, Passes, Owns, F)
  <2> SUFFICES ASSUME NEW key \in Keys, NEW seen \in SUBSET Keys
               PROVE  F[<<key, seen>>] = FollowedBy(Passes, Owns, key, seen, F)
    BY DEF FoundBy
  <2>1. <<key, seen>> \in S OBVIOUS
  <2>2. F[<<key, seen>>] = ExportedBy(<<key, seen>>, F) BY <1>7, <2>1
  <2>3. ExportedBy(<<key, seen>>, F) = FollowedBy(Passes, Owns, key, seen, F) BY ExportedFollows
  <2> QED BY <2>2, <2>3
<1>9. <<p, name>> \in Keys BY DEF Keys
<1>10. F[<<<<p, name>>, {}>>] = UNION {Owns[key] : key \in R} BY <1>2, <1>8, <1>9, FollowingFinds
<1>11. \A key \in R : Owns[key] = Owned(key) BY DEF Owns, IsReached
<1> QED BY <1>1, <1>10, <1>11

-----------------------------------------------------------------------------
\* Dependencies: the invariant.

Leads == [p \in Path |-> UNION {Targets(p, ref) : ref \in Imported(p)}]

SearchNew ==
  /\ index = 0 /\ indices = [p \in Path |-> -1] /\ low = [p \in Path |-> -1]
  /\ stack = <<>> /\ visiting = <<>> /\ cycles = {}

Evidenced(e) ==
  e.status = "resolved" /\ e.kind # "import" =>
    Cardinality(Declared(e.target[2], e.target[3])) = 1 /\ e.target[2] \in Reached(Leads, PathOf(e.from))

\* The cycles are the components of more than one file.
CyclesFound ==
  /\ adjacency \in [Path -> SUBSET Path]
  /\ cycles = {ComponentOf(adjacency, p) : p \in {q \in Path : ComponentOf(adjacency, q) # {q}}}

DependenciesInv ==
  /\ TypeOKGraph
  /\ phase \in {"link", "connect", "detect", "end"}
  /\ phase \in {"link", "connect"} => files \in Projects /\ SearchNew
  /\ phase = "link" => edges = {}
  /\ phase = "connect" => \A e \in edges : e.status = "resolved" => PathOf(e.target) \in Path
  /\ \A e \in edges : Evidenced(e)
  /\ phase = "detect" => SearchInv
  /\ phase = "end" => CyclesFound

\* No file leads to itself.
LeadsElsewhere == adjacency \in [Path -> SUBSET Path] /\ \A p \in Path : p \notin adjacency[p]

\* A search that has not begun.
LEMMA NewSearch == SearchNew /\ LeadsElsewhere => SearchInv
<1> SUFFICES ASSUME SearchNew, LeadsElsewhere PROVE SearchInv
  OBVIOUS
<1>1. Len(visiting) = 0 /\ Len(stack) = 0 /\ On = {} /\ \A i \in 1..0 : FALSE
  BY DEF SearchNew, On, Range
<1>2. Unvisited = Path /\ Off = {} BY DEF SearchNew, Unvisited, Off, Visited
<1>3. SearchTyped BY DEF SearchNew, SearchTyped, LeadsElsewhere
<1>4. StackInOrder /\ CallsInOrder /\ LowReached /\ LookedAt BY <1>1 DEF StackInOrder, CallsInOrder, LowReached, LookedAt
<1>5. StackBelongs BY <1>1 DEF StackBelongs
<1>6. LeftIsFound BY <1>2 DEF LeftIsFound, SearchNew
<1> QED BY <1>1, <1>3, <1>4, <1>5, <1>6 DEF SearchInv

\* A search that is over has found all the cycles.
LEMMA SearchOver == ASSUME SearchInv, visiting = <<>>, Unvisited = {} PROVE CyclesFound
<1>1. Len(visiting) = 0 OBVIOUS
<1>2. On = {} BY <1>1 DEF SearchInv, StackBelongs
<1>3. Off = Path BY <1>2 DEF Off, Visited
<1> QED BY <1>3 DEF SearchInv, SearchTyped, LeftIsFound, CyclesFound

\* visit begins, of a root or of a target.
LEMMA VisitStep == ASSUME SearchInv, VisitRoot \/ VisitTarget PROVE SearchInv'
<1> DEFINE R == [node : Path, rest : SUBSET Path]
           entered(v, calls) ==
             /\ v \in Unvisited /\ calls \in Seq(R) /\ Len(calls) = Len(visiting)
             /\ \A i \in 1..Len(visiting) :
                  /\ calls[i].node = NodeOf(i) /\ calls[i].rest \subseteq visiting[i].rest
                  /\ visiting[i].rest \ {v} \subseteq calls[i].rest
                  /\ i < Len(visiting) => calls[i].rest = visiting[i].rest
             /\ Len(visiting) > 0 => v \in adjacency[NodeOf(Len(visiting))]
             /\ Enter(v, calls) /\ UNCHANGED adjacency
<1>0. ASSUME NEW v, NEW calls, entered(v, calls) PROVE SearchInv' BY <1>0, EnterStep
<1>1. CASE VisitRoot
  <2>1. Smallest(Unvisited) \in Unvisited BY <1>1, SmallestIn DEF VisitRoot, Unvisited
  <2>2. visiting = <<>> /\ Enter(Smallest(Unvisited), <<>>) /\ UNCHANGED adjacency BY <1>1 DEF VisitRoot, Detecting
  <2>3. Len(visiting) = 0 BY <2>2
  <2>4. <<>> \in Seq(R) /\ Len(<<>>) = 0 /\ \A i \in 1..0 : FALSE OBVIOUS
  <2>5. entered(Smallest(Unvisited), <<>>)
    <3> HIDE DEF R
    <3> QED BY <2>1, <2>2, <2>3, <2>4
  <2> HIDE DEF entered
  <2> QED BY <1>0, <2>5
<1>2. CASE VisitTarget
  <2>1. visiting # <<>> /\ Call.rest # {} /\ Target \in Unvisited /\ Enter(Target, Taken) /\ UNCHANGED adjacency
    BY <1>2 DEF VisitTarget, Detecting
  <2>0. visiting # <<>> /\ Call.rest # {} BY <2>1
  <2>a. PICK m \in Nat : m = Len(visiting) BY <2>0, CallIs
  <2>2. /\ m \in Nat \ {0} /\ Call = visiting[m] /\ Call.node = NodeOf(m)
        /\ Call.rest \subseteq adjacency[Call.node] /\ Target \in Call.rest
        /\ Taken \in Seq(R) /\ Len(Taken) = m
        /\ \A i \in 1..m : /\ Taken[i].node = NodeOf(i)
                           /\ Taken[i].rest = IF i = m THEN visiting[i].rest \ {Target} ELSE visiting[i].rest
    BY <2>a, <2>0, CallIs
  <2> HIDE DEF R
  <2>3. \A i \in 1..m :
           /\ Taken[i].node = NodeOf(i) /\ Taken[i].rest \subseteq visiting[i].rest
           /\ visiting[i].rest \ {Target} \subseteq Taken[i].rest
           /\ i < m => Taken[i].rest = visiting[i].rest
    <3> SUFFICES ASSUME NEW i \in 1..m
                 PROVE  /\ Taken[i].node = NodeOf(i) /\ Taken[i].rest \subseteq visiting[i].rest
                        /\ visiting[i].rest \ {Target} \subseteq Taken[i].rest
                        /\ i < m => Taken[i].rest = visiting[i].rest
      OBVIOUS
    <3>1. Taken[i].node = NodeOf(i) BY <2>2
    <3>2. Taken[i].rest = IF i = m THEN visiting[i].rest \ {Target} ELSE visiting[i].rest BY <2>2
    <3>3. CASE i = m BY <3>1, <3>2, <3>3
    <3>4. CASE i # m BY <3>1, <3>2, <3>4
    <3> QED BY <3>3, <3>4
  <2>4. Target \in adjacency[NodeOf(m)] BY <2>2
  <2>5. entered(Target, Taken) BY <2>a, <2>1, <2>2, <2>3, <2>4
  <2> HIDE DEF entered
  <2> QED BY <1>0, <2>5
<1> QED BY <1>1, <1>2

\* An edge is resolved to one of its candidates.
IsEdge(e, from, kind, candidates) ==
  /\ e.from = from /\ e.kind = kind /\ e.candidates = candidates
  /\ e.status \in {"resolved", "external", "ambiguous"} /\ (e.status = "resolved" => e.target \in candidates)

\* That is what add makes.
LEMMA EdgeIs ==
  ASSUME NEW from, NEW kind, NEW expression, NEW candidates, NEW missing
  PROVE  IsEdge(Edge(from, kind, expression, candidates, missing), from, kind, candidates)
<1> DEFINE one == \E c \in candidates : candidates = {c}
           e == Edge(from, kind, expression, candidates, missing)
<1>1. e.from = from /\ e.kind = kind /\ e.candidates = candidates
      /\ e.target = (IF one THEN CHOOSE c \in candidates : TRUE ELSE Nobody)
      /\ e.status = (IF one THEN "resolved"
                     ELSE IF candidates = {} /\ missing = "external" THEN "external" ELSE "ambiguous")
  BY DEF Edge
<1>2. one => (CHOOSE c \in candidates : TRUE) \in candidates OBVIOUS
<1>3. (e.status = "resolved" => one) /\ e.status \in {"resolved", "external", "ambiguous"} BY <1>1
<1> HIDE DEF e, one
<1>4. e.status = "resolved" => e.target \in candidates BY <1>1, <1>2, <1>3
<1> QED BY <1>1, <1>3, <1>4 DEF e, IsEdge

\* What leads on from a file are files.
LEMMA LeadsTyped ==
  ASSUME NEW p \in Path
  PROVE  Leads \in [Path -> SUBSET Path] /\ IsReached(Path, Leads, p, Reached(Leads, p))
<1>1. Leads \in [Path -> SUBSET Path] BY TargetsAreFiles DEF Leads
<1>2. IsFiniteSet(Path) BY DependenciesAssumption
<1> QED BY <1>1, <1>2, ReachedIs

\* A symbol of file q, which the imports of p lead to, declared there once only.
SymbolReached(p, s) ==
  \E q \in Reached(Leads, p) : s[2] = q /\ Cardinality(Declared(q, s[3])) = 1

\* A name that is a symbol is declared once.
LEMMA SymbolIs ==
  ASSUME NEW q, NEW name, NEW s \in SymbolOf(q, name)
  PROVE  s[2] = q /\ s[3] = name /\ Cardinality(Declared(q, s[3])) = 1
<1>1. s = <<"symbol", q, name>> /\ \E i \in Declared(q, name) : Declared(q, name) = {i} BY DEF SymbolOf, Symbol
<1>2. PICK i : Declared(q, name) = {i} BY <1>1
<1>3. Cardinality({i}) = 1 BY FS_Singleton
<1>4. s[2] = q /\ s[3] = name BY <1>1
<1> QED BY <1>2, <1>3, <1>4

\* Own symbols and bound ones are such.
LEMMA NamedIsReached ==
  ASSUME files \in Projects, NEW p \in Path, NEW name, NEW s \in SymbolOf(p, name) \cup Bound(p, name)
  PROVE  SymbolReached(p, s)
<1> DEFINE L == Reached(Leads, p)
<1>1. Leads \in [Path -> SUBSET Path] /\ IsReached(Path, Leads, p, L) BY LeadsTyped
<1> HIDE DEF L
<1>2. p \in L /\ L \subseteq Path /\ \A x \in L : Leads[x] \subseteq L BY <1>1 DEF IsReached, Closed
<1>3. CASE s \in SymbolOf(p, name) BY <1>2, <1>3, SymbolIs DEF SymbolReached, L
<1>4. CASE s \in Bound(p, name)
  <2>1. PICK i \in files[p].imports : /\ i.member # Nobody
                                      /\ s \in UNION {Exported(q, i.member) : q \in {r \in Path : Targets(p, Of(i)) = {r}}}
    BY <1>4 DEF Bound
  <2>2. PICK q \in Path : Targets(p, Of(i)) = {q} /\ s \in Exported(q, i.member) BY <2>1
  <2>3. i.member \in Name BY <2>1, DependenciesAssumption
  <2>4. q \in L
    <3>1. Of(i) \in Imported(p) BY DEF Imported
    <3>2. q \in Leads[p] BY <2>2, <3>1 DEF Leads
    <3> QED BY <1>2, <3>2
  <2>5. IsFiniteSet(Keys) /\ Passes \in [Keys -> SUBSET Keys] BY ExportsTyped
  <2>6. <<q, i.member>> \in Keys BY <2>3 DEF Keys
  <2> DEFINE R == Reached(Passes, <<q, i.member>>)
             U == {key \in Keys : key[1] \in L}
  <2>7. IsReached(Keys, Passes, <<q, i.member>>, R) BY <2>5, <2>6, ReachedIs
  <2> HIDE DEF R
  <2>8. PICK key \in R : s \in Owned(key)
    <3>1. Exported(q, i.member) = UNION {Owned(key) : key \in R} BY <2>3, <2>7, ExportedIs
    <3> QED BY <2>2, <3>1
  <2>9. Closed(Passes, U)
    <3> SUFFICES ASSUME NEW x \in U, NEW y \in Passed(x) PROVE y \in U
      BY DEF Closed, Passes
    <3>1. PICK e \in Exports(x[1], x[2]) : e[1].from # Nobody /\ y \in Targets(x[1], From(e[1])) \X {e[2]} BY DEF Passed
    <3>2. e[1] \in files[x[1]].exports BY ExportsTyped
    <3>3. From(e[1]) \in Imported(x[1]) BY <3>1, <3>2 DEF Imported
    <3>4. x[1] \in Path /\ x[1] \in L BY <1>2
    <3>5. y[1] \in Leads[x[1]] BY <3>1, <3>3, <3>4 DEF Leads
    <3>6. y \in Keys BY <2>5 DEF Passes
    <3> QED BY <1>2, <3>4, <3>5, <3>6
  <2>10. <<q, i.member>> \in U BY <2>4, <2>6
  <2>11. key \in U BY <2>7, <2>9, <2>10 DEF IsReached
  <2>12. PICK n : s \in SymbolOf(key[1], n) BY <2>8 DEF Owned, Published
  <2> QED BY <2>11, <2>12, SymbolIs DEF SymbolReached, L
<1> QED BY <1>3, <1>4

\* The edges that Link makes.
LinkOf(e, p) ==
  \/ \E ref \in Imported(p) : IsEdge(e, File(p), "import", {File(q) : q \in Targets(p, ref)})
  \/ \E name, kinds : \E kind \in {"call", "inheritance"} : IsEdge(e, File(p), kind, Named(p, name, kinds))

\* They are of the files there are.
LEMMA LinkIs ==
  ASSUME DependenciesInv, Link, NEW e \in edges'
  PROVE  files \in Projects /\ \E p \in Path : LinkOf(e, p)
<1>1. files \in Projects BY DEF DependenciesInv, Link
<1>2. DOMAIN files = Path BY <1>1, DependenciesAssumption
<1>3. PICK p \in Path : e \in
        {Edge(File(p), "import", ref, {File(q) : q \in Targets(p, ref)}, Missing(p, ref)) : ref \in Imported(p)}
        \cup {Edge(File(p), "call", <<name>>, Named(p, name, Callable), "unbound") : name \in files[p].calls}
        \cup {Edge(File(p), "inheritance", <<name>>, Named(p, name, Base), "unbound") : name \in files[p].bases}
  BY <1>2 DEF Link
<1>4. ASSUME NEW ref \in Imported(p), e = Edge(File(p), "import", ref, {File(q) : q \in Targets(p, ref)}, Missing(p, ref))
      PROVE  LinkOf(e, p)
  <2>1. IsEdge(e, File(p), "import", {File(q) : q \in Targets(p, ref)}) BY <1>4, EdgeIs
  <2> QED BY <2>1 DEF LinkOf
<1>5. ASSUME NEW name, NEW kinds, NEW kind \in {"call", "inheritance"}, e = Edge(File(p), kind, <<name>>, Named(p, name, kinds), "unbound")
      PROVE  LinkOf(e, p)
  <2>1. IsEdge(e, File(p), kind, Named(p, name, kinds)) BY <1>5, EdgeIs
  <2> QED BY <2>1 DEF LinkOf
<1> QED BY <1>1, <1>3, <1>4, <1>5

\* Linking resolves to files, and to symbols there is evidence of.
LEMMA LinkStep ==
  ASSUME DependenciesInv, Link
  PROVE  \A e \in edges' :
           /\ Evidenced(e) /\ (e.status = "resolved" => PathOf(e.target) \in Path)
           /\ e.kind \in {"import", "call", "inheritance"} /\ e.status \in {"resolved", "external", "ambiguous"}
           /\ e.status = "resolved" => e.target \in e.candidates
<1> SUFFICES ASSUME NEW e \in edges'
             PROVE  /\ Evidenced(e) /\ (e.status = "resolved" => PathOf(e.target) \in Path)
                    /\ e.kind \in {"import", "call", "inheritance"} /\ e.status \in {"resolved", "external", "ambiguous"}
                    /\ e.status = "resolved" => e.target \in e.candidates
  OBVIOUS
<1>1. files \in Projects /\ \E p \in Path : LinkOf(e, p) BY LinkIs
<1>2. PICK p \in Path : LinkOf(e, p) BY <1>1
<1>3. /\ e.kind \in {"import", "call", "inheritance"} /\ e.status \in {"resolved", "external", "ambiguous"}
      /\ e.status = "resolved" => e.target \in e.candidates
  BY <1>2 DEF LinkOf, IsEdge
<1>4. ASSUME NEW ref \in Imported(p), IsEdge(e, File(p), "import", {File(q) : q \in Targets(p, ref)}), e.status = "resolved"
      PROVE  Evidenced(e) /\ PathOf(e.target) \in Path
  <2>1. e.kind = "import" /\ e.target \in {File(q) : q \in Targets(p, ref)} BY <1>4 DEF IsEdge
  <2>2. PICK q \in Path : e.target = <<"file", q>> BY <2>1, TargetsAreFiles DEF File
  <2> QED BY <2>1, <2>2 DEF Evidenced, PathOf
<1>5. ASSUME NEW name, NEW kinds, NEW kind, IsEdge(e, File(p), kind, Named(p, name, kinds)), e.status = "resolved"
      PROVE  Evidenced(e) /\ PathOf(e.target) \in Path
  <2>1. e.from = File(p) /\ e.target \in Named(p, name, kinds) BY <1>5 DEF IsEdge
  <2>2. e.target \in SymbolOf(p, name) \cup Bound(p, name) BY <2>1 DEF Named
  <2>3. SymbolReached(p, e.target) BY <1>1, <2>2, NamedIsReached
  <2>4. PathOf(e.from) = p BY <2>1 DEF File, PathOf
  <2>5. Reached(Leads, p) \subseteq Path BY LeadsTyped DEF IsReached
  <2> QED BY <2>3, <2>4, <2>5 DEF SymbolReached, Evidenced, PathOf
<1>6. e.status = "resolved" => Evidenced(e) /\ PathOf(e.target) \in Path BY <1>2, <1>4, <1>5 DEF LinkOf
<1>7. e.status # "resolved" => Evidenced(e) BY DEF Evidenced
<1> QED BY <1>3, <1>6, <1>7

TypedSearch ==
  /\ index \in Nat /\ indices \in [Path -> {-1} \cup 0..(index - 1)] /\ low \in [Path -> Int]
  /\ stack \in Seq(Path) /\ visiting \in Seq([node : Path, rest : SUBSET Path])
  /\ adjacency \in [Path -> SUBSET Path] /\ \A c \in cycles : c \subseteq Path

\* A search is typed.
LEMMA SearchIsTyped == SearchInv => TypedSearch
<1> SUFFICES ASSUME SearchInv PROVE TypedSearch
  OBVIOUS
<1>1. /\ index \in Nat /\ indices \in [Path -> Int] /\ low \in [Path -> Int]
      /\ \A p \in Path : indices[p] = -1 \/ indices[p] \in 0..(index - 1)
      /\ stack \in Seq(Path) /\ visiting \in Seq([node : Path, rest : SUBSET Path])
      /\ adjacency \in [Path -> SUBSET Path]
  BY DEF SearchInv, SearchTyped
<1>2. \A c \in cycles : c \subseteq Path BY DEF SearchInv, LeftIsFound, ComponentOf
<1>3. indices \in [Path -> {-1} \cup 0..(index - 1)] BY <1>1
<1> QED BY <1>1, <1>2, <1>3 DEF TypedSearch

\* It holds before anything is linked, and before a search of a graph.
LEMMA DependenciesInit == InitGraph => DependenciesInv
<1> SUFFICES ASSUME InitGraph PROVE DependenciesInv
  OBVIOUS
<1>1. SearchNew /\ edges = {} BY DEF InitGraph, SearchNew
<1>4. adjacency \in [Path -> SUBSET Path] BY DependenciesAssumption DEF InitGraph
<1>5. TypeOKGraph
  <2>1. indices \in [Path -> {-1} \cup 0..(index - 1)] /\ low \in [Path -> Int] BY <1>1 DEF SearchNew
  <2>2. <<>> \in Seq(Path) /\ <<>> \in Seq([node : Path, rest : SUBSET Path]) OBVIOUS
  <2> QED BY <1>1, <1>4, <2>1, <2>2 DEF TypeOKGraph, SearchNew, InitGraph
<1>2. CASE phase = "link" /\ files \in Projects BY <1>1, <1>2, <1>5 DEF DependenciesInv
<1>3. CASE phase = "detect" /\ adjacency \in Digraphs
  <2>1. LeadsElsewhere BY <1>3, DependenciesAssumption DEF LeadsElsewhere
  <2>2. SearchInv BY <1>1, <2>1, NewSearch
  <2> QED BY <1>1, <1>3, <1>5, <2>2 DEF DependenciesInv
<1> QED BY <1>2, <1>3 DEF InitGraph

\* While the files stay, so does the evidence of an edge.
LEMMA EvidenceStays == ASSUME UNCHANGED files, NEW e PROVE Evidenced(e)' <=> Evidenced(e)
BY Zenon DEF Evidenced, Declared, Leads, Imported

\* Every step keeps it.
LEMMA DependenciesStep == DependenciesInv /\ [NextGraph]_graph => DependenciesInv'
<1> SUFFICES ASSUME DependenciesInv, [NextGraph]_graph PROVE DependenciesInv'
  OBVIOUS
<1>1. CASE Link
  <2>1. /\ phase = "link" /\ phase' = "connect" /\ files' = files /\ files \in Projects /\ SearchNew
        /\ UNCHANGED <<index, indices, low, stack, visiting, cycles>>
    BY <1>1 DEF Link, DependenciesInv, search
  <2>2. \A e \in edges' :
           /\ Evidenced(e) /\ (e.status = "resolved" => PathOf(e.target) \in Path)
           /\ e.kind \in {"import", "call", "inheritance"} /\ e.status \in {"resolved", "external", "ambiguous"}
           /\ e.status = "resolved" => e.target \in e.candidates
    BY <1>1, LinkStep
  <2>6. TypeOKGraph'
    <3>1. adjacency' = adjacency /\ TypeOKGraph BY <1>1 DEF Link, DependenciesInv
    <3> QED BY <2>1, <2>2, <3>1 DEF TypeOKGraph
  <2>3. \A e \in edges' : Evidenced(e)' BY <2>1, <2>2, EvidenceStays
  <2>4. SearchNew' BY <2>1 DEF SearchNew
  <2>5. \A e \in edges' : e.status = "resolved" => PathOf(e.target) \in Path BY <2>2
  <2> QED BY <2>1, <2>3, <2>4, <2>5, <2>6 DEF DependenciesInv, PathOf
<1>2. CASE Connect
  <2>1. /\ phase = "connect" /\ phase' = "detect" /\ UNCHANGED <<files, edges>> /\ SearchNew
        /\ UNCHANGED <<index, indices, low, stack, visiting, cycles>>
        /\ adjacency' = [p \in Path |->
             {PathOf(e.target) : e \in {d \in edges : d.status = "resolved" /\ PathOf(d.from) = p}} \ {p}]
    BY <1>2 DEF Connect, DependenciesInv, search
  <2>2. \A e \in edges : e.status = "resolved" => PathOf(e.target) \in Path BY <2>1 DEF DependenciesInv
  <2>3. LeadsElsewhere' BY <2>1, <2>2 DEF LeadsElsewhere
  <2>4. SearchNew' BY <2>1 DEF SearchNew
  <2>5. (SearchNew /\ LeadsElsewhere => SearchInv)' BY NewSearch, PTL
  <2>6. SearchInv' BY <2>3, <2>4, <2>5
  <2>7. TypeOKGraph'
    <3>1. TypeOKGraph BY DEF DependenciesInv
    <3> QED BY <2>1, <2>3, <3>1 DEF TypeOKGraph, LeadsElsewhere
  <2>8. \A e \in edges' : Evidenced(e)' BY <2>1, EvidenceStays DEF DependenciesInv
  <2> QED BY <2>1, <2>6, <2>7, <2>8 DEF DependenciesInv
<1>3. CASE VisitRoot \/ VisitTarget \/ LookBack \/ Return
  <2>1. phase = "detect" /\ UNCHANGED <<phase, files, edges, adjacency>>
    BY <1>3 DEF VisitRoot, VisitTarget, LookBack, Return, Detecting
  <2>2. SearchInv BY <2>1 DEF DependenciesInv
  <2>3. SearchInv' BY <1>3, <2>2, VisitStep, LookBackStep, ReturnStep
  <2>4. \A e \in edges' : Evidenced(e)' BY <2>1, EvidenceStays DEF DependenciesInv
  <2>5. (SearchInv => TypedSearch)' BY SearchIsTyped, PTL
  <2>6. TypeOKGraph'
    <3>1. TypeOKGraph BY DEF DependenciesInv
    <3> QED BY <2>1, <2>3, <2>5, <3>1 DEF TypeOKGraph, TypedSearch
  <2> QED BY <2>1, <2>3, <2>4, <2>6 DEF DependenciesInv
<1>4. CASE Detected
  <2>1. /\ phase = "detect" /\ phase' = "end" /\ visiting = <<>> /\ Unvisited = {}
        /\ UNCHANGED <<files, edges, adjacency, cycles, index, indices, low, stack, visiting>>
    BY <1>4 DEF Detected, search
  <2>5. TypeOKGraph'
    <3>1. TypeOKGraph BY DEF DependenciesInv
    <3> QED BY <2>1, <3>1 DEF TypeOKGraph
  <2>2. CyclesFound BY <2>1, SearchOver DEF DependenciesInv
  <2>3. CyclesFound' BY <2>1, <2>2 DEF CyclesFound
  <2>4. \A e \in edges' : Evidenced(e)' BY <2>1, EvidenceStays DEF DependenciesInv
  <2> QED BY <2>1, <2>3, <2>4, <2>5 DEF DependenciesInv
<1>5. CASE UNCHANGED graph
  <2>1. UNCHANGED <<phase, files, edges, adjacency, index, indices, low, stack, visiting, cycles>>
    BY <1>5 DEF graph, search
  <2>2. \A e \in edges' : Evidenced(e)' BY <2>1, EvidenceStays DEF DependenciesInv
  <2>3. SearchNew => SearchNew' BY <2>1 DEF SearchNew
  <2>4. CyclesFound => CyclesFound' BY <2>1 DEF CyclesFound
  <2>5. SearchInv => SearchInv'
    BY <2>1 DEF SearchInv, SearchTyped, StackInOrder, CallsInOrder, StackBelongs, LowReached, LookedAt, LeftIsFound,
                Within, LowIs, NodeOf, On, Off, Visited, Unvisited
  <2>6. (\A e \in edges : e.status = "resolved" => PathOf(e.target) \in Path)
        => (\A e \in edges' : e.status = "resolved" => PathOf(e.target) \in Path)
    BY <2>1
  <2>7. TypeOKGraph => TypeOKGraph' BY <2>1 DEF TypeOKGraph
  <2> QED BY <2>1, <2>2, <2>3, <2>4, <2>5, <2>6, <2>7 DEF DependenciesInv, PathOf
<1> QED BY <1>1, <1>2, <1>3, <1>4, <1>5 DEF NextGraph

\* The edges found, the search that is under way and the cycles it has found are as described,
\* however many files there are and whatever they import.
THEOREM DependenciesInvariance == SpecGraph => []DependenciesInv
BY DependenciesInit, DependenciesStep, PTL DEF SpecGraph

\* More than one is in a set that is not of the one.
LEMMA MoreThanOne ==
  ASSUME NEW c, IsFiniteSet(c), NEW p \in c
  PROVE  Cardinality(c) > 1 <=> c # {p}
<1>1. Cardinality({p}) = 1 /\ Cardinality(c) \in Nat BY FS_Singleton, FS_CardinalityType
<1>2. {p} \subseteq c OBVIOUS
<1>3. Cardinality({p}) <= Cardinality(c) /\ (Cardinality({p}) = Cardinality(c) => {p} = c) BY <1>2, FS_Subset
<1> QED BY <1>1, <1>3

\* Adding what is led to comes to what is in every closed set.
LEMMA ReachedIsReaches ==
  ASSUME NEW d \in [Path -> SUBSET Path], NEW p \in Path
  PROVE  Reached(d, p) \in SUBSET Path /\ \A q \in Path : q \in Reached(d, p) <=> Reaches(d, p, q)
<1>1. IsReached(Path, d, p, Reached(d, p)) BY ReachedIs, DependenciesAssumption
<1>2. \A S : ClosedSet(d, S) <=> Closed(d, S) BY DEF ClosedSet, Closed
<1> QED BY <1>1, <1>2 DEF IsReached, Reaches

\* The cycles reported are the strongly connected components of more than one file, of any
\* files and whatever they depend on.
THEOREM CyclesFoundAll == SpecGraph => []CyclesAreComponents
<1>1. DependenciesInv => CyclesAreComponents
  <2> SUFFICES ASSUME CyclesFound PROVE
         cycles = {c \in {{q \in Path : q \in [r \in Path |-> Reached(adjacency, r)][p]
                                        /\ p \in [r \in Path |-> Reached(adjacency, r)][q]} : p \in Path} : Cardinality(c) > 1}
    BY Zenon DEF DependenciesInv, CyclesAreComponents
  <2>1. adjacency \in [Path -> SUBSET Path] BY DEF CyclesFound
  <2>2. \A p \in Path : {q \in Path : q \in [r \in Path |-> Reached(adjacency, r)][p]
                                      /\ p \in [r \in Path |-> Reached(adjacency, r)][q]} = ComponentOf(adjacency, p)
    <3>1. \A p, q \in Path : q \in Reached(adjacency, p) <=> Reaches(adjacency, p, q) BY <2>1, ReachedIsReaches
    <3>2. \A p \in Path : [r \in Path |-> Reached(adjacency, r)][p] = Reached(adjacency, p) OBVIOUS
    <3> QED BY <3>1, <3>2 DEF ComponentOf, Both
  <2>3. \A p \in Path : Cardinality(ComponentOf(adjacency, p)) > 1 <=> ComponentOf(adjacency, p) # {p}
    <3> SUFFICES ASSUME NEW p \in Path
                 PROVE  Cardinality(ComponentOf(adjacency, p)) > 1 <=> ComponentOf(adjacency, p) # {p}
      OBVIOUS
    <3>1. p \in ComponentOf(adjacency, p) BY <2>1, BothFacts DEF ComponentOf
    <3>2. ComponentOf(adjacency, p) \subseteq Path BY DEF ComponentOf
    <3>3. IsFiniteSet(ComponentOf(adjacency, p)) BY <3>2, DependenciesAssumption, FS_Subset
    <3> QED BY <3>1, <3>3, MoreThanOne
  <2>4. cycles = {ComponentOf(adjacency, p) : p \in {q \in Path : ComponentOf(adjacency, q) # {q}}} BY DEF CyclesFound
  <2>5. {{q \in Path : q \in [r \in Path |-> Reached(adjacency, r)][p]
                       /\ p \in [r \in Path |-> Reached(adjacency, r)][q]} : p \in Path}
          = {ComponentOf(adjacency, p) : p \in Path}
    BY <2>2
  <2>6. cycles = {c \in {ComponentOf(adjacency, p) : p \in Path} : Cardinality(c) > 1} BY <2>3, <2>4
  <2> QED BY <2>5, <2>6
<1> QED BY <1>1, DependenciesInvariance, PTL

\* Following exports, from any file and name that is imported, finds the symbols that a chain of
\* re-exports leads to and no other.
THEOREM ExportsFollowed == SpecGraph => []ExportsAreReached
<1>1. DependenciesInv => ExportsAreReached
  <2> SUFFICES ASSUME files \in Projects, NEW p \in Path, NEW i \in files[p].imports, i.member # Nobody,
                      NEW q \in Targets(p, Of(i))
               PROVE  Exported(q, i.member) = UNION {Owned(key) : key \in Reached(Passes, <<q, i.member>>)}
    BY Zenon DEF DependenciesInv, ExportsAreReached, Passes
  <2>1. i.member \in Name BY DependenciesAssumption
  <2>2. q \in Path BY TargetsAreFiles
  <2>3. IsFiniteSet(Keys) /\ Passes \in [Keys -> SUBSET Keys] BY ExportsTyped
  <2>4. <<q, i.member>> \in Keys BY <2>1, <2>2 DEF Keys
  <2>5. IsReached(Keys, Passes, <<q, i.member>>, Reached(Passes, <<q, i.member>>)) BY <2>3, <2>4, ReachedIs
  <2> QED BY <2>1, <2>2, <2>5, ExportedIs
<1> QED BY <1>1, DependenciesInvariance, PTL

\* A call or base is resolved to a symbol declared once only, in its own file or one that its
\* imports lead to, in any repository.
THEOREM EvidenceOfEach == SpecGraph => []ResolvedIsEvidenced
<1>1. DependenciesInv => ResolvedIsEvidenced BY Zenon DEF DependenciesInv, ResolvedIsEvidenced, Evidenced, Leads
<1> QED BY <1>1, DependenciesInvariance, PTL

\* The search keeps its data in shape: a call is of a file, low is a number, a cycle is of files.
THEOREM GraphTyped == SpecGraph => []TypeOKGraph
<1>1. DependenciesInv => TypeOKGraph BY DEF DependenciesInv
<1> QED BY <1>1, DependenciesInvariance, PTL
=============================================================================
