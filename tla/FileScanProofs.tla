--------------------------- MODULE FileScanProofs ---------------------------
(***************************************************************************)
(* Proofs about Finder, for files, blocks and numbers of matches of any    *)
(* size, and about FileScan: the invariants of the search and of the       *)
(* layout (LayoutProofs) together show that a file whose handlers obey the *)
(* finder's rules is laid out without an error.                            *)
(*                                                                         *)
(* What is proved depends on the two rules the finder relies on:           *)
(* AllAdvance (a chunk reaches beyond the pattern it was found by) and     *)
(* AllStartThere (a chunk starts where the handler was told to look).      *)
(***************************************************************************)
EXTENDS FileScan, SequenceTheorems, TLAPS

USE FinderAssumption

Types == file \in Files /\ TypeOK

\* file, matches and chunks have the fields the definitions use
LEMMA MatchFields ==
  ASSUME Types, NEW m \in file.matches
  PROVE  /\ m \in Matches /\ m.off \in Nat /\ m.end \in Nat /\ m.back \in Nat /\ m.off < m.end
         /\ m.calc \in Chunk \cup {NoChunk}
         /\ m.end <= file.size /\ file.size \in Nat
BY DEF Types, TypeOK, FileOK, Matches

\* What a chunk is.
LEMMA ChunkFields ==
  ASSUME NEW c \in Chunk
  PROVE  c.start \in Nat /\ c.end \in Nat /\ c.start < c.end
BY DEF Chunk

\* What a restart of the scan does to the list of chunks.
LEMMA FoundFacts ==
  ASSUME Types, NEW m \in file.matches, FoundChunk(m)
  PROVE  /\ m.calc \in Chunk /\ m.calc.end <= file.size /\ real_offset(m) >= 0
         /\ m \in Pending /\ start_offset <= m.off
         /\ start_offset' = m.calc.end /\ i' = m.calc.end /\ reported' = {}
         /\ UNCHANGED <<file, pc>>
         /\ chunks \in Seq(Chunk) /\ chunks' \in Seq(Chunk)
         /\ Len(chunks) \in Nat /\ Len(chunks') = Len(chunks) + 1
         /\ chunks'[Len(chunks) + 1] = m.calc
         /\ \A j \in 1..Len(chunks) : chunks'[j] = chunks[j]
         /\ \A j \in 1..Len(chunks) : ~ ContainsOffset(chunks[j], real_offset(m))
<1>1. m.calc \in Chunk /\ chunks \in Seq(Chunk)
  BY MatchFields DEF FoundChunk, Usable, Types, TypeOK
<1>2. chunks' = Append(chunks, m.calc)
  BY DEF FoundChunk
<1>3. /\ chunks' \in Seq(Chunk) /\ Len(chunks) \in Nat /\ Len(chunks') = Len(chunks) + 1
      /\ chunks'[Len(chunks) + 1] = m.calc
      /\ \A j \in 1..Len(chunks) : chunks'[j] = chunks[j]
  BY <1>1, <1>2
<1>4. m \in Pending /\ start_offset <= m.off
  BY DEF FoundChunk, NextMatches, Pending
<1> QED BY <1>1, <1>3, <1>4 DEF FoundChunk, Usable, InsideChunk

\* Each step of the search keeps the types.
LEMMA TypesStep == Types /\ [Next]_vars => Types'
<1> SUFFICES ASSUME Types, [Next]_vars PROVE Types'
  OBVIOUS
<1>1. ASSUME NEW m \in file.matches, SkipMatch(m) PROVE Types'
  BY <1>1 DEF Types, TypeOK, SkipMatch
<1>2. ASSUME NEW m \in file.matches, FoundChunk(m) PROVE Types'
  <2>1. m.calc.end \in Nat
    BY <1>2, FoundFacts, ChunkFields
  <2> QED BY <1>2, <2>1, FoundFacts DEF Types, TypeOK
<1>3. CASE NextBlock
  BY <1>3 DEF Types, TypeOK, NextBlock
<1>4. CASE EndSearch \/ Finished \/ UNCHANGED vars
  BY <1>4 DEF Types, TypeOK, EndSearch, Finished, vars
<1> QED BY <1>1, <1>2, <1>3, <1>4 DEF Next, Scan, Match

\* The state of the search is well formed, whatever the handlers return.
THEOREM TypeCorrect == Spec => []TypeOK
<1>1. Init => Types
  BY DEF Init, Types, TypeOK
<1>2. Types /\ [Next]_vars => Types'
  BY TypesStep
<1>3. Types => TypeOK
  BY DEF Types
<1> QED BY <1>1, <1>2, <1>3, PTL DEF Spec

-----------------------------------------------------------------------------

\* The types hold throughout the search.
LEMMA TypesInvariant == Spec => []Types
<1>1. Init => Types
  BY DEF Init, Types, TypeOK
<1>2. Types /\ [Next]_vars => Types'
  BY TypesStep
<1> QED BY <1>1, <1>2, PTL DEF Spec

\* If chunks reach beyond their pattern, each one that is found moves the scan
\* forward: a match is never found again, and the search ends.
THEOREM Progress ==
  ASSUME AllAdvance PROVE Spec => ScanAdvances
<1>1. Types /\ [Next]_vars => [chunks' # chunks => start_offset' > start_offset]_vars
  <2> SUFFICES ASSUME Types, Next, chunks' # chunks PROVE start_offset' > start_offset
    BY DEF vars
  <2>1. PICK m \in file.matches : FoundChunk(m)
    BY DEF Next, Scan, Match, SkipMatch, NextBlock, EndSearch, Finished, vars
  <2>2. m.calc.end > m.off
    BY <2>1, FoundFacts DEF AllAdvance, Advances, Types
  <2>3. start_offset \in Nat /\ m.off \in Nat /\ m.calc.end \in Nat
    BY <2>1, FoundFacts, ChunkFields, MatchFields DEF Types, TypeOK
  <2> QED BY <2>1, <2>2, <2>3, FoundFacts
<1> QED BY <1>1, TypesInvariant, PTL DEF Spec, ScanAdvances

-----------------------------------------------------------------------------

\* Under both rules: chunks lie behind the scan, and are nested or disjoint.
Shape == Types /\ ChunksBehind /\ Laminar

\* Appending a chunk keeps the found chunks behind the scan and laminar.
LEMMA ShapeFound ==
  ASSUME AllAdvance, AllStartThere, Shape, NEW m \in file.matches, FoundChunk(m)
  PROVE  ChunksBehind' /\ Laminar'
<1> DEFINE c == m.calc
           n == Len(chunks)
<1>1. Types
  BY DEF Shape
<1>2. /\ c \in Chunk /\ c.end <= file.size /\ real_offset(m) >= 0 /\ start_offset <= m.off
      /\ start_offset' = c.end /\ file' = file
      /\ chunks \in Seq(Chunk) /\ n \in Nat /\ Len(chunks') = n + 1
      /\ chunks'[n + 1] = c /\ \A j \in 1..n : chunks'[j] = chunks[j]
      /\ \A j \in 1..n : ~ ContainsOffset(chunks[j], real_offset(m))
  BY <1>1, FoundFacts
<1>3. c.end > m.off /\ c.start = real_offset(m)
  BY <1>1, <1>2 DEF AllAdvance, Advances, AllStartThere, StartsThere, Types
<1>4. /\ c.start \in Nat /\ c.end \in Nat /\ c.start < c.end /\ m.off \in Nat
      /\ start_offset \in Nat /\ file.size \in Nat
  BY <1>1, <1>2, ChunkFields, MatchFields DEF Types, TypeOK
<1>5. \A j \in 1..n : chunks[j] \in Chunk /\ chunks[j].end <= file.size /\ chunks[j].end <= start_offset
  BY <1>2 DEF Shape, ChunksBehind
<1>6. \A j \in 1..n : chunks[j].start \in Nat /\ chunks[j].end \in Nat /\ chunks[j].start < chunks[j].end
  BY <1>5, ChunkFields
<1> HIDE DEF c, n
<1>7. \A j \in 1..n : chunks[j].end < c.end
  BY <1>2, <1>3, <1>4, <1>5, <1>6
<1>8. ChunksBehind'
  <2>1. \A j \in 1..(n+1) : chunks'[j].end <= file.size /\ chunks'[j].end <= c.end
    BY <1>2, <1>4, <1>5, <1>6, <1>7
  <2> QED BY <1>2, <2>1 DEF ChunksBehind
<1>9. \A j \in 1..n : Nested(chunks[j], c)
  BY <1>2, <1>3, <1>4, <1>6, <1>7 DEF Nested, Disjoint, Contains, ContainsOffset
<1>10. Laminar'
  <2> SUFFICES ASSUME NEW j \in 1..(n+1), NEW l \in 1..(n+1), j < l
               PROVE  Nested(chunks'[j], chunks'[l])
    BY <1>2 DEF Laminar
  <2>1. CASE l = n + 1
    BY <1>2, <1>9, <2>1
  <2>2. CASE l # n + 1
    <3>1. j \in 1..n /\ l \in 1..n
      BY <1>2, <2>2
    <3>2. Nested(chunks[j], chunks[l])
      BY <3>1 DEF Shape, Laminar, n
    <3> QED BY <1>2, <3>1, <3>2
  <2> QED BY <2>1, <2>2
<1> QED BY <1>8, <1>10

\* Each step of the search keeps them so.
LEMMA ShapeStep ==
  ASSUME AllAdvance, AllStartThere PROVE Shape /\ [Next]_vars => Shape'
<1> SUFFICES ASSUME Shape, [Next]_vars PROVE Shape'
  OBVIOUS
<1>1. Types'
  BY TypesStep DEF Shape
<1>2. ASSUME NEW m \in file.matches, FoundChunk(m) PROVE ChunksBehind' /\ Laminar'
  BY <1>2, ShapeFound
<1>3. ASSUME UNCHANGED <<file, start_offset, chunks>> PROVE ChunksBehind' /\ Laminar'
  BY <1>3 DEF Shape, ChunksBehind, Laminar
<1>4. (\E m \in file.matches : FoundChunk(m)) \/ UNCHANGED <<file, start_offset, chunks>>
  BY DEF Next, Scan, Match, SkipMatch, NextBlock, EndSearch, Finished, vars
<1>5. ChunksBehind' /\ Laminar'
  BY <1>2, <1>3, <1>4
<1> QED BY <1>1, <1>5 DEF Shape

\* They are so throughout the search, under both rules for handlers.
LEMMA ShapeInvariant ==
  ASSUME AllAdvance, AllStartThere PROVE Spec => []Shape
<1>1. Init => Shape
  BY DEF Init, Shape, Types, TypeOK, ChunksBehind, Laminar
<1>2. Shape /\ [Next]_vars => Shape'
  BY ShapeStep
<1> QED BY <1>1, <1>2, PTL DEF Spec

\* Handlers that obey the rules never make two chunks overlap partially.
THEOREM LaminarChunks ==
  ASSUME AllAdvance, AllStartThere PROVE Spec => []Laminar
<1>1. Shape => Laminar
  BY DEF Shape
<1> QED BY <1>1, ShapeInvariant, PTL

-----------------------------------------------------------------------------

\* A match yields no chunk for a reason, or the scanner has yet to report it.
Reason(m) == \/ real_offset(m) < 0 \/ m.calc = NoChunk \/ m.calc.end > file.size
             \/ InsideChunk(m)
             \/ \E n \in 1..Len(chunks) : Overlaps(m, chunks[n])
Ahead(m) == m.off >= start_offset /\ m \notin reported /\ m.end > i
Seen == \A m \in file.matches : Reason(m) \/ Ahead(m)
SearchInv == Types /\ Seen /\ (pc = "done" => i >= file.size)

\* A reason stays one when a chunk is added.
LEMMA ReasonStays ==
  ASSUME Types, NEW m \in file.matches, FoundChunk(m), NEW n \in file.matches, Reason(n)
  PROVE  Reason(n)'
BY FoundFacts DEF Reason, InsideChunk, real_offset

\* A match that is still ahead when the scan restarts behind a chunk is either run
\* into by the chunk, or ahead of the restarted scan: none before it is forgotten,
\* because the scanner reports matches by their ends.
LEMMA SeenFound ==
  ASSUME AllStartThere, Types, Seen, NEW m \in file.matches, FoundChunk(m)
  PROVE  Seen'
<1> SUFFICES ASSUME NEW n \in file.matches PROVE (Reason(n) \/ Ahead(n))'
  BY FoundFacts DEF Seen
<1>1. CASE Reason(n)
  BY <1>1, ReasonStays
<1>2. CASE ~ Reason(n)
  <2>1. Ahead(n)
    BY <1>2 DEF Seen
  <2>2. m.end <= n.end
    <3>1. /\ i \in Nat /\ BufSize \in Nat /\ n.end \in Nat /\ m.end \in Nat
          /\ m.end <= i + BufSize
      BY MatchFields DEF FoundChunk, NextMatches, Pending, Types, TypeOK
    <3>2. CASE n.end <= i + BufSize
      <4>1. n \in Pending
        BY <2>1, <3>2, MatchFields DEF Ahead, Pending, Types, TypeOK
      <4> QED BY <4>1 DEF FoundChunk, NextMatches
    <3> QED BY <3>1, <3>2
  <2>3. /\ m.calc \in Chunk /\ m.calc.start = m.off - m.back
    BY FoundFacts DEF AllStartThere, StartsThere, real_offset, Types
  <2>4. /\ m.calc.start \in Nat /\ m.calc.end \in Nat
        /\ m.off \in Nat /\ m.end \in Nat /\ m.back \in Nat /\ m.off < m.end
        /\ n.off \in Nat /\ n.end \in Nat /\ n.off < n.end
    BY <2>3, ChunkFields, MatchFields
  <2>5. CASE n.off < m.calc.end
    <3>1. Overlaps(n, m.calc)
      BY <2>2, <2>3, <2>4, <2>5 DEF Overlaps
    <3>2. Len(chunks') \in Nat /\ Len(chunks) + 1 \in 1..Len(chunks')
          /\ chunks'[Len(chunks) + 1] = m.calc
      BY FoundFacts
    <3> QED BY <3>1, <3>2 DEF Reason, Overlaps
  <2>6. CASE n.off >= m.calc.end
    <3>1. start_offset' = m.calc.end /\ i' = m.calc.end /\ reported' = {}
      BY FoundFacts
    <3> QED BY <2>4, <2>6, <3>1 DEF Ahead
  <2> QED BY <2>4, <2>5, <2>6
<1> QED BY <1>1, <1>2

\* Each step keeps the account of the matches that the scan has passed.
LEMMA SearchStep ==
  ASSUME AllStartThere PROVE SearchInv /\ [Next]_vars => SearchInv'
<1> SUFFICES ASSUME SearchInv, [Next]_vars PROVE SearchInv'
  OBVIOUS
<1>1. Types /\ Seen /\ Types'
  BY TypesStep DEF SearchInv
<1>2. ASSUME NEW m \in file.matches, SkipMatch(m) PROVE SearchInv'
  <2>1. \A n \in file.matches : Reason(n)' <=> Reason(n)
    BY <1>2 DEF SkipMatch, Reason, InsideChunk, real_offset
  <2>2. Reason(m)
    BY <1>1, <1>2, MatchFields, ChunkFields DEF SkipMatch, Usable, Reason, real_offset
  <2>3. Seen'
    BY <1>1, <1>2, <2>1, <2>2 DEF SkipMatch, Seen, Ahead
  <2> QED BY <1>1, <1>2, <2>3 DEF SearchInv, SkipMatch
<1>3. ASSUME NEW m \in file.matches, FoundChunk(m) PROVE SearchInv'
  <2>1. Seen'
    BY <1>1, <1>3, SeenFound
  <2> QED BY <1>1, <1>3, <2>1 DEF SearchInv, FoundChunk
<1>4. CASE NextBlock
  <2>1. \A n \in file.matches : Reason(n)' <=> Reason(n)
    BY <1>4 DEF NextBlock, Reason, InsideChunk, real_offset
  <2>2. \A n \in file.matches : Ahead(n) => Ahead(n)'
    <3> SUFFICES ASSUME NEW n \in file.matches, Ahead(n) PROVE n.end > i + BufSize
      BY <1>4 DEF NextBlock, Ahead
    <3>1. n.end \in Nat /\ i \in Nat /\ n.off \in Nat /\ start_offset \in Nat
      BY <1>1, MatchFields DEF Types, TypeOK
    <3>2. n \notin Pending
      BY <1>4 DEF NextBlock
    <3> QED BY <3>1, <3>2 DEF Ahead, Pending
  <2>3. Seen'
    BY <1>1, <1>4, <2>1, <2>2 DEF NextBlock, Seen
  <2> QED BY <1>1, <1>4, <2>3 DEF SearchInv, NextBlock
<1>5. CASE EndSearch \/ Finished \/ UNCHANGED vars
  <2>1. UNCHANGED <<file, i, reported, start_offset, chunks>>
    BY <1>5 DEF EndSearch, Finished, vars
  <2>2. Seen'
    BY <1>1, <2>1 DEF Seen, Reason, Ahead, InsideChunk, real_offset
  <2> QED BY <1>1, <1>5, <2>1, <2>2 DEF SearchInv, EndSearch, Finished, vars
<1> QED BY <1>2, <1>3, <1>4, <1>5 DEF Next, Scan, Match

\* If chunks start where their handler was told to look, no match is lost when the
\* scan restarts behind a chunk, nor at the boundary of two blocks.
THEOREM NoMatchMissed ==
  ASSUME AllStartThere PROVE Spec => []NothingMissed
<1>1. Init => SearchInv
  <2> SUFFICES ASSUME Init PROVE SearchInv
    OBVIOUS
  <2>1. Types
    BY DEF Init, Types, TypeOK
  <2>2. \A m \in file.matches : Ahead(m)
    BY <2>1, MatchFields DEF Init, Ahead
  <2> QED BY <2>1, <2>2 DEF Init, SearchInv, Seen
<1>2. SearchInv /\ [Next]_vars => SearchInv'
  BY SearchStep
<1>3. SearchInv => NothingMissed
  <2> SUFFICES ASSUME SearchInv, pc = "done", NEW m \in file.matches PROVE Reason(m)
    BY DEF NothingMissed, Reason
  <2>1. m.end <= file.size /\ file.size \in Nat /\ m.end \in Nat /\ i \in Nat
    BY MatchFields DEF SearchInv, Types, TypeOK
  <2>2. i >= file.size
    BY DEF SearchInv
  <2>3. ~ Ahead(m)
    BY <2>1, <2>2 DEF Ahead
  <2> QED BY <2>3 DEF SearchInv, Seen
<1> QED BY <1>1, <1>2, <1>3, PTL DEF Spec

-----------------------------------------------------------------------------
(* The search and the layout together.                                     *)

LP == INSTANCE LayoutProofs WITH size <- file.size, Inputs <- {}

\* The two instances of Layout (with and without its theorems) start alike ...
LEMMA SameStart == L!Start <=> LP!Start
BY DEF L!Start, LP!Start

\* ... mean the same by a tiled file ...
LEMMA SameTiled == L!Tiled <=> LP!Tiled
BY DEF L!Tiled, LP!Tiled, L!PairwiseDisjoint, LP!PairwiseDisjoint, L!Disjoint, LP!Disjoint,
       L!Covered, LP!Covered, L!ContainsOffset, LP!ContainsOffset

\* ... take the same steps of the layout ...
LEMMA SameStep == L!Step => LP!Step
<1>1. /\ L!KeepOuter <=> LP!KeepOuter
      /\ L!InnerRemoved <=> LP!InnerRemoved
      /\ L!NextGap <=> LP!NextGap
      /\ L!LastGap <=> LP!LastGap
  BY DEF L!KeepOuter, LP!KeepOuter, L!InnerRemoved, LP!InnerRemoved,
         L!NextGap, LP!NextGap, L!LastGap, LP!LastGap, L!input, LP!input, L!Contains, LP!Contains
<1>2. \A s : /\ L!Rearrangements(s) = LP!Rearrangements(s)
             /\ L!LargestFirst(s) <=> LP!LargestFirst(s)
             /\ L!LowestFirst(s) <=> LP!LowestFirst(s)
  BY DEF L!Rearrangements, LP!Rearrangements, L!LargestFirst, LP!LargestFirst,
         L!LowestFirst, LP!LowestFirst, L!ChunkSize, LP!ChunkSize,
         L!Bijection, LP!Bijection, L!Injection, LP!Injection, L!Surjection, LP!Surjection,
         L!IsInjective, LP!IsInjective
<1>3. L!SortBySize <=> LP!SortBySize
  BY <1>2 DEF L!SortBySize, LP!SortBySize, L!input, LP!input
<1>4. L!SortByOffset <=> LP!SortByOffset
  BY <1>2 DEF L!SortByOffset, LP!SortByOffset, L!input, LP!input
<1> QED BY <1>1, <1>3, <1>4 DEF L!Step, LP!Step

\* ... and mean the same by a chunk that is kept.
LEMMA SameInner == LP!InnerHasOuter <=> L!InnerHasOuter
BY DEF L!InnerHasOuter, LP!InnerHasOuter, L!Contains, LP!Contains

\* The layout has not begun before the search is over, and then starts with chunks
\* that lie in the file.
ScanInv == Shape /\ SearchInv /\ (pc = "scan" => L!Start) /\ LP!IInv

\* Every step of the search and of the layout keeps the invariant ScanInv.
LEMMA ScanInvStep ==
  ASSUME AllAdvance, AllStartThere PROVE ScanInv /\ [FileNext]_all => ScanInv'
<1> SUFFICES ASSUME ScanInv, [FileNext]_all PROVE ScanInv'
  OBVIOUS
<1>0. Shape /\ SearchInv /\ LP!IInv /\ (pc = "scan" => L!Start)
  BY DEF ScanInv
<1>1. [Next]_vars
  BY DEF FileNext, Search, LayOut, Over, all, Next
<1>2. Shape' /\ SearchInv'
  BY <1>0, <1>1, ShapeStep, SearchStep
<1>3. CASE Search
  <2>1. pc = "scan" /\ L!Start /\ UNCHANGED layout
    BY <1>0, <1>3 DEF Search, Scan, Match, SkipMatch, FoundChunk, NextBlock, EndSearch
  <2>2. L!Start' /\ LP!Start'
    BY <2>1 DEF L!Start, LP!Start, layout
  <2>3. (LP!InputOK(chunks, file.size))'
    <3>1. /\ chunks' \in Seq(Chunk) /\ file'.size \in Nat \ {0}
          /\ \A j \in 1..Len(chunks') : chunks'[j].end <= file'.size
      BY <1>2 DEF Shape, Types, TypeOK, FileOK, ChunksBehind
    <3> QED BY <3>1 DEF LP!InputOK, LP!Chunk, Chunk
  <2>4. LP!IInv'
    BY <2>2, <2>3, LP!StartInvNext
  <2> QED BY <1>2, <2>2, <2>4 DEF ScanInv
<1>4. CASE LayOut
  <2>1. LP!Step /\ UNCHANGED vars /\ pc = "done"
    BY <1>4, SameStep DEF LayOut
  <2>2. LP!IInv'
    BY <1>0, <2>1, LP!StepInv DEF LP!Next
  <2> QED BY <1>2, <2>1, <2>2 DEF ScanInv, vars
<1>5. CASE Over \/ UNCHANGED all
  <2>1. UNCHANGED vars /\ UNCHANGED layout
    BY <1>5 DEF Over, all
  <2>2. UNCHANGED LP!vars
    BY <2>1 DEF vars, layout, LP!vars
  <2>3. LP!IInv'
    BY <1>0, <2>2, LP!StepInv
  <2>4. L!Start => L!Start'
    BY <2>1 DEF L!Start, layout
  <2> QED BY <1>0, <1>2, <2>1, <2>3, <2>4 DEF ScanInv, vars
<1> QED BY <1>3, <1>4, <1>5 DEF FileNext

\* ScanInv holds throughout the processing of a file.
LEMMA ScanInvariance ==
  ASSUME AllAdvance, AllStartThere PROVE FileSpec => []ScanInv
<1>1. FileInit => ScanInv
  <2> SUFFICES ASSUME FileInit PROVE ScanInv
    OBVIOUS
  <2>1. Shape
    <3>1. Types
      BY FinderAssumption DEF FileInit, Init, Types, TypeOK
    <3>2. ChunksBehind /\ Laminar
      BY DEF FileInit, Init, ChunksBehind, Laminar
    <3> QED BY <3>1, <3>2 DEF Shape
  <2>2. SearchInv
    <3>1. \A m \in file.matches : Ahead(m)
      BY <2>1, MatchFields DEF FileInit, Init, Ahead, Shape
    <3> QED BY <2>1, <3>1 DEF FileInit, Init, SearchInv, Seen, Shape
  <2>3. LP!InputOK(chunks, file.size)
    BY <2>1 DEF FileInit, Init, Shape, Types, TypeOK, FileOK, LP!InputOK, LP!Chunk
  <2>4. LP!IInv
    BY <2>3, SameStart, LP!StartInv DEF FileInit
  <2> QED BY <2>1, <2>2, <2>4 DEF ScanInv, FileInit
<1> QED BY <1>1, ScanInvStep, PTL DEF FileSpec

-----------------------------------------------------------------------------

\* If the handlers obey the rules of the finder, calculate_unknown_chunks raises for
\* no file: no file is lost because of chunks that overlap.
THEOREM NoFileRaises ==
  ASSUME AllAdvance, AllStartThere PROVE FileSpec => []NeverRaised
<1>1. ScanInv => NeverRaised
  <2> SUFFICES ASSUME ScanInv PROVE step # "raised"
    BY DEF NeverRaised
  <2>1. Len(chunks) \in Nat /\ Laminar
    BY DEF ScanInv, Shape, Types, TypeOK
  <2>2. LP!Comparable(chunks)
    BY <2>1 DEF Laminar, Nested, Disjoint, Contains, LP!Comparable, LP!Disjoint, LP!Contains
  <2> QED BY <2>2 DEF ScanInv, LP!IInv
<1> QED BY <1>1, ScanInvariance, PTL

\* ... its chunks and the unknown ones between them are all of the file, once.
THEOREM FilesTiled ==
  ASSUME AllAdvance, AllStartThere PROVE FileSpec => []FileTiled
<1>1. ScanInv => FileTiled
  BY SameTiled DEF ScanInv, LP!IInv, FileTiled
<1> QED BY <1>1, ScanInvariance, PTL

\* ... and what was recognised is in one of the outer chunks.
THEOREM AllAccounted ==
  ASSUME AllAdvance, AllStartThere PROVE FileSpec => []Accounted
<1>1. ASSUME ScanInv, step = "done", NEW m \in file.matches, ~ (real_offset(m) < 0),
             m.calc # NoChunk, ~ (m.calc.end > file.size)
      PROVE  \E j \in 1..Len(outer) : \/ ContainsOffset(outer[j], real_offset(m))
                                     \/ Overlaps(m, outer[j])
  <2>1. Types /\ SearchInv /\ LP!InnerHasOuter /\ LP!TypeOK /\ pc = "done"
    BY <1>1 DEF ScanInv, Shape, LP!IInv, L!Start, Types, TypeOK
  <2>2. Reason(m)
    <3>1. m.end <= file.size /\ file.size \in Nat /\ m.end \in Nat /\ i \in Nat
      BY <1>1, <2>1, MatchFields DEF Types, TypeOK
    <3>2. i >= file.size
      BY <2>1 DEF SearchInv
    <3>3. ~ Ahead(m)
      BY <3>1, <3>2 DEF Ahead
    <3> QED BY <1>1, <2>1, <3>3 DEF SearchInv, Seen
  <2>3. PICK a \in 1..Len(chunks) : \/ ContainsOffset(chunks[a], real_offset(m))
                                   \/ Overlaps(m, chunks[a])
    BY <1>1, <2>2 DEF Reason, InsideChunk
  <2>4. PICK j \in 1..Len(outer) : outer[j] = chunks[a] \/ LP!Contains(outer[j], chunks[a])
    BY <1>1, <2>1 DEF LP!InnerHasOuter
  <2>5. chunks[a] \in Chunk /\ outer[j] \in Chunk
    <3>1. chunks \in Seq(Chunk) /\ outer \in Seq(Chunk)
      BY <2>1 DEF Types, TypeOK, LP!TypeOK, LP!Chunk, Chunk
    <3> QED BY <3>1
  <2>6. /\ chunks[a].start \in Nat /\ chunks[a].end \in Nat
        /\ outer[j].start \in Nat /\ outer[j].end \in Nat
        /\ m.off \in Nat /\ m.end \in Nat /\ m.back \in Nat
    BY <1>1, <2>1, <2>5, ChunkFields, MatchFields
  <2>7. outer[j].start <= chunks[a].start /\ chunks[a].end <= outer[j].end
    BY <2>4, <2>6 DEF LP!Contains
  <2>8. real_offset(m) \in Int
    BY <2>6 DEF real_offset
  <2>9. CASE ContainsOffset(chunks[a], real_offset(m))
    BY <2>6, <2>7, <2>8, <2>9 DEF ContainsOffset
  <2>10. CASE Overlaps(m, chunks[a])
    BY <2>6, <2>7, <2>10 DEF Overlaps
  <2> QED BY <2>3, <2>9, <2>10
<1>2. ScanInv => Accounted
  BY <1>1 DEF Accounted
<1> QED BY <1>2, ScanInvariance, PTL
=============================================================================
