------------------------------- MODULE Layout -------------------------------
(***************************************************************************)
(* How _FileTask.process of python/unblob/processing.py lays out a file:   *)
(* remove_inner_chunks keeps the outer ones of the chunks that were found, *)
(* calculate_unknown_chunks fills the gaps between them.  The two loops    *)
(* are state machines, so that what they compute can be proved by          *)
(* invariants.                                                             *)
(***************************************************************************)
EXTENDS Chunks, Sequences, Functions

CONSTANT Inputs    \* what the finder may hand over: records [chunks, size]

\* The finder drops chunks that overflow the file, empty files are not searched.
InputOK(chs, sz) ==
  /\ chs \in Seq(Chunk) /\ sz \in Nat \ {0}
  /\ \A j \in 1..Len(chs) : chs[j].end <= sz

ASSUME LayoutAssumption == \A x \in Inputs : InputOK(x.chunks, x.size)

VARIABLES
  chunks,     \* the list that search_chunks returned
  size,       \* the size of the file
  bySize,     \* chunks_by_size
  outer,      \* outer_chunks
  byOffset,   \* sorted_by_offset
  unknown,    \* unknown_chunks
  k,          \* how many chunks the current loop has passed
  step        \* "sort", "inner", "sort_outer", "gaps", "done" or "raised"

input == <<chunks, size>>
vars == <<chunks, size, bySize, outer, byOffset, unknown, k, step>>

Start ==
  /\ bySize = <<>> /\ outer = <<>> /\ byOffset = <<>> /\ unknown = <<>>
  /\ k = 0 /\ step = "sort"

Init ==
  /\ \E x \in Inputs : chunks = x.chunks /\ size = x.size
  /\ Start

\* sorted(): some rearrangement of the list that is in order (external)
Rearrangements(s) ==
  {[j \in 1..Len(s) |-> s[p[j]]] : p \in Bijection(1..Len(s), 1..Len(s))}
LargestFirst(s) == \A a, b \in 1..Len(s) : a < b => ChunkSize(s[a]) >= ChunkSize(s[b])
LowestFirst(s) == \A a, b \in 1..Len(s) : a < b => s[a].start <= s[b].start

\* remove_inner_chunks: the largest chunk is an outer one
SortBySize ==
  /\ step = "sort"
  /\ \/ /\ chunks = <<>>
        /\ step' = "done" /\ UNCHANGED <<bySize, outer, k>>
     \/ /\ chunks # <<>>
        /\ bySize' \in Rearrangements(chunks) /\ LargestFirst(bySize')
        /\ outer' = <<bySize'[1]>> /\ k' = 1
        /\ step' = "inner"
  /\ UNCHANGED <<input, byOffset, unknown>>

\* Mutants: only the last outer chunk is compared; all are kept.
KeepOuterBy(InOuter(_)) ==
  /\ step = "inner" /\ k < Len(bySize)
  /\ outer' = IF InOuter(bySize[k+1]) THEN outer ELSE Append(outer, bySize[k+1])
  /\ k' = k + 1
  /\ UNCHANGED <<input, bySize, byOffset, unknown, step>>
KeepOuterOfLast == KeepOuterBy(LAMBDA c : Contains(outer[Len(outer)], c))
KeepAll == KeepOuterBy(LAMBDA c : FALSE)

\* ... and every other one that no outer chunk contains
KeepOuter ==
  /\ step = "inner" /\ k < Len(bySize)
  /\ LET c == bySize[k+1] IN
       outer' = IF \E j \in 1..Len(outer) : Contains(outer[j], c) THEN outer ELSE Append(outer, c)
  /\ k' = k + 1
  /\ UNCHANGED <<input, bySize, byOffset, unknown, step>>

InnerRemoved ==
  /\ step = "inner" /\ k = Len(bySize)
  /\ step' = "sort_outer"
  /\ UNCHANGED <<input, bySize, outer, byOffset, unknown, k>>

\* calculate_unknown_chunks: the gap before the first chunk
SortByOffset ==
  /\ step = "sort_outer"
  /\ byOffset' \in Rearrangements(outer) /\ LowestFirst(byOffset')
  /\ unknown' = IF byOffset'[1].start = 0 THEN <<>>
                ELSE <<[start |-> 0, end |-> byOffset'[1].start]>>
  /\ k' = 1
  /\ step' = "gaps"
  /\ UNCHANGED <<input, bySize, outer>>

\* Mutant: an UnknownChunk is made between adjacent chunks too, and raises.
GapBetweenAdjacent ==
  /\ step = "gaps" /\ k < Len(byOffset)
  /\ LET from == byOffset[k].end
         to == byOffset[k+1].start
     IN \/ /\ from < to
           /\ unknown' = Append(unknown, [start |-> from, end |-> to])
           /\ k' = k + 1 /\ UNCHANGED step
        \/ /\ from >= to
           /\ step' = "raised" /\ UNCHANGED <<unknown, k>>
  /\ UNCHANGED <<input, bySize, outer, byOffset>>

\* ... the gap between two neighbours; UnknownChunk raises when they overlap
NextGap ==
  /\ step = "gaps" /\ k < Len(byOffset)
  /\ LET from == byOffset[k].end
         to == byOffset[k+1].start
     IN \/ /\ from <= to
           /\ unknown' = IF from = to THEN unknown
                         ELSE Append(unknown, [start |-> from, end |-> to])
           /\ k' = k + 1 /\ UNCHANGED step
        \/ /\ from > to
           /\ step' = "raised" /\ UNCHANGED <<unknown, k>>
  /\ UNCHANGED <<input, bySize, outer, byOffset>>

\* Mutant: a gap of one byte after the last chunk is not seen.
LastGapShort ==
  /\ step = "gaps" /\ k = Len(byOffset)
  /\ unknown' = IF byOffset[k].end < size - 1
                THEN Append(unknown, [start |-> byOffset[k].end, end |-> size]) ELSE unknown
  /\ step' = "done"
  /\ UNCHANGED <<input, bySize, outer, byOffset, k>>

\* ... and the gap after the last one
LastGap ==
  /\ step = "gaps" /\ k = Len(byOffset)
  /\ unknown' = IF byOffset[k].end < size
                THEN Append(unknown, [start |-> byOffset[k].end, end |-> size]) ELSE unknown
  /\ step' = "done"
  /\ UNCHANGED <<input, bySize, outer, byOffset, k>>

Finished == step \in {"done", "raised"} /\ UNCHANGED vars

Step == SortBySize \/ KeepOuter \/ InnerRemoved \/ SortByOffset \/ NextGap \/ LastGap
Next == Step \/ Finished

Spec == Init /\ [][Next]_vars

-----------------------------------------------------------------------------
(* Properties.                                                             *)

TypeOK ==
  /\ InputOK(chunks, size)
  /\ bySize \in Seq(Chunk) /\ outer \in Seq(Chunk)
  /\ byOffset \in Seq(Chunk) /\ unknown \in Seq(Chunk)
  /\ k \in Nat
  /\ step \in {"sort", "inner", "sort_outer", "gaps", "done", "raised"}

\* remove_inner_chunks keeps exactly the chunks that are within no other chunk,
\* although it compares a chunk only with the ones it has kept.
Maximal(S) == {c \in S : \A d \in S : ~ Contains(d, c)}
OuterAreMaximal ==
  step \in {"sort_outer", "gaps", "done", "raised"} => Range(outer) = Maximal(Range(chunks))

\* Whatever was found is carved with an outer chunk it lies in.
InnerHasOuter ==
  step \in {"sort_outer", "gaps", "done", "raised"} =>
    \A a \in 1..Len(chunks) : \E j \in 1..Len(outer) :
      outer[j] = chunks[a] \/ Contains(outer[j], chunks[a])

\* Unless calculate_unknown_chunks raises, the outer and the unknown chunks cover
\* every byte of the file exactly once: carving loses and duplicates nothing.
PairwiseDisjoint(s) == \A a, b \in 1..Len(s) : a < b => Disjoint(s[a], s[b])
Covered(o) == \/ \E j \in 1..Len(byOffset) : ContainsOffset(byOffset[j], o)
              \/ \E j \in 1..Len(unknown) : ContainsOffset(unknown[j], o)
Tiled ==
  step = "done" /\ chunks # <<>> =>
    /\ PairwiseDisjoint(byOffset) /\ PairwiseDisjoint(unknown)
    /\ \A a \in 1..Len(byOffset), b \in 1..Len(unknown) : Disjoint(byOffset[a], unknown[b])
    /\ \A o \in 0..(size-1) : Covered(o)
    /\ \A a \in 1..Len(unknown) : unknown[a].end <= size

\* It raises only when two outer chunks overlap.
RaisedMeansOverlap ==
  step = "raised" => \E a, b \in 1..Len(byOffset) : a < b /\ ~ Disjoint(byOffset[a], byOffset[b])

\* is_whole_file_chunk: when _process_chunks counts a single chunk, it is an outer
\* one and it is the whole file, so that not carving it is right.
WholeFile ==
  step = "done" /\ Len(outer) + Len(unknown) = 1 => outer = <<[start |-> 0, end |-> size]>>
=============================================================================
