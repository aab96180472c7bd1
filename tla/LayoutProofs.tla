---------------------------- MODULE LayoutProofs ----------------------------
(***************************************************************************)
(* Proofs about Layout, for files and lists of chunks of any size.  The    *)
(* inductive invariant is in two parts, one for each loop.                 *)
(***************************************************************************)
EXTENDS Layout, TLAPS

\* The chunks of the list are nested or disjoint, whatever two are taken.
Comparable(s) ==
  \A a, b \in 1..Len(s) :
    a # b => Disjoint(s[a], s[b]) \/ Contains(s[a], s[b]) \/ Contains(s[b], s[a])

\* remove_inner_chunks after k chunks: a chunk it has passed is an outer one or is
\* contained in one, and none it has passed contains an outer one.
Inner ==
  /\ k \in 1..Len(bySize)
  /\ \A j \in 1..Len(outer) : \E a \in 1..k : outer[j] = bySize[a]
  /\ \A a \in 1..k : \E j \in 1..Len(outer) :
       outer[j] = bySize[a] \/ Contains(outer[j], bySize[a])
  /\ \A a \in 1..k : \A j \in 1..Len(outer) : ~ Contains(bySize[a], outer[j])

Sorted ==
  /\ bySize \in Rearrangements(chunks) /\ LargestFirst(bySize)
  /\ outer # <<>>
  /\ Comparable(chunks) => PairwiseDisjoint(outer)

\* calculate_unknown_chunks after k chunks: up to the end of the k-th, every byte is
\* in one outer or unknown chunk.
Gaps ==
  /\ k \in 1..Len(byOffset)
  /\ \A a, b \in 1..k : a < b => byOffset[a].end <= byOffset[b].start
  /\ \A b \in 1..Len(unknown) : unknown[b].end <= byOffset[k].start
  /\ PairwiseDisjoint(unknown)
  /\ \A a \in 1..Len(byOffset), b \in 1..Len(unknown) : Disjoint(byOffset[a], unknown[b])
  /\ \A o \in 0..(byOffset[k].end - 1) : Covered(o)

OffsetSorted == byOffset \in Rearrangements(outer) /\ LowestFirst(byOffset)

IInv ==
  /\ TypeOK
  /\ step = "sort" => Start
  /\ step = "inner" => Sorted /\ Inner
  /\ step = "sort_outer" => Sorted
  /\ step = "gaps" => Sorted /\ OffsetSorted /\ Gaps
  /\ step = "raised" => ~ Comparable(chunks)
  /\ OuterAreMaximal /\ InnerHasOuter /\ Tiled /\ RaisedMeansOverlap /\ WholeFile

-----------------------------------------------------------------------------
(* Facts about chunks and rearrangements.                                  *)

\* What a chunk is.
LEMMA ChunkFields ==
  ASSUME NEW c \in Chunk
  PROVE  c.start \in Nat /\ c.end \in Nat /\ c.start < c.end
BY DEF Chunk

\* A chunk contains only smaller ones.
LEMMA ContainsIsLarger ==
  ASSUME NEW c \in Chunk, NEW d \in Chunk, Contains(c, d)
  PROVE  ChunkSize(c) > ChunkSize(d)
BY ChunkFields DEF Contains, ChunkSize

\* A chunk within a chunk within a third one is within the third one.
LEMMA ContainsTransitive ==
  ASSUME NEW c \in Chunk, NEW d \in Chunk, NEW e \in Chunk, Contains(c, d), Contains(d, e)
  PROVE  Contains(c, e)
BY ChunkFields DEF Contains

\* A rearrangement has the elements of the list and keeps what holds of any two.
LEMMA RearrangementFacts ==
  ASSUME NEW s \in Seq(Chunk), NEW t \in Rearrangements(s)
  PROVE  /\ t \in Seq(Chunk) /\ Len(t) = Len(s)
         /\ Range(t) = Range(s)
         /\ \A a \in 1..Len(t) : \E b \in 1..Len(s) : t[a] = s[b]
         /\ \A b \in 1..Len(s) : \E a \in 1..Len(t) : t[a] = s[b]
         /\ Comparable(s) => Comparable(t)
         /\ PairwiseDisjoint(s) => PairwiseDisjoint(t)
<1>1. PICK p \in Bijection(1..Len(s), 1..Len(s)) : t = [j \in 1..Len(s) |-> s[p[j]]]
  BY DEF Rearrangements
<1>2. /\ p \in [1..Len(s) -> 1..Len(s)]
      /\ \A a, b \in 1..Len(s) : p[a] = p[b] => a = b
      /\ \A b \in 1..Len(s) : \E a \in 1..Len(s) : p[a] = b
  BY <1>1 DEF Bijection, Injection, Surjection, IsInjective
<1>3. Len(s) \in Nat /\ \A a \in 1..Len(s) : s[a] \in Chunk /\ p[a] \in 1..Len(s)
  BY <1>2
<1>4. t \in Seq(Chunk) /\ Len(t) = Len(s)
  BY <1>1, <1>3
<1>5. \A a \in 1..Len(s) : t[a] = s[p[a]]
  BY <1>1
<1>6. /\ \A a \in 1..Len(t) : \E b \in 1..Len(s) : t[a] = s[b]
      /\ \A b \in 1..Len(s) : \E a \in 1..Len(t) : t[a] = s[b]
  BY <1>2, <1>3, <1>4, <1>5
<1>7. DOMAIN t = 1..Len(t) /\ DOMAIN s = 1..Len(s)
  BY <1>4
<1>8. Range(t) = Range(s)
  <2>1. Range(t) = {t[a] : a \in 1..Len(t)} /\ Range(s) = {s[b] : b \in 1..Len(s)}
    BY <1>7 DEF Range
  <2>2. \A x \in Range(t) : x \in Range(s)
    BY <1>6, <2>1, Zenon
  <2>3. \A x \in Range(s) : x \in Range(t)
    BY <1>6, <2>1, Zenon
  <2> QED BY <2>2, <2>3
<1>9. Comparable(s) => Comparable(t)
  <2> SUFFICES ASSUME Comparable(s), NEW a \in 1..Len(s), NEW b \in 1..Len(s), a # b
               PROVE  \/ Disjoint(t[a], t[b]) \/ Contains(t[a], t[b]) \/ Contains(t[b], t[a])
    BY <1>4 DEF Comparable
  <2>1. p[a] # p[b] /\ p[a] \in 1..Len(s) /\ p[b] \in 1..Len(s)
    BY <1>2
  <2> QED BY <1>5, <2>1 DEF Comparable
<1>10. PairwiseDisjoint(s) => PairwiseDisjoint(t)
  <2> SUFFICES ASSUME PairwiseDisjoint(s), NEW a \in 1..Len(s), NEW b \in 1..Len(s), a < b
               PROVE  Disjoint(t[a], t[b])
    BY <1>4 DEF PairwiseDisjoint
  <2>1. p[a] # p[b] /\ p[a] \in 1..Len(s) /\ p[b] \in 1..Len(s)
    BY <1>2, <1>3
  <2>2. \/ p[a] < p[b] /\ Disjoint(s[p[a]], s[p[b]])
        \/ p[b] < p[a] /\ Disjoint(s[p[b]], s[p[a]])
    BY <2>1 DEF PairwiseDisjoint
  <2> QED BY <1>5, <2>2 DEF Disjoint
<1> QED BY <1>4, <1>6, <1>8, <1>9, <1>10

\* What an appended element does to a list.
LEMMA AppendFacts ==
  ASSUME NEW s \in Seq(Chunk), NEW c \in Chunk
  PROVE  /\ Append(s, c) \in Seq(Chunk) /\ Len(s) \in Nat /\ Len(Append(s, c)) = Len(s) + 1
         /\ Append(s, c)[Len(s) + 1] = c
         /\ \A j \in 1..Len(s) : s[j] \in Chunk /\ Append(s, c)[j] = s[j]
OBVIOUS

-----------------------------------------------------------------------------
(* remove_inner_chunks.                                                    *)

\* Sorting by size establishes the invariant of the first loop.
LEMMA SortBySizeStep ==
  ASSUME IInv, SortBySize PROVE IInv'
<1>1. InputOK(chunks, size) /\ Start /\ chunks \in Seq(Chunk) /\ UNCHANGED <<input, byOffset, unknown>>
  BY DEF IInv, TypeOK, SortBySize, InputOK
<1>2. CASE chunks = <<>>
  <2>1. step' = "done" /\ UNCHANGED <<chunks, size, bySize, outer, byOffset, unknown, k>>
    BY <1>1, <1>2 DEF SortBySize, input
  <2>2. outer' = <<>> /\ chunks' = <<>> /\ unknown' = <<>>
    BY <1>1, <1>2, <2>1 DEF Start
  <2>3. OuterAreMaximal' /\ InnerHasOuter'
    <3>1. Range(<<>>) = {}
      BY DEF Range
    <3> QED BY <2>2, <3>1 DEF OuterAreMaximal, InnerHasOuter, Maximal
  <2>4. TypeOK'
    BY <2>1 DEF IInv, TypeOK
  <2> QED BY <2>1, <2>2, <2>3, <2>4 DEF IInv, Tiled, RaisedMeansOverlap, WholeFile
<1>3. CASE chunks # <<>>
  <2>1. /\ bySize' \in Rearrangements(chunks) /\ LargestFirst(bySize')
        /\ outer' = <<bySize'[1]>> /\ k' = 1 /\ step' = "inner"
        /\ UNCHANGED <<chunks, size, byOffset, unknown>>
    BY <1>1, <1>3 DEF SortBySize, input
  <2>2. bySize' \in Seq(Chunk) /\ Len(bySize') = Len(chunks)
    BY <1>1, <2>1, RearrangementFacts
  <2>3. Len(chunks) \in Nat /\ Len(chunks) >= 1
    BY <1>1, <1>3
  <2>4. bySize'[1] \in Chunk
    BY <2>2, <2>3
  <2>5. outer' \in Seq(Chunk) /\ outer' # <<>> /\ Len(outer') = 1 /\ outer'[1] = bySize'[1]
    BY <2>1, <2>4
  <2>6. TypeOK'
    BY <1>1, <2>1, <2>2, <2>5 DEF IInv, TypeOK
  <2>7. Sorted'
    BY <2>1, <2>5 DEF Sorted, PairwiseDisjoint
  <2>8. ~ Contains(bySize'[1], bySize'[1])
    BY <2>4, ChunkFields DEF Contains
  <2>9. Inner'
    BY <2>1, <2>2, <2>3, <2>5, <2>8 DEF Inner
  <2> QED BY <2>1, <2>6, <2>7, <2>9
           DEF IInv, OuterAreMaximal, InnerHasOuter, Tiled, RaisedMeansOverlap, WholeFile
<1> QED BY <1>2, <1>3

\* A chunk that no outer chunk contains is contained in none that the loop has
\* passed, and, being no larger, contains none of the outer ones.
LEMMA KeepOuterStep ==
  ASSUME IInv, KeepOuter PROVE IInv'
<1> DEFINE c == bySize[k+1]
           n == Len(outer)
<1>1. /\ TypeOK /\ Sorted /\ Inner /\ step = "inner"
      /\ bySize \in Seq(Chunk) /\ outer \in Seq(Chunk) /\ chunks \in Seq(Chunk)
  BY DEF IInv, KeepOuter, TypeOK, InputOK
<1>2. /\ k' = k + 1 /\ UNCHANGED <<chunks, size, bySize, byOffset, unknown, step>>
      /\ k < Len(bySize)
      /\ outer' = IF \E j \in 1..n : Contains(outer[j], c) THEN outer ELSE Append(outer, c)
  BY DEF KeepOuter, input
<1>3. /\ n \in Nat /\ Len(bySize) \in Nat /\ k \in 1..Len(bySize) /\ k + 1 \in 1..Len(bySize)
      /\ \A a \in 1..Len(bySize) : bySize[a] \in Chunk
      /\ \A j \in 1..n : outer[j] \in Chunk
      /\ c \in Chunk
  <2>1. n \in Nat /\ Len(bySize) \in Nat /\ k \in 1..Len(bySize)
    BY <1>1 DEF Inner
  <2>2. k + 1 \in 1..Len(bySize)
    BY <1>2, <2>1
  <2> QED BY <1>1, <2>1, <2>2
<1>in. /\ \A j \in 1..n : \E a \in 1..k : outer[j] = bySize[a]
       /\ \A a \in 1..k : \E j \in 1..n : outer[j] = bySize[a] \/ Contains(outer[j], bySize[a])
       /\ \A a \in 1..k : \A j \in 1..n : ~ Contains(bySize[a], outer[j])
  BY <1>1 DEF Inner
<1>c. c = bySize[k+1] /\ n = Len(outer) /\ \A a \in 1..(k+1) : a \in 1..k \/ a = k + 1
  BY <1>3
<1> HIDE DEF c, n
<1>4. \A j \in 1..n : ~ Contains(c, outer[j])
  <2> SUFFICES ASSUME NEW j \in 1..n, Contains(c, outer[j]) PROVE FALSE
    OBVIOUS
  <2>1. PICK a \in 1..k : outer[j] = bySize[a]
    BY <1>in
  <2>2. ChunkSize(bySize[a]) >= ChunkSize(c)
    <3>1. a \in 1..Len(bySize) /\ a < k + 1
      BY <1>3
    <3> QED BY <1>1, <1>3, <1>c, <3>1 DEF Sorted, LargestFirst
  <2>3. ChunkSize(c) > ChunkSize(bySize[a])
    BY <1>3, <2>1, ContainsIsLarger
  <2>4. ChunkSize(c) \in Int /\ ChunkSize(bySize[a]) \in Int
    BY <1>3, <2>1, ChunkFields DEF ChunkSize
  <2> QED BY <2>2, <2>3, <2>4
<1>5. CASE \E j \in 1..n : Contains(outer[j], c)
  <2>1. outer' = outer
    BY <1>2, <1>5
  <2>2. TypeOK'
    BY <1>1, <1>2, <1>3, <2>1 DEF TypeOK
  <2>3. Sorted'
    BY <1>1, <1>2, <2>1 DEF Sorted
  <2>4. Inner'
    <3>1. \A j \in 1..n : \E a \in 1..(k+1) : outer[j] = bySize[a]
      <4>1. \A a \in 1..k : a \in 1..(k+1)
        BY <1>3
      <4> QED BY <1>in, <4>1
    <3>2. \A a \in 1..(k+1) : \E j \in 1..n :
            outer[j] = bySize[a] \/ Contains(outer[j], bySize[a])
      BY <1>in, <1>c, <1>5
    <3>3. \A a \in 1..(k+1) : \A j \in 1..n : ~ Contains(bySize[a], outer[j])
      BY <1>in, <1>c, <1>4
    <3>4. k' \in 1..Len(bySize') /\ k' = k + 1 /\ bySize' = bySize /\ Len(outer') = n
      BY <1>2, <1>3, <1>c, <2>1
    <3> QED BY <2>1, <3>1, <3>2, <3>3, <3>4, Zenon DEF Inner
  <2> QED BY <1>1, <1>2, <2>2, <2>3, <2>4
           DEF IInv, OuterAreMaximal, InnerHasOuter, Tiled, RaisedMeansOverlap, WholeFile
<1>6. CASE ~ \E j \in 1..n : Contains(outer[j], c)
  <2>1. outer' = Append(outer, c)
    BY <1>2, <1>6
  <2>2. /\ outer' \in Seq(Chunk) /\ Len(outer') = n + 1 /\ outer'[n+1] = c
        /\ \A j \in 1..n : outer'[j] = outer[j]
    BY <1>1, <1>3, <1>c, <2>1, AppendFacts
  <2>3. TypeOK'
    BY <1>1, <1>2, <1>3, <2>2 DEF TypeOK
  <2>4. \A a \in 1..k : ~ Contains(bySize[a], c)
    <3> SUFFICES ASSUME NEW a \in 1..k, Contains(bySize[a], c) PROVE FALSE
      OBVIOUS
    <3>1. PICK j \in 1..n : outer[j] = bySize[a] \/ Contains(outer[j], bySize[a])
      BY <1>in
    <3>2. Contains(outer[j], c)
      BY <1>3, <3>1, ContainsTransitive
    <3> QED BY <1>6, <3>2
  <2>5. Inner'
    <3>1. \A j \in 1..(n+1) : \E a \in 1..(k+1) : outer'[j] = bySize[a]
      <4> SUFFICES ASSUME NEW j \in 1..(n+1) PROVE \E a \in 1..(k+1) : outer'[j] = bySize[a]
        OBVIOUS
      <4>1. CASE j = n + 1
        BY <1>3, <1>c, <2>2, <4>1
      <4>2. CASE j # n + 1
        <5>1. j \in 1..n
          BY <1>3, <4>2
        <5>2. PICK a \in 1..k : outer[j] = bySize[a]
          BY <1>in, <5>1
        <5>3. a \in 1..(k+1)
          BY <1>3
        <5> QED BY <2>2, <5>1, <5>2, <5>3
      <4> QED BY <4>1, <4>2
    <3>2. \A a \in 1..(k+1) : \E j \in 1..(n+1) :
            outer'[j] = bySize[a] \/ Contains(outer'[j], bySize[a])
      <4> SUFFICES ASSUME NEW a \in 1..(k+1)
                   PROVE  \E j \in 1..(n+1) :
                            outer'[j] = bySize[a] \/ Contains(outer'[j], bySize[a])
        OBVIOUS
      <4>1. CASE a = k + 1
        BY <1>3, <1>c, <2>2, <4>1
      <4>2. CASE a # k + 1
        <5>1. a \in 1..k
          BY <1>3, <4>2
        <5>2. PICK j \in 1..n : outer[j] = bySize[a] \/ Contains(outer[j], bySize[a])
          BY <1>in, <5>1
        <5>3. j \in 1..(n+1) /\ outer'[j] = outer[j]
          BY <1>3, <2>2
        <5> QED BY <5>2, <5>3
      <4> QED BY <4>1, <4>2
    <3>3. \A a \in 1..(k+1) : \A j \in 1..(n+1) : ~ Contains(bySize[a], outer'[j])
      <4> SUFFICES ASSUME NEW a \in 1..(k+1), NEW j \in 1..(n+1)
                   PROVE  ~ Contains(bySize[a], outer'[j])
        OBVIOUS
      <4>1. CASE a \in 1..k /\ j \in 1..n
        BY <1>in, <2>2, <4>1
      <4>2. CASE a \in 1..k /\ j = n + 1
        BY <2>2, <2>4, <4>2
      <4>3. CASE a = k + 1 /\ j \in 1..n
        BY <1>4, <1>c, <2>2, <4>3
      <4>4. CASE a = k + 1 /\ j = n + 1
        BY <1>3, <1>c, <2>2, <4>4, ChunkFields DEF Contains
      <4> QED BY <1>3, <4>1, <4>2, <4>3, <4>4
    <3> QED BY <1>2, <1>3, <2>2, <3>1, <3>2, <3>3 DEF Inner
  <2>6. ASSUME Comparable(chunks) PROVE PairwiseDisjoint(outer')
    <3>1. Comparable(bySize) /\ PairwiseDisjoint(outer)
      BY <1>1, <2>6, RearrangementFacts DEF Sorted
    <3>2. \A j \in 1..n : Disjoint(outer[j], c)
      <4> SUFFICES ASSUME NEW j \in 1..n PROVE Disjoint(outer[j], c)
        OBVIOUS
      <4>1. PICK a \in 1..k : outer[j] = bySize[a]
        BY <1>in
      <4>2. a \in 1..Len(bySize) /\ a # k + 1
        BY <1>3
      <4>3. Disjoint(bySize[a], c) \/ Contains(bySize[a], c) \/ Contains(c, bySize[a])
        BY <1>3, <1>c, <3>1, <4>2 DEF Comparable
      <4> QED BY <1>4, <1>6, <4>1, <4>3
    <3> SUFFICES ASSUME NEW a \in 1..(n+1), NEW b \in 1..(n+1), a < b
                 PROVE  Disjoint(outer'[a], outer'[b])
      BY <2>2 DEF PairwiseDisjoint
    <3>3. CASE b = n + 1
      BY <1>3, <2>2, <3>2, <3>3
    <3>4. CASE b # n + 1
      <4>1. a \in 1..n /\ b \in 1..n
        BY <1>3, <3>4
      <4> QED BY <2>2, <3>1, <4>1, <1>c DEF PairwiseDisjoint
    <3> QED BY <3>3, <3>4
  <2>7. Sorted'
    <3>1. outer' # <<>>
      BY <1>3, <2>2
    <3> QED BY <1>1, <1>2, <2>6, <3>1 DEF Sorted
  <2> QED BY <1>1, <1>2, <2>3, <2>5, <2>7
           DEF IInv, OuterAreMaximal, InnerHasOuter, Tiled, RaisedMeansOverlap, WholeFile
<1> QED BY <1>5, <1>6

\* When the loop has passed every chunk, the outer ones are the maximal ones.
LEMMA InnerRemovedStep ==
  ASSUME IInv, InnerRemoved PROVE IInv'
<1>1. /\ TypeOK /\ Sorted /\ Inner
      /\ bySize \in Seq(Chunk) /\ outer \in Seq(Chunk) /\ chunks \in Seq(Chunk)
  BY DEF IInv, InnerRemoved, TypeOK, InputOK
<1>2. /\ UNCHANGED <<chunks, size, bySize, outer, byOffset, unknown, k>>
      /\ k = Len(bySize) /\ step' = "sort_outer"
  BY DEF InnerRemoved, input
<1>3. Range(bySize) = Range(chunks)
  BY <1>1, RearrangementFacts DEF Sorted
<1>4. DOMAIN bySize = 1..Len(bySize) /\ DOMAIN outer = 1..Len(outer)
  BY <1>1
<1>5. /\ \A x : x \in Range(outer) <=> \E j \in 1..Len(outer) : x = outer[j]
      /\ \A x : x \in Range(bySize) <=> \E a \in 1..Len(bySize) : x = bySize[a]
  BY <1>4, Zenon DEF Range
<1>6. /\ \A j \in 1..Len(outer) : \E a \in 1..Len(bySize) : outer[j] = bySize[a]
      /\ \A a \in 1..Len(bySize) : \E j \in 1..Len(outer) :
           outer[j] = bySize[a] \/ Contains(outer[j], bySize[a])
      /\ \A a \in 1..Len(bySize) : \A j \in 1..Len(outer) : ~ Contains(bySize[a], outer[j])
  BY <1>1, <1>2 DEF Inner
<1>7. \A x \in Range(outer) : x \in Maximal(Range(bySize))
  <2> SUFFICES ASSUME NEW x \in Range(outer) PROVE x \in Maximal(Range(bySize))
    OBVIOUS
  <2>1. PICK j \in 1..Len(outer) : x = outer[j]
    BY <1>5
  <2>2. x \in Range(bySize)
    BY <1>5, <1>6, <2>1
  <2>3. ASSUME NEW d \in Range(bySize) PROVE ~ Contains(d, x)
    <3>1. PICK a \in 1..Len(bySize) : d = bySize[a]
      BY <1>5
    <3> QED BY <1>6, <2>1, <3>1
  <2> QED BY <2>2, <2>3 DEF Maximal
<1>8. \A x \in Maximal(Range(bySize)) : x \in Range(outer)
  <2> SUFFICES ASSUME NEW x \in Maximal(Range(bySize)) PROVE x \in Range(outer)
    OBVIOUS
  <2>1. PICK a \in 1..Len(bySize) : x = bySize[a]
    BY <1>5 DEF Maximal
  <2>2. PICK j \in 1..Len(outer) : outer[j] = x \/ Contains(outer[j], x)
    BY <1>6, <2>1
  <2>3. outer[j] \in Range(bySize)
    BY <1>5, <1>6
  <2>4. ~ Contains(outer[j], x)
    BY <2>3 DEF Maximal
  <2> QED BY <1>5, <2>2, <2>4
<1>9. Range(outer) = Maximal(Range(chunks))
  BY <1>3, <1>7, <1>8
<1>10. TypeOK' /\ Sorted' /\ OuterAreMaximal'
  BY <1>1, <1>2, <1>9 DEF TypeOK, Sorted, OuterAreMaximal
<1>11. InnerHasOuter'
  <2>1. \A b \in 1..Len(chunks) : \E a \in 1..Len(bySize) : bySize[a] = chunks[b]
    BY <1>1, RearrangementFacts DEF Sorted
  <2>2. \A b \in 1..Len(chunks) : \E j \in 1..Len(outer) :
          outer[j] = chunks[b] \/ Contains(outer[j], chunks[b])
    <3> SUFFICES ASSUME NEW b \in 1..Len(chunks)
                 PROVE  \E j \in 1..Len(outer) :
                          outer[j] = chunks[b] \/ Contains(outer[j], chunks[b])
      OBVIOUS
    <3>1. PICK a \in 1..Len(bySize) : bySize[a] = chunks[b]
      BY <2>1
    <3>2. PICK j \in 1..Len(outer) : outer[j] = bySize[a] \/ Contains(outer[j], bySize[a])
      BY <1>6
    <3> QED BY <3>1, <3>2
  <2> QED BY <1>2, <2>2 DEF InnerHasOuter
<1> QED BY <1>2, <1>10, <1>11 DEF IInv, Tiled, RaisedMeansOverlap, WholeFile

-----------------------------------------------------------------------------
(* calculate_unknown_chunks.                                               *)

\* What the loop knows of the sorted outer chunks.
LEMMA OffsetFacts ==
  ASSUME TypeOK, Sorted, OffsetSorted
  PROVE  /\ byOffset \in Seq(Chunk) /\ Len(byOffset) = Len(outer)
         /\ Len(outer) \in Nat /\ Len(outer) >= 1
         /\ \A a \in 1..Len(byOffset) :
              /\ byOffset[a] \in Chunk
              /\ byOffset[a].start \in Nat /\ byOffset[a].end \in Nat
              /\ byOffset[a].start < byOffset[a].end
         /\ \A a, b \in 1..Len(byOffset) : a < b => byOffset[a].start <= byOffset[b].start
         /\ Comparable(chunks) => PairwiseDisjoint(byOffset)
<1>1. outer \in Seq(Chunk) /\ outer # <<>>
  BY DEF TypeOK, Sorted
<1>2. byOffset \in Seq(Chunk) /\ Len(byOffset) = Len(outer)
  BY <1>1, RearrangementFacts DEF OffsetSorted
<1>3. PairwiseDisjoint(outer) => PairwiseDisjoint(byOffset)
  BY <1>1, RearrangementFacts DEF OffsetSorted
<1>4. Len(outer) \in Nat /\ Len(outer) >= 1
  BY <1>1
<1>5. \A a \in 1..Len(byOffset) : byOffset[a] \in Chunk
  BY <1>2
<1> QED BY <1>2, <1>3, <1>4, <1>5, ChunkFields DEF OffsetSorted, LowestFirst, Sorted

\* The unknown chunks are chunks.
LEMMA UnknownFields ==
  ASSUME TypeOK
  PROVE  /\ unknown \in Seq(Chunk) /\ Len(unknown) \in Nat
         /\ \A b \in 1..Len(unknown) :
              /\ unknown[b] \in Chunk
              /\ unknown[b].start \in Nat /\ unknown[b].end \in Nat
              /\ unknown[b].start < unknown[b].end
<1>1. unknown \in Seq(Chunk)
  BY DEF TypeOK
<1>2. \A b \in 1..Len(unknown) : unknown[b] \in Chunk
  BY <1>1
<1> QED BY <1>1, <1>2, ChunkFields

\* Sorting by offset establishes the invariant of the second loop.
LEMMA SortByOffsetStep ==
  ASSUME IInv, SortByOffset PROVE IInv'
<1>1. TypeOK /\ Sorted /\ OuterAreMaximal /\ InnerHasOuter /\ step = "sort_outer"
  BY DEF IInv, SortByOffset
<1>2. /\ UNCHANGED <<chunks, size, bySize, outer>> /\ step' = "gaps" /\ k' = 1
      /\ byOffset' \in Rearrangements(outer) /\ LowestFirst(byOffset')
      /\ unknown' = IF byOffset'[1].start = 0 THEN <<>>
                    ELSE <<[start |-> 0, end |-> byOffset'[1].start]>>
  BY DEF SortByOffset, input
<1>3. outer \in Seq(Chunk) /\ outer # <<>>
  BY <1>1 DEF TypeOK, Sorted
<1>4. byOffset' \in Seq(Chunk) /\ Len(byOffset') = Len(outer)
  BY <1>2, <1>3, RearrangementFacts
<1>5. 1 \in 1..Len(byOffset') /\ byOffset'[1] \in Chunk
  BY <1>3, <1>4
<1>6. byOffset'[1].start \in Nat
  BY <1>5, ChunkFields
<1>7. unknown' \in Seq(Chunk)
  <2>1. CASE byOffset'[1].start = 0
    BY <1>2, <2>1
  <2>2. CASE byOffset'[1].start # 0
    <3>1. [start |-> 0, end |-> byOffset'[1].start] \in Chunk
      BY <1>6, <2>2 DEF Chunk
    <3> QED BY <1>2, <2>2, <3>1
  <2> QED BY <2>1, <2>2
<1>8. TypeOK'
  BY <1>1, <1>2, <1>4, <1>7 DEF TypeOK
<1>9. Sorted' /\ OffsetSorted' /\ OuterAreMaximal' /\ InnerHasOuter'
  BY <1>1, <1>2 DEF Sorted, OffsetSorted, OuterAreMaximal, InnerHasOuter
<1>10. Gaps'
  <2>1. /\ \A a \in 1..Len(byOffset') : byOffset'[a].start >= byOffset'[1].start
        /\ \A a \in 1..Len(byOffset') : byOffset'[a].start \in Nat /\ byOffset'[a].end \in Nat
    <3>1. \A a \in 1..Len(byOffset') : byOffset'[a] \in Chunk
      BY <1>4
    <3>2. \A a \in 1..Len(byOffset') : byOffset'[a].start \in Nat /\ byOffset'[a].end \in Nat
      BY <3>1, ChunkFields
    <3>3. \A a \in 1..Len(byOffset') : a # 1 => byOffset'[1].start <= byOffset'[a].start
      BY <1>2, <1>5 DEF LowestFirst
    <3> QED BY <1>6, <3>2, <3>3
  <2>2. CASE byOffset'[1].start = 0
    <3>1. unknown' = <<>> /\ Len(unknown') = 0
      BY <1>2, <2>2
    <3>2. \A o \in 0..(byOffset'[1].end - 1) : ContainsOffset(byOffset'[1], o)
      BY <1>5, <2>1, <2>2 DEF ContainsOffset
    <3>3. \A o \in 0..(byOffset'[1].end - 1) : Covered(o)'
      BY <1>5, <3>2 DEF Covered, ContainsOffset
    <3> QED BY <1>2, <1>5, <3>1, <3>3 DEF Gaps, PairwiseDisjoint
  <2>3. CASE byOffset'[1].start # 0
    <3> DEFINE u == [start |-> 0, end |-> byOffset'[1].start]
    <3>1. unknown' = <<u>> /\ Len(unknown') = 1 /\ unknown'[1] = u
      BY <1>2, <2>3
    <3>2. u.start = 0 /\ u.end = byOffset'[1].start
      OBVIOUS
    <3>3. \A o \in 0..(byOffset'[1].end - 1) :
            ContainsOffset(byOffset'[1], o) \/ ContainsOffset(u, o)
      BY <1>5, <1>6, <2>1 DEF ContainsOffset
    <3> HIDE DEF u
    <3>4. \A o \in 0..(byOffset'[1].end - 1) : Covered(o)'
      BY <1>5, <3>1, <3>3 DEF Covered, ContainsOffset
    <3>5. \A a \in 1..Len(byOffset') : Disjoint(byOffset'[a], u)
      BY <2>1, <3>2 DEF Disjoint
    <3> QED BY <1>2, <1>5, <1>6, <3>1, <3>2, <3>4, <3>5 DEF Gaps, PairwiseDisjoint, Disjoint
  <2> QED BY <2>2, <2>3
<1> QED BY <1>2, <1>8, <1>9, <1>10 DEF IInv, Tiled, RaisedMeansOverlap, WholeFile

\* Neighbours that do not overlap: the gap between them is unknown, and everything
\* up to the end of the next chunk is covered.
LEMMA NextGapStep ==
  ASSUME IInv, NextGap PROVE IInv'
<1> DEFINE from == byOffset[k].end
           to == byOffset[k+1].start
           n == Len(byOffset)
<1>1. TypeOK /\ Sorted /\ OffsetSorted /\ Gaps /\ OuterAreMaximal /\ InnerHasOuter /\ step = "gaps"
  BY DEF IInv, NextGap
<1>2. UNCHANGED <<chunks, size, bySize, outer, byOffset>> /\ k < Len(byOffset)
  BY DEF NextGap, input
<1>3. n \in Nat /\ k \in 1..n /\ k + 1 \in 1..n
  BY <1>1, <1>2, OffsetFacts DEF Gaps
<1>4. /\ \A a \in 1..n : /\ byOffset[a] \in Chunk
                        /\ byOffset[a].start \in Nat /\ byOffset[a].end \in Nat
                        /\ byOffset[a].start < byOffset[a].end
      /\ \A a, b \in 1..n : a < b => byOffset[a].start <= byOffset[b].start
  BY <1>1, OffsetFacts
<1>5. from \in Nat /\ to \in Nat /\ byOffset[k].start <= to /\ byOffset[k].start < from
  BY <1>3, <1>4
<1>6. Sorted' /\ OffsetSorted'
  BY <1>1, <1>2 DEF Sorted, OffsetSorted
<1>7. CASE from > to
  <2>1. step' = "raised" /\ UNCHANGED <<unknown, k>>
    BY <1>5, <1>7 DEF NextGap
  <2>2. ~ Disjoint(byOffset[k], byOffset[k+1])
    BY <1>3, <1>4, <1>5, <1>7 DEF Disjoint
  <2>3. RaisedMeansOverlap'
    BY <1>2, <1>3, <2>2 DEF RaisedMeansOverlap, Disjoint
  <2>4. ~ PairwiseDisjoint(byOffset)
    BY <1>3, <2>2 DEF PairwiseDisjoint
  <2>5. ~ Comparable(chunks)
    BY <1>1, <2>4, OffsetFacts
  <2>6. TypeOK' /\ OuterAreMaximal' /\ InnerHasOuter' /\ ~ Comparable(chunks')
    BY <1>1, <1>2, <2>1, <2>5 DEF TypeOK, OuterAreMaximal, InnerHasOuter
  <2> QED BY <2>1, <2>3, <2>6 DEF IInv, Tiled, WholeFile
<1>8. CASE from <= to
  <2>1. /\ k' = k + 1 /\ step' = "gaps"
        /\ unknown' = IF from = to THEN unknown
                      ELSE Append(unknown, [start |-> from, end |-> to])
    BY <1>1, <1>5, <1>8 DEF NextGap
  <2>2. /\ \A a, b \in 1..k : a < b => byOffset[a].end <= byOffset[b].start
        /\ \A b \in 1..Len(unknown) : unknown[b].end <= byOffset[k].start
        /\ PairwiseDisjoint(unknown)
        /\ \A a \in 1..n, b \in 1..Len(unknown) : Disjoint(byOffset[a], unknown[b])
        /\ \A o \in 0..(byOffset[k].end - 1) : Covered(o)
    BY <1>1 DEF Gaps
  <2>3. /\ unknown \in Seq(Chunk) /\ Len(unknown) \in Nat
        /\ \A b \in 1..Len(unknown) :
             unknown[b].start \in Nat /\ unknown[b].end \in Nat /\ unknown[b].start < unknown[b].end
    BY <1>1, UnknownFields
  <2> HIDE DEF from, to, n
  <2>d. from = byOffset[k].end /\ to = byOffset[k+1].start /\ n = Len(byOffset)
    BY DEF from, to, n
  \* the chunks up to the next one are in order
  <2>4. \A a \in 1..k : byOffset[a].end <= from
    <3> SUFFICES ASSUME NEW a \in 1..k PROVE byOffset[a].end <= from
      OBVIOUS
    <3>1. CASE a = k
      BY <1>5, <2>d, <3>1
    <3>2. CASE a # k
      <4>1. a < k /\ k \in 1..k /\ a \in 1..n
        BY <1>3, <3>2
      <4>2. byOffset[a].end <= byOffset[k].start /\ byOffset[a].end \in Nat
        BY <1>4, <2>2, <4>1
      <4> QED BY <1>3, <1>4, <1>5, <4>2
    <3> QED BY <3>1, <3>2
  <2>5. \A a, b \in 1..(k+1) : a < b => byOffset[a].end <= byOffset[b].start
    <3> SUFFICES ASSUME NEW a \in 1..(k+1), NEW b \in 1..(k+1), a < b
                 PROVE  byOffset[a].end <= byOffset[b].start
      OBVIOUS
    <3>1. CASE b = k + 1
      <4>1. a \in 1..k /\ a \in 1..n
        BY <1>3, <3>1
      <4>2. byOffset[a].end <= from /\ byOffset[a].end \in Nat
        BY <1>4, <2>4, <4>1
      <4> QED BY <1>5, <1>8, <2>d, <3>1, <4>2
    <3>2. CASE b # k + 1
      <4>1. a \in 1..k /\ b \in 1..k
        BY <1>3, <3>2
      <4> QED BY <2>2, <4>1
    <3> QED BY <3>1, <3>2
  <2>6. \A a \in 1..n : a \in 1..k \/ (a > k /\ byOffset[a].start >= to)
    <3> SUFFICES ASSUME NEW a \in 1..n, a \notin 1..k PROVE a > k /\ byOffset[a].start >= to
      OBVIOUS
    <3>1. a > k /\ (a = k + 1 \/ k + 1 < a)
      BY <1>3
    <3> QED BY <1>3, <1>4, <1>5, <2>d, <3>1
  <2>7. CASE from = to
    <3>1. unknown' = unknown
      BY <2>1, <2>7
    <3>2. TypeOK'
      BY <1>1, <1>2, <1>3, <2>1, <3>1 DEF TypeOK
    <3>3. \A b \in 1..Len(unknown) : unknown[b].end <= byOffset[k+1].start
      <4> SUFFICES ASSUME NEW b \in 1..Len(unknown)
                   PROVE  unknown[b].end <= byOffset[k+1].start
        OBVIOUS
      <4>1. unknown[b].end \in Nat /\ unknown[b].end <= byOffset[k].start
        BY <2>2, <2>3
      <4>2. byOffset[k].start \in Nat
        BY <1>3, <1>4
      <4>3. to \in Nat /\ byOffset[k].start <= to
        BY <1>5
      <4>4. unknown[b].end <= to
        BY <4>1, <4>2, <4>3
      <4> QED BY <2>d, <4>4
    <3>4. \A o \in 0..(byOffset[k+1].end - 1) : Covered(o)
      <4> SUFFICES ASSUME NEW o \in 0..(byOffset[k+1].end - 1) PROVE Covered(o)
        OBVIOUS
      <4>1. o \in Int /\ byOffset[k+1].end \in Nat /\ o < byOffset[k+1].end /\ o >= 0
        BY <1>3, <1>4
      <4>2. CASE o < from
        <5>1. o \in 0..(byOffset[k].end - 1)
          BY <1>5, <2>d, <4>1, <4>2
        <5> QED BY <2>2, <5>1
      <4>3. CASE o >= from
        <5>1. ContainsOffset(byOffset[k+1], o)
          BY <2>7, <2>d, <4>1, <4>3 DEF ContainsOffset
        <5> QED BY <1>3, <2>d, <5>1 DEF Covered
      <4> QED BY <1>5, <4>1, <4>2, <4>3
    <3>5. Gaps'
      <4>1. k' = k + 1 /\ k + 1 \in 1..Len(byOffset) /\ byOffset' = byOffset
        BY <1>2, <1>3, <2>1, <2>d
      <4>2. \A o \in 0..(byOffset[k+1].end - 1) : Covered(o)'
        BY <3>1, <3>4, <4>1, Zenon DEF Covered
      <4> QED BY <2>2, <2>5, <2>d, <3>1, <3>3, <4>1, <4>2, Zenon DEF Gaps
    <3> QED BY <1>1, <1>2, <1>6, <2>1, <3>2, <3>5
             DEF IInv, OuterAreMaximal, InnerHasOuter, Tiled, RaisedMeansOverlap, WholeFile
  <2>8. CASE from # to
    <3> DEFINE u == [start |-> from, end |-> to]
               l == Len(unknown)
    <3>1. u \in Chunk /\ u.start = from /\ u.end = to
      BY <1>5, <1>8, <2>8 DEF Chunk
    <3> HIDE DEF u
    <3>2. unknown' = Append(unknown, u)
      BY <2>1, <2>8 DEF u
    <3>3. /\ unknown' \in Seq(Chunk) /\ Len(unknown') = l + 1 /\ unknown'[l+1] = u
          /\ \A b \in 1..l : unknown'[b] = unknown[b]
      BY <2>3, <3>1, <3>2, AppendFacts
    <3> HIDE DEF l
    <3>l. l = Len(unknown) /\ l \in Nat /\ \A b \in 1..(l+1) : b \in 1..l \/ b = l + 1
      BY <2>3 DEF l
    <3>4. TypeOK'
      BY <1>1, <1>2, <1>3, <2>1, <3>3 DEF TypeOK
    <3>5. \A b \in 1..l : unknown[b].end <= from /\ unknown[b].end <= to
      BY <1>3, <1>4, <1>5, <2>2, <2>3, <3>l
    <3>6. \A b \in 1..(l+1) : unknown'[b].end <= byOffset[k+1].start
      BY <1>5, <2>d, <3>1, <3>3, <3>5, <3>l
    <3>7. PairwiseDisjoint(unknown')
      <4> SUFFICES ASSUME NEW a \in 1..(l+1), NEW b \in 1..(l+1), a < b
                   PROVE  Disjoint(unknown'[a], unknown'[b])
        BY <3>3 DEF PairwiseDisjoint
      <4>1. CASE b = l + 1
        <5>1. a \in 1..l
          BY <3>l, <4>1
        <5> QED BY <3>1, <3>3, <3>5, <4>1, <5>1 DEF Disjoint
      <4>2. CASE b # l + 1
        <5>1. a \in 1..l /\ b \in 1..l
          BY <3>l, <4>2
        <5> QED BY <2>2, <3>3, <3>l, <5>1 DEF PairwiseDisjoint
      <4> QED BY <4>1, <4>2
    <3>8. \A a \in 1..n, b \in 1..(l+1) : Disjoint(byOffset[a], unknown'[b])
      <4> SUFFICES ASSUME NEW a \in 1..n, NEW b \in 1..(l+1)
                   PROVE  Disjoint(byOffset[a], unknown'[b])
        OBVIOUS
      <4>1. CASE b = l + 1
        BY <2>4, <2>6, <3>1, <3>3, <4>1 DEF Disjoint
      <4>2. CASE b \in 1..l
        BY <2>2, <3>3, <3>l, <4>2
      <4> QED BY <3>l, <4>1, <4>2
    <3>9. \A o \in 0..(byOffset[k+1].end - 1) : Covered(o)'
      <4> SUFFICES ASSUME NEW o \in 0..(byOffset[k+1].end - 1) PROVE Covered(o)'
        OBVIOUS
      <4>1. o \in Int /\ byOffset[k+1].end \in Nat /\ o < byOffset[k+1].end /\ o >= 0
        BY <1>3, <1>4
      <4>2. CASE o < from
        <5>1. o \in 0..(byOffset[k].end - 1)
          BY <1>5, <2>d, <4>1, <4>2
        <5>2. Covered(o)
          BY <2>2, <5>1
        <5>3. ASSUME NEW b \in 1..Len(unknown), ContainsOffset(unknown[b], o) PROVE Covered(o)'
          <6>1. b \in 1..Len(unknown') /\ unknown'[b] = unknown[b]
            BY <3>3, <3>l
          <6> QED BY <5>3, <6>1 DEF Covered, ContainsOffset
        <5> QED BY <1>2, <5>2, <5>3 DEF Covered, ContainsOffset
      <4>3. CASE o >= from /\ o < to
        <5>1. ContainsOffset(u, o) /\ l + 1 \in 1..Len(unknown')
          BY <3>1, <3>3, <3>l, <4>3 DEF ContainsOffset
        <5> QED BY <3>3, <5>1 DEF Covered, ContainsOffset
      <4>4. CASE o >= to
        <5>1. ContainsOffset(byOffset[k+1], o)
          BY <2>d, <4>1, <4>4 DEF ContainsOffset
        <5> QED BY <1>2, <1>3, <2>d, <5>1 DEF Covered, ContainsOffset
      <4> QED BY <1>5, <4>1, <4>2, <4>3, <4>4
    <3>10. Gaps'
      <4>1. /\ k' = k + 1 /\ k + 1 \in 1..Len(byOffset) /\ byOffset' = byOffset
            /\ Len(unknown') = l + 1
        BY <1>2, <1>3, <2>1, <2>d, <3>3
      <4> QED BY <2>5, <2>d, <3>6, <3>7, <3>8, <3>9, <4>1, Zenon DEF Gaps
    <3> QED BY <1>1, <1>2, <1>6, <2>1, <3>4, <3>10
             DEF IInv, OuterAreMaximal, InnerHasOuter, Tiled, RaisedMeansOverlap, WholeFile
  <2> QED BY <2>7, <2>8
<1> QED BY <1>5, <1>7, <1>8

\* The outer chunks lie in the file, as the chunks that were found do.
LEMMA OuterInFile ==
  ASSUME TypeOK, Sorted, OffsetSorted, OuterAreMaximal, step = "gaps", NEW a \in 1..Len(byOffset)
  PROVE  byOffset[a].end <= size
<1>1. outer \in Seq(Chunk) /\ chunks \in Seq(Chunk) /\ \A j \in 1..Len(chunks) : chunks[j].end <= size
  BY DEF TypeOK, InputOK
<1>2. PICK b \in 1..Len(outer) : byOffset[a] = outer[b]
  BY <1>1, RearrangementFacts DEF OffsetSorted
<1>3. DOMAIN outer = 1..Len(outer) /\ DOMAIN chunks = 1..Len(chunks)
  BY <1>1
<1>4. outer[b] \in Range(outer)
  BY <1>3, Zenon DEF Range
<1>5. outer[b] \in Range(chunks)
  BY <1>4 DEF OuterAreMaximal, Maximal
<1>6. PICK j \in 1..Len(chunks) : outer[b] = chunks[j]
  BY <1>3, <1>5, Zenon DEF Range
<1> QED BY <1>1, <1>2, <1>6

\* The gap after the last chunk completes the tiling.
LEMMA LastGapStep ==
  ASSUME IInv, LastGap PROVE IInv'
<1> DEFINE e == byOffset[k].end
           n == Len(byOffset)
           l == Len(unknown)
<1>1. TypeOK /\ Sorted /\ OffsetSorted /\ Gaps /\ OuterAreMaximal /\ InnerHasOuter /\ step = "gaps"
  BY DEF IInv, LastGap
<1>2. /\ UNCHANGED <<chunks, size, bySize, outer, byOffset, k>> /\ k = n /\ step' = "done"
      /\ unknown' = IF e < size THEN Append(unknown, [start |-> e, end |-> size]) ELSE unknown
  BY DEF LastGap, input
<1>3. /\ n \in Nat /\ n >= 1 /\ k \in 1..n /\ Len(outer) = n
      /\ \A a \in 1..n : /\ byOffset[a] \in Chunk
                        /\ byOffset[a].start \in Nat /\ byOffset[a].end \in Nat
                        /\ byOffset[a].start < byOffset[a].end
      /\ \A a \in 1..n : byOffset[a].end <= size
  BY <1>1, <1>2, OffsetFacts, OuterInFile
<1>4. e \in Nat /\ size \in Nat \ {0} /\ e <= size /\ byOffset[k].start < e
  BY <1>1, <1>3 DEF TypeOK, InputOK
<1>5. /\ unknown \in Seq(Chunk) /\ l \in Nat
      /\ \A b \in 1..l : unknown[b].start \in Nat /\ unknown[b].end \in Nat
  BY <1>1, UnknownFields
<1>6. /\ \A a, b \in 1..n : a < b => byOffset[a].end <= byOffset[b].start
      /\ \A b \in 1..l : unknown[b].end <= byOffset[k].start
      /\ PairwiseDisjoint(unknown)
      /\ \A a \in 1..n, b \in 1..l : Disjoint(byOffset[a], unknown[b])
      /\ \A o \in 0..(e - 1) : Covered(o)
  BY <1>1, <1>2 DEF Gaps
<1> HIDE DEF e, n, l
<1>d. e = byOffset[k].end /\ n = Len(byOffset) /\ l = Len(unknown) /\ k = n
  BY <1>2 DEF e, n, l
<1>7. PairwiseDisjoint(byOffset)
  BY <1>6, <1>d DEF PairwiseDisjoint, Disjoint
<1>8. \A b \in 1..l : unknown[b].end < e
  BY <1>3, <1>4, <1>5, <1>6
<1>9. OuterAreMaximal' /\ InnerHasOuter' /\ RaisedMeansOverlap'
  BY <1>1, <1>2 DEF OuterAreMaximal, InnerHasOuter, RaisedMeansOverlap
<1>10. CASE e >= size
  <2>1. unknown' = unknown
    BY <1>2, <1>4, <1>10
  <2>2. TypeOK'
    BY <1>1, <1>2, <2>1 DEF TypeOK
  <2>3. \A o \in 0..(size - 1) : Covered(o)
    BY <1>4, <1>6, <1>10
  <2>4. \A o \in 0..(size - 1) : Covered(o)'
    BY <1>2, <2>1, <2>3, Zenon DEF Covered
  <2>5. \A b \in 1..l : unknown[b].end <= size
    BY <1>4, <1>5, <1>8
  <2>6. Tiled'
    BY <1>2, <1>6, <1>7, <1>d, <2>1, <2>4, <2>5, Zenon DEF Tiled
  <2>7. ASSUME Len(outer) + Len(unknown) = 1 PROVE outer = <<[start |-> 0, end |-> size]>>
    <3>1. n = 1 /\ l = 0 /\ k = 1 /\ Len(outer) = 1
      BY <1>3, <1>5, <1>d, <2>7
    <3>2. 0 \in 0..(size - 1)
      BY <1>4
    <3>3. \E j \in 1..Len(byOffset) : ContainsOffset(byOffset[j], 0)
      BY <1>d, <2>3, <3>1, <3>2 DEF Covered
    <3>4. byOffset[1].start = 0 /\ byOffset[1].end = size
      BY <1>3, <1>4, <1>10, <1>d, <3>1, <3>3 DEF ContainsOffset
    <3>5. byOffset[1] = [start |-> 0, end |-> size]
      <4>1. byOffset[1] \in [start : Nat, end : Nat]
        BY <1>3, <3>1 DEF Chunk
      <4> QED BY <3>4, <4>1
    <3>6. outer \in Seq(Chunk)
      BY <1>1 DEF TypeOK
    <3>7. PICK b \in 1..Len(outer) : byOffset[1] = outer[b]
      <4>1. 1 \in 1..Len(byOffset)
        BY <1>d, <3>1
      <4>2. byOffset \in Rearrangements(outer)
        BY <1>1 DEF OffsetSorted
      <4> QED BY <3>6, <4>1, <4>2, RearrangementFacts
    <3>8. outer[1] = [start |-> 0, end |-> size]
      BY <3>1, <3>5, <3>7
    <3> QED BY <3>1, <3>6, <3>8
  <2>8. WholeFile'
    BY <1>2, <2>1, <2>7 DEF WholeFile
  <2> QED BY <1>2, <1>9, <2>2, <2>6, <2>8 DEF IInv
<1>11. CASE e < size
  <2> DEFINE u == [start |-> e, end |-> size]
  <2>1. u \in Chunk /\ u.start = e /\ u.end = size
    BY <1>4, <1>11 DEF Chunk
  <2>2. unknown' = Append(unknown, u)
    BY <1>2, <1>11
  <2> HIDE DEF u
  <2>3. /\ unknown' \in Seq(Chunk) /\ Len(unknown') = l + 1 /\ unknown'[l+1] = u
        /\ \A b \in 1..l : unknown'[b] = unknown[b]
        /\ \A b \in 1..(l+1) : b \in 1..l \/ b = l + 1
    BY <1>5, <1>d, <2>1, <2>2, AppendFacts
  <2>4. TypeOK'
    BY <1>1, <1>2, <2>3 DEF TypeOK
  <2>5. PairwiseDisjoint(unknown')
    <3> SUFFICES ASSUME NEW a \in 1..(l+1), NEW b \in 1..(l+1), a < b
                 PROVE  Disjoint(unknown'[a], unknown'[b])
      BY <2>3 DEF PairwiseDisjoint
    <3>1. CASE b = l + 1
      <4>1. a \in 1..l
        BY <1>5, <3>1
      <4>2. unknown[a].end <= u.start
        BY <1>4, <1>5, <1>8, <2>1, <4>1
      <4> QED BY <2>3, <3>1, <4>1, <4>2 DEF Disjoint
    <3>2. CASE b # l + 1
      <4>1. l \in Nat
        BY <1>5
      <4>2. a \in 1..l /\ b \in 1..l
        BY <3>2, <4>1
      <4> QED BY <1>6, <1>d, <2>3, <4>2 DEF PairwiseDisjoint
    <3> QED BY <3>1, <3>2
  <2>6. \A a \in 1..n : byOffset[a].end <= e
    <3> SUFFICES ASSUME NEW a \in 1..n PROVE byOffset[a].end <= e
      OBVIOUS
    <3>1. CASE a = n
      BY <1>4, <1>d, <3>1
    <3>2. CASE a # n
      <4>1. a < n /\ n \in 1..n
        BY <1>3, <3>2
      <4>2. byOffset[a].end <= byOffset[n].start
        BY <1>6, <4>1
      <4> QED BY <1>3, <1>4, <1>d, <4>1, <4>2
    <3> QED BY <3>1, <3>2
  <2>7. \A a \in 1..n, b \in 1..(l+1) : Disjoint(byOffset[a], unknown'[b])
    BY <1>6, <2>1, <2>3, <2>6 DEF Disjoint
  <2>8. \A o \in 0..(size - 1) : Covered(o)'
    <3> SUFFICES ASSUME NEW o \in 0..(size - 1) PROVE Covered(o)'
      OBVIOUS
    <3>1. CASE o < e
      <4>1. Covered(o)
        BY <1>4, <1>6, <3>1
      <4>2. ASSUME NEW b \in 1..Len(unknown), ContainsOffset(unknown[b], o) PROVE Covered(o)'
        <5>1. b \in 1..Len(unknown') /\ unknown'[b] = unknown[b]
          BY <1>5, <1>d, <2>3
        <5> QED BY <4>2, <5>1 DEF Covered, ContainsOffset
      <4> QED BY <1>2, <4>1, <4>2 DEF Covered, ContainsOffset
    <3>2. CASE o >= e
      <4>1. ContainsOffset(u, o) /\ l + 1 \in 1..Len(unknown')
        BY <1>4, <1>5, <2>1, <2>3, <3>2 DEF ContainsOffset
      <4> QED BY <2>3, <4>1 DEF Covered, ContainsOffset
    <3> QED BY <1>4, <3>1, <3>2
  <2>9. \A b \in 1..(l+1) : unknown'[b].end <= size
    BY <1>4, <1>5, <1>8, <2>1, <2>3
  <2>10. Tiled'
    <3>1. byOffset' = byOffset /\ size' = size /\ Len(unknown') = l + 1
      BY <1>2, <2>3
    <3> QED BY <1>7, <1>d, <2>5, <2>7, <2>8, <2>9, <3>1, Zenon DEF Tiled
  <2>11. WholeFile'
    BY <1>2, <1>3, <1>5, <2>3 DEF WholeFile
  <2> QED BY <1>2, <1>9, <2>4, <2>10, <2>11 DEF IInv
<1> QED BY <1>4, <1>10, <1>11

-----------------------------------------------------------------------------
(* The theorems.                                                           *)

\* Whatever list the finder hands over, the loops start with the invariant.
LEMMA StartInv ==
  ASSUME InputOK(chunks, size), Start PROVE IInv
BY DEF InputOK, Start, IInv, TypeOK, OuterAreMaximal, InnerHasOuter, Tiled, RaisedMeansOverlap, WholeFile

\* The same for a step into a starting state.
LEMMA StartInvNext ==
  ASSUME InputOK(chunks, size)', Start' PROVE IInv'
BY DEF InputOK, Start, IInv, TypeOK, OuterAreMaximal, InnerHasOuter, Tiled, RaisedMeansOverlap,
       WholeFile

\* A step that leaves the layout alone keeps the invariant.
LEMMA StutterInv ==
  ASSUME IInv, UNCHANGED vars PROVE IInv'
BY DEF IInv, vars, TypeOK, Start, Sorted, Inner, OffsetSorted, Gaps, Covered,
       OuterAreMaximal, InnerHasOuter, Tiled, RaisedMeansOverlap, WholeFile

\* Every step keeps the inductive invariant.
LEMMA StepInv == IInv /\ [Next]_vars => IInv'
BY SortBySizeStep, KeepOuterStep, InnerRemovedStep, SortByOffsetStep, NextGapStep, LastGapStep,
   StutterInv DEF Next, Step, Finished

\* The inductive invariant holds in every reachable state.
LEMMA Invariance == Spec => []IInv
<1>1. Init => IInv
  BY StartInv, LayoutAssumption DEF Init
<1> QED BY <1>1, StepInv, PTL DEF Spec

\* remove_inner_chunks keeps exactly the chunks that no other one contains.
THEOREM KeepsMaximal == Spec => []OuterAreMaximal
<1>1. IInv => OuterAreMaximal
  BY DEF IInv
<1> QED BY <1>1, Invariance, PTL

\* Everything that was found lies in an outer chunk.
THEOREM NothingDropped == Spec => []InnerHasOuter
<1>1. IInv => InnerHasOuter
  BY DEF IInv
<1> QED BY <1>1, Invariance, PTL

\* The outer and the unknown chunks tile the file, unless calculate_unknown_chunks
\* raises.
THEOREM Tiling == Spec => []Tiled
<1>1. IInv => Tiled
  BY DEF IInv
<1> QED BY <1>1, Invariance, PTL

\* A file that is not carved is a single chunk from its first to its last byte.
THEOREM WholeFileChunk == Spec => []WholeFile
<1>1. IInv => WholeFile
  BY DEF IInv
<1> QED BY <1>1, Invariance, PTL

\* calculate_unknown_chunks raises only if two outer chunks overlap ...
THEOREM RaisesOnOverlap == Spec => []RaisedMeansOverlap
<1>1. IInv => RaisedMeansOverlap
  BY DEF IInv
<1> QED BY <1>1, Invariance, PTL

\* ... which they do not when the chunks that were found are nested or disjoint.
NeverRaises == Comparable(chunks) => step # "raised"

\* So the layout never raises on what the finder returns with well-behaved handlers.
THEOREM NoRaise == Spec => []NeverRaises
<1>1. IInv => NeverRaises
  BY DEF IInv, NeverRaises
<1> QED BY <1>1, Invariance, PTL
=============================================================================
