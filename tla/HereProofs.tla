----------------------------- MODULE HereProofs -----------------------------
(***************************************************************************)
(* What HereSpec promises, for every content, every set of workers and     *)
(* every number of runs.  ProcessingProofs carries it over to Spec.        *)
(***************************************************************************)
EXTENDS ProcessingInv, FiniteSetTheorems, TLAPS

-----------------------------------------------------------------------------
(* Names and paths                                                         *)

\* A suffix makes another name, and never the same one of two.
LEMMA SuffixedFacts ==
  ASSUME NEW m \in Names
  PROVE  /\ Suffixed(m) \in Names /\ Suffixed(m) # m /\ Suffixed(m).ext # 0
         /\ \A n \in Names : Suffixed(m) = Suffixed(n) => m = n
<1>1. Suffixed(m) = [base |-> m.base, ext |-> m.ext + 1]
  BY DEF Suffixed, Names
<1>2. Suffixed(m) \in Names /\ Suffixed(m) # m /\ Suffixed(m).ext # 0
  BY <1>1 DEF Names
<1>3. ASSUME NEW n \in Names, Suffixed(m) = Suffixed(n) PROVE m = n
  <2>1. Suffixed(n) = [base |-> n.base, ext |-> n.ext + 1]
    BY DEF Suffixed, Names
  <2>2. m.base = n.base /\ m.ext = n.ext
    BY <1>1, <1>3, <2>1 DEF Names
  <2> QED BY <2>2 DEF Names
<1> QED BY <1>2, <1>3

\* Under compares name by name.
LEMMA UnderNames ==
  ASSUME NEW p \in Paths, NEW d \in Paths
  PROVE  Under(p, d) <=> Len(d) <= Len(p) /\ \A i \in 1..Len(d) : p[i] = d[i]
<1> USE DEF Paths
<1>1. ASSUME Len(d) <= Len(p), SubSeq(d, 1, Len(d)) = SubSeq(p, 1, Len(d)), NEW i \in 1..Len(d)
      PROVE  p[i] = d[i]
  <2>1. SubSeq(d, 1, Len(d))[i] = d[i] /\ SubSeq(p, 1, Len(d))[i] = p[i]
    BY <1>1
  <2> QED BY <1>1, <2>1
<1>2. ASSUME Len(d) <= Len(p), \A i \in 1..Len(d) : p[i] = d[i]
      PROVE  SubSeq(d, 1, Len(d)) = SubSeq(p, 1, Len(d))
  <2>1. SubSeq(d, 1, Len(d)) = [i \in 1..Len(d) |-> d[i]] /\ SubSeq(p, 1, Len(d)) = [i \in 1..Len(d) |-> p[i]]
    BY <1>2
  <2> QED BY <1>2, <2>1
<1> QED BY <1>1, <1>2 DEF Under, IsPrefix

LEMMA UnderOrder ==
  /\ \A p \in Paths : Under(p, p)
  /\ \A p, q, d \in Paths : Under(p, q) /\ Under(q, d) => Under(p, d)
  /\ \A p, q \in Paths : Under(p, q) /\ Under(q, p) => p = q
  /\ \A p, q, d \in Paths : Under(d, p) /\ Under(d, q) => Under(p, q) \/ Under(q, p)
<1>1. \A p \in Paths : Under(p, p)
  BY UnderNames DEF Paths
<1>2. ASSUME NEW p \in Paths, NEW q \in Paths, NEW d \in Paths, Under(p, q), Under(q, d)
      PROVE  Under(p, d)
  <2>1. Len(d) <= Len(q) /\ Len(q) <= Len(p)
    BY <1>2, UnderNames
  <2>2. \A i \in 1..Len(d) : p[i] = q[i] /\ q[i] = d[i]
    BY <1>2, <2>1, UnderNames DEF Paths
  <2> QED BY <2>1, <2>2, UnderNames DEF Paths
<1>3. ASSUME NEW p \in Paths, NEW q \in Paths, Under(p, q), Under(q, p)
      PROVE  p = q
  <2>1. Len(p) = Len(q) /\ \A i \in 1..Len(q) : p[i] = q[i]
    BY <1>3, UnderNames DEF Paths
  <2> QED BY <2>1 DEF Paths
<1>4. ASSUME NEW p \in Paths, NEW q \in Paths, NEW d \in Paths, Under(d, p), Under(d, q)
      PROVE  Under(p, q) \/ Under(q, p)
  <2>1. /\ \A i \in 1..Len(p) : d[i] = p[i]
        /\ \A i \in 1..Len(q) : d[i] = q[i]
    BY <1>4, UnderNames
  <2>2. Len(p) \in Nat /\ Len(q) \in Nat
    BY DEF Paths
  <2>3. CASE Len(p) <= Len(q)
    BY <2>1, <2>2, <2>3, UnderNames
  <2>4. CASE Len(q) <= Len(p)
    BY <2>1, <2>2, <2>4, UnderNames
  <2> QED BY <2>2, <2>3, <2>4
<1> QED BY <1>1, <1>2, <1>3, <1>4

LEMMA BesideNames ==
  ASSUME NEW p \in Paths, NEW n \in Nat \ {0}, n = Len(p)
  PROVE  /\ p \in [1..n -> Names]
         /\ Beside(p) = [i \in 1..n |-> IF i = n THEN Suffixed(p[n]) ELSE p[i]]
         /\ Beside(p) \in Paths /\ Len(Beside(p)) = n
<1>1. p \in [1..n -> Names]
  BY DEF Paths
<1>2. Beside(p) = [p EXCEPT ![n] = Suffixed(p[n])]
  BY DEF Beside
<1>3. Suffixed(p[n]) \in Names
  BY <1>1, SuffixedFacts
<1>4. Beside(p) = [i \in 1..n |-> IF i = n THEN Suffixed(p[n]) ELSE p[i]]
  BY <1>1, <1>2
<1>5. Beside(p) \in Paths /\ Len(Beside(p)) = n
  BY <1>1, <1>3, <1>4 DEF Paths
<1> QED BY <1>1, <1>4, <1>5

\* The extraction directory of a path stands beside it.
LEMMA BesideFacts ==
  ASSUME NEW p \in Paths
  PROVE  /\ Beside(p) \in Paths /\ Beside(p) # p /\ Len(Beside(p)) = Len(p)
         /\ Last(Beside(p)).ext # 0
         /\ \A d \in Paths : ~ (Under(d, p) /\ Under(d, Beside(p)))
         /\ \A d \in Paths : Under(Beside(p), d) /\ d # Beside(p) => Under(p, d) /\ d # p
         /\ \A q \in Paths : Beside(p) = Beside(q) => p = q
<1>1. PICK n \in Nat \ {0} : n = Len(p)
  BY DEF Paths
<1>2. /\ p \in [1..n -> Names] /\ Beside(p) \in Paths /\ Len(Beside(p)) = n
      /\ Beside(p)[n] = Suffixed(p[n])
      /\ \A i \in 1..n : i # n => Beside(p)[i] = p[i]
  BY <1>1, BesideNames
<1>3. Beside(p)[n] # p[n] /\ Beside(p)[n].ext # 0
  BY <1>2, SuffixedFacts
<1>4. ASSUME NEW d \in Paths, Under(d, p), Under(d, Beside(p)) PROVE FALSE
  <2>1. d[n] = p[n] /\ d[n] = Beside(p)[n]
    BY <1>1, <1>2, <1>4, UnderNames
  <2> QED BY <1>3, <2>1
<1>5. ASSUME NEW d \in Paths, Under(Beside(p), d), d # Beside(p) PROVE Under(p, d) /\ d # p
  <2>1. Len(d) <= n /\ \A i \in 1..Len(d) : Beside(p)[i] = d[i]
    BY <1>2, <1>5, UnderNames
  <2>2. Len(d) # n
    BY <1>2, <1>5, <2>1 DEF Paths
  <2>3. \A i \in 1..Len(d) : p[i] = d[i]
    BY <1>1, <1>2, <2>1, <2>2 DEF Paths
  <2> QED BY <1>1, <2>1, <2>2, <2>3, UnderNames
<1>6. ASSUME NEW q \in Paths, Beside(p) = Beside(q) PROVE p = q
  <2>1. PICK k \in Nat \ {0} : k = Len(q)
    BY DEF Paths
  <2>2. k = n
    BY <1>2, <1>6, <2>1, BesideNames
  <2>3. /\ q \in [1..n -> Names] /\ Beside(q)[n] = Suffixed(q[n])
        /\ \A i \in 1..n : i # n => Beside(q)[i] = q[i]
    <3>1. n = Len(q)
      BY <2>1, <2>2
    <3> QED BY <3>1, BesideNames
  <2>4. q[n] = p[n]
    <3>1. q[n] \in Names /\ p[n] \in Names /\ Suffixed(p[n]) = Suffixed(q[n])
      BY <1>2, <1>6, <2>3
    <3> QED BY <3>1, SuffixedFacts
  <2>5. \A i \in 1..n : q[i] = p[i]
    BY <1>2, <1>6, <2>3, <2>4
  <2> QED BY <1>2, <2>3, <2>5
<1>7. Last(Beside(p)) = Beside(p)[n]
  BY <1>2 DEF Last
<1>8. Beside(p) # p
  BY <1>3
<1> QED BY <1>1, <1>2, <1>3, <1>4, <1>5, <1>6, <1>7, <1>8

\* An entry of a directory.
LEMMA AppendFacts ==
  ASSUME NEW d \in Paths, NEW m \in Names
  PROVE  /\ Append(d, m) \in Paths /\ Child(Append(d, m), d)
         /\ Last(Append(d, m)) = m
         /\ \A k \in Names : Append(d, m) = Append(d, k) => m = k
<1>1. Append(d, m) \in Paths /\ Len(Append(d, m)) = Len(d) + 1
  BY DEF Paths
<1>2. Under(Append(d, m), d)
  <2>1. \A i \in 1..Len(d) : Append(d, m)[i] = d[i]
    BY DEF Paths
  <2>2. Len(d) <= Len(Append(d, m))
    BY <1>1 DEF Paths
  <2> QED BY <1>1, <2>1, <2>2, UnderNames
<1>3. Append(d, m)[Len(d) + 1] = m
  BY DEF Paths
<1>4. ASSUME NEW k \in Names, Append(d, m) = Append(d, k) PROVE m = k
  BY <1>4 DEF Paths
<1>5. Last(Append(d, m)) = m
  BY <1>1, <1>3 DEF Last, Paths
<1>6. Child(Append(d, m), d)
  BY <1>1, <1>2 DEF Child
<1> QED BY <1>1, <1>4, <1>5, <1>6

LEMMA ChildFacts ==
  ASSUME NEW p \in Paths, NEW d \in Paths, Child(p, d)
  PROVE  /\ Under(p, d) /\ p # d /\ ~ Under(d, p)
         /\ \A q \in Paths : Child(q, d) /\ Under(p, q) => p = q
         /\ \A x \in Paths : Under(p, x) /\ x # p => Under(d, x)
<1>1. Len(p) = Len(d) + 1 /\ Under(p, d) /\ Len(p) \in Nat /\ Len(d) \in Nat
  BY DEF Child, Paths
<1>2. p # d /\ ~ Under(d, p)
  BY <1>1, UnderNames
<1>3. ASSUME NEW q \in Paths, Child(q, d), Under(p, q) PROVE p = q
  <2>1. Len(q) = Len(p) /\ \A i \in 1..Len(q) : p[i] = q[i]
    BY <1>1, <1>3, UnderNames DEF Child
  <2> QED BY <2>1 DEF Paths
<1>4. ASSUME NEW x \in Paths, Under(p, x), x # p PROVE Under(d, x)
  <2>1. Len(x) <= Len(p) /\ \A i \in 1..Len(x) : p[i] = x[i]
    BY <1>4, UnderNames
  <2>2. Len(x) # Len(p)
    BY <1>4, <2>1 DEF Paths
  <2>3. \A i \in 1..Len(d) : p[i] = d[i]
    BY <1>1, UnderNames
  <2>4. Len(x) <= Len(d) /\ \A i \in 1..Len(x) : d[i] = x[i]
    BY <1>1, <2>1, <2>2, <2>3 DEF Paths
  <2> QED BY <2>4, UnderNames
<1> QED BY <1>1, <1>2, <1>3, <1>4

\* Between a directory and what is strictly under it, there is an entry of the directory.
LEMMA EntryBetween ==
  ASSUME NEW p \in Paths, NEW d \in Paths, Under(p, d), p # d
  PROVE  \E q \in Paths : Child(q, d) /\ Under(p, q)
<1> DEFINE n == Len(d)  m == Len(p)
<1>1. n \in Nat \ {0} /\ m \in Nat \ {0} /\ n <= m /\ \A i \in 1..n : p[i] = d[i]
  BY UnderNames DEF Paths
<1>2. n # m
  BY <1>1 DEF Paths
<1> DEFINE q == [i \in 1..(n + 1) |-> p[i]]
<1>3. q \in Paths /\ Len(q) = n + 1
  BY <1>1, <1>2 DEF Paths
<1>4. Under(p, q) /\ Under(q, d)
  BY <1>1, <1>2, <1>3, UnderNames
<1> QED BY <1>3, <1>4 DEF Child

LEMMA ConcatNames ==
  ASSUME NEW d \in Paths, NEW r \in Paths, NEW n \in Nat \ {0}, n = Len(d), NEW m \in Nat \ {0}, m = Len(r)
  PROVE  /\ d \o r \in Paths /\ Len(d \o r) = n + m
         /\ \A i \in 1..n : (d \o r)[i] = d[i]
         /\ \A i \in 1..m : (d \o r)[n + i] = r[i]
<1>1. d \o r \in Seq(Names) /\ Len(d \o r) = n + m /\ d \o r # <<>>
  BY DEF Paths
<1>2. /\ \A i \in 1..n : (d \o r)[i] = d[i]
      /\ \A i \in 1..m : (d \o r)[n + i] = r[i]
  BY DEF Paths
<1> QED BY <1>1, <1>2 DEF Paths

LEMMA ConcatTail ==
  ASSUME NEW d \in Paths, NEW r \in Paths
  PROVE  SubSeq(d \o r, Len(d) + 1, Len(d \o r)) = r
<1> DEFINE n == Len(d)  m == Len(r)
<1>1. n \in Nat \ {0} /\ m \in Nat \ {0}
  BY DEF Paths
<1>2. d \o r \in Seq(Names) /\ Len(d \o r) = n + m /\ \A i \in 1..m : (d \o r)[n + i] = r[i]
  BY <1>1 DEF Paths
<1>3. r = [i \in 1..m |-> r[i]]
  BY DEF Paths
<1> HIDE DEF n, m
<1>4. SubSeq(d \o r, n + 1, n + m) = [i \in 1..m |-> (d \o r)[n + i]]
  <2>1. n + 1 \in 1..(Len(d \o r) + 1) /\ n + m \in 0..Len(d \o r)
    BY <1>1, <1>2
  <2> QED BY <1>1, <1>2, <2>1
<1>5. SubSeq(d \o r, n + 1, n + m) = r
  BY <1>2, <1>3, <1>4
<1> QED BY <1>2, <1>5 DEF n

LEMMA SamePath ==
  ASSUME NEW p \in Paths, NEW x \in Paths, Len(p) = Len(x), \A i \in 1..Len(x) : p[i] = x[i]
  PROVE  p = x
BY DEF Paths

Joined(p, d, r) ==
  /\ Len(p) = Len(d) + Len(r)
  /\ \A i \in 1..Len(d) : p[i] = d[i]
  /\ \A i \in 1..Len(r) : p[Len(d) + i] = r[i]

LEMMA ConcatIs ==
  ASSUME NEW d \in Paths, NEW r \in Paths
  PROVE  /\ d \o r \in Paths /\ Joined(d \o r, d, r)
         /\ \A x \in Paths : Joined(x, d, r) => x = d \o r
<1> DEFINE y == d \o r
<1>1. PICK n \in Nat \ {0} : n = Len(d)
  BY DEF Paths
<1>2. PICK m \in Nat \ {0} : m = Len(r)
  BY DEF Paths
<1>3. /\ y \in Paths /\ Len(y) = n + m
      /\ \A i \in 1..n : y[i] = d[i]
      /\ \A i \in 1..m : y[n + i] = r[i]
  BY <1>1, <1>2, ConcatNames
<1> HIDE DEF y
<1>4. ASSUME NEW x \in Paths, Joined(x, d, r) PROVE x = y
  <2>1. Len(x) = n + m /\ \A i \in 1..n : x[i] = d[i]
    BY <1>1, <1>2, <1>4 DEF Joined
  <2>2. \A i \in 1..m : x[n + i] = r[i]
    BY <1>1, <1>2, <1>4 DEF Joined
  <2>3. ASSUME NEW i \in 1..(n + m) PROVE x[i] = y[i]
    <3>1. CASE i <= n
      BY <1>3, <2>1, <3>1
    <3>2. CASE i > n
      <4>1. PICK j \in 1..m : i = n + j
        BY <3>2
      <4> QED BY <1>3, <2>2, <4>1
    <3> QED BY <3>1, <3>2
  <2> QED BY <1>3, <2>1, <2>3, SamePath
<1>5. Joined(y, d, r)
  BY <1>1, <1>2, <1>3 DEF Joined
<1> QED BY <1>3, <1>4, <1>5 DEF y

LEMMA ConcatPrefix ==
  ASSUME NEW d \in Paths, NEW r \in Paths, NEW p \in Paths, Joined(p, d, r),
         NEW x \in Paths, Under(p, x), x # p, ~ Under(d, x)
  PROVE  \E k \in 1..(Len(r) - 1) : SubSeq(r, 1, k) \in Paths /\ Joined(x, d, SubSeq(r, 1, k))
<1>1. PICK n \in Nat \ {0} : n = Len(d)
  BY DEF Paths
<1>2. PICK m \in Nat \ {0} : m = Len(r)
  BY DEF Paths
<1>3. PICK l \in Nat \ {0} : l = Len(x)
  BY DEF Paths
<1>4. Len(p) = n + m /\ \A i \in 1..n : p[i] = d[i]
  BY <1>1, <1>2 DEF Joined
<1>5. \A i \in 1..m : p[n + i] = r[i]
  BY <1>1, <1>2 DEF Joined
<1>6. l <= n + m /\ \A i \in 1..l : p[i] = x[i]
  BY <1>3, <1>4, UnderNames
<1>7. l # n + m
  BY <1>3, <1>4, <1>6, SamePath
<1>8. l > n
  BY <1>1, <1>3, <1>4, <1>6, UnderNames
<1> DEFINE k == l - n
<1>9. k \in 1..(m - 1) /\ l = n + k
  BY <1>6, <1>7, <1>8
<1>10. \A i \in 1..n : x[i] = d[i]
  BY <1>4, <1>6, <1>8
<1> HIDE DEF k
<1>11. \A i \in 1..k : x[n + i] = r[i]
  <2> SUFFICES ASSUME NEW i \in 1..k PROVE x[n + i] = r[i]
    OBVIOUS
  <2>1. n + i \in 1..l /\ i \in 1..m
    BY <1>9
  <2> QED BY <1>5, <1>6, <2>1
<1> DEFINE s == SubSeq(r, 1, k)
<1>12. s \in Paths /\ Len(s) = k /\ \A i \in 1..k : s[i] = r[i]
  <2>1. k \in Nat \ {0} /\ k <= m
    BY <1>9
  <2>2. s \in Seq(Names) /\ Len(s) = k /\ \A i \in 1..k : s[i] = r[i]
    BY <1>2, <2>1 DEF Paths
  <2> QED BY <2>1, <2>2 DEF Paths
<1> HIDE DEF s
<1>13. Joined(x, d, s)
  <2>1. Len(x) = Len(d) + Len(s)
    BY <1>1, <1>3, <1>9, <1>12
  <2>2. \A i \in 1..Len(s) : x[Len(d) + i] = s[i]
    BY <1>1, <1>11, <1>12
  <2> QED BY <1>1, <1>10, <2>1, <2>2 DEF Joined
<1> QED BY <1>2, <1>9, <1>12, <1>13 DEF s

\* A path of a tree, put into a directory.
LEMMA ConcatFacts ==
  ASSUME NEW d \in Paths, NEW r \in Paths
  PROVE  /\ d \o r \in Paths /\ Under(d \o r, d) /\ d \o r # d
         /\ Len(d \o r) > 1 /\ Last(d \o r) = Last(r)
         /\ \A x \in Paths : Under(d \o r, x) /\ x # d \o r =>
              Under(d, x) \/ \E k \in 1..(Len(r) - 1) : SubSeq(r, 1, k) \in Paths /\ x = d \o SubSeq(r, 1, k)
<1> DEFINE y == d \o r
<1>1. PICK n \in Nat \ {0} : n = Len(d)
  BY DEF Paths
<1>2. PICK m \in Nat \ {0} : m = Len(r)
  BY DEF Paths
<1>3. y \in Paths /\ Joined(y, d, r)
  BY ConcatIs
<1> HIDE DEF y
<1>4. Under(y, d) /\ y # d /\ Len(y) > 1
  BY <1>1, <1>2, <1>3, UnderNames DEF Joined
<1>5. Last(y) = Last(r)
  <2>1. Len(y) = n + m /\ y[n + m] = r[m]
    BY <1>1, <1>2, <1>3 DEF Joined
  <2> QED BY <1>2, <2>1 DEF Last
<1>6. ASSUME NEW x \in Paths, Under(y, x), x # y, ~ Under(d, x)
      PROVE  \E k \in 1..(Len(r) - 1) : SubSeq(r, 1, k) \in Paths /\ x = d \o SubSeq(r, 1, k)
  <2>1. PICK k \in 1..(Len(r) - 1) : SubSeq(r, 1, k) \in Paths /\ Joined(x, d, SubSeq(r, 1, k))
    BY <1>3, <1>6, ConcatPrefix
  <2>2. x = d \o SubSeq(r, 1, k)
    BY <2>1, ConcatIs, Zenon
  <2> QED BY <2>1, <2>2
<1> QED BY <1>3, <1>4, <1>5, <1>6 DEF y

-----------------------------------------------------------------------------
(* File systems                                                            *)

LEMMA RoomInDir ==
  ASSUME NEW f, FsOK(f), NEW d \in DOMAIN f, f[d] = "dir", NEW p \in Paths, Child(p, d)
  PROVE  Room(f, p)
<1>1. d \in Paths
  BY DEF FsOK, FileTree
<1>2. ASSUME NEW x \in Paths, Under(p, x), x # p PROVE x \in DOMAIN f /\ f[x] = "dir"
  <2>1. Under(d, x)
    BY <1>1, <1>2, ChildFacts
  <2> QED BY <1>2, <2>1 DEF FsOK, Closed
<1> QED BY <1>2 DEF Room

LEMMA RoomBeside ==
  ASSUME NEW f, FsOK(f), NEW p \in DOMAIN f
  PROVE  Room(f, Beside(p))
<1>1. p \in Paths
  BY DEF FsOK, FileTree
<1> QED BY <1>1, BesideFacts DEF FsOK, Closed, Room

LEMMA WithFacts ==
  ASSUME NEW f, FsOK(f), NEW S, IsFiniteSet(S), S \subseteq Paths, NEW n \in Nodes,
         \A p \in S : p \notin DOMAIN f /\ Room(f, p)
  PROVE  /\ FsOK(With(f, S, n)) /\ DOMAIN With(f, S, n) = DOMAIN f \cup S
         /\ \A p \in DOMAIN f : With(f, S, n)[p] = f[p]
         /\ \A p \in S : With(f, S, n)[p] = n
<1> DEFINE g == With(f, S, n)
<1>1. /\ DOMAIN g = DOMAIN f \cup S
      /\ \A p \in DOMAIN f : g[p] = f[p]
      /\ \A p \in S : g[p] = n
  BY DEF With
<1>2. IsFiniteSet(DOMAIN g)
  BY <1>1, FS_Union DEF FsOK, FileTree
<1>3. g \in [DOMAIN g -> Nodes]
  BY DEF With, FsOK, FileTree
<1> HIDE DEF g
<1>4. Closed(g)
  BY <1>1 DEF FsOK, Closed, Room, FileTree
<1>5. FileTree(g)
  BY <1>1, <1>2, <1>3 DEF FsOK, FileTree
<1> QED BY <1>1, <1>4, <1>5 DEF g, FsOK

LEMMA WithoutFacts ==
  ASSUME NEW f, FsOK(f), NEW S, \A d \in S : \A p \in DOMAIN f \ S : ~ Under(p, d)
  PROVE  /\ FsOK(Without(f, S)) /\ DOMAIN Without(f, S) = DOMAIN f \ S
         /\ \A p \in DOMAIN f \ S : Without(f, S)[p] = f[p]
<1> DEFINE g == Without(f, S)
<1>1. /\ DOMAIN g = DOMAIN f \ S
      /\ \A p \in DOMAIN f \ S : g[p] = f[p]
  BY DEF Without
<1>2. IsFiniteSet(DOMAIN g)
  BY <1>1, FS_Subset DEF FsOK, FileTree
<1>3. g \in [DOMAIN g -> Nodes]
  BY DEF Without, FsOK, FileTree
<1> HIDE DEF g
<1>4. Closed(g)
  BY <1>1 DEF FsOK, Closed, FileTree
<1>5. FileTree(g)
  BY <1>1, <1>2, <1>3 DEF FsOK, FileTree
<1> QED BY <1>1, <1>4, <1>5 DEF g, FsOK

LEMMA WithTreeFacts ==
  ASSUME NEW f, FsOK(f), NEW d \in DOMAIN f, f[d] = "dir", Bare(f, d), NEW tree, TreeOK(tree)
  PROVE  LET g == WithTree(f, d, tree) IN
         /\ FsOK(g)
         /\ DOMAIN g = DOMAIN f \cup {d \o r : r \in DOMAIN tree}
         /\ \A p \in DOMAIN f : g[p] = f[p]
         /\ \A r \in DOMAIN tree : g[d \o r] = tree[r] /\ d \o r \notin DOMAIN f
<1> DEFINE new == {d \o r : r \in DOMAIN tree}
           g == WithTree(f, d, tree)
<1>1. d \in Paths /\ DOMAIN tree \subseteq Paths
  BY DEF FsOK, FileTree, TreeOK
<1>2. g = [p \in DOMAIN f \cup new |-> IF p \in new THEN tree[SubSeq(p, Len(d) + 1, Len(p))] ELSE f[p]]
  BY DEF WithTree
<1>3. \A r \in DOMAIN tree : /\ d \o r \in Paths /\ Under(d \o r, d) /\ d \o r # d
                             /\ SubSeq(d \o r, Len(d) + 1, Len(d \o r)) = r
  BY <1>1, ConcatFacts, ConcatTail
<1>4. \A p \in new : p \notin DOMAIN f /\ p \in Paths
  BY <1>3 DEF Bare
<1>5. DOMAIN g = DOMAIN f \cup new /\ \A p \in DOMAIN f : g[p] = f[p]
  BY <1>2, <1>4
<1>6. \A r \in DOMAIN tree : g[d \o r] = tree[r] /\ d \o r \notin DOMAIN f
  <2> SUFFICES ASSUME NEW r \in DOMAIN tree PROVE g[d \o r] = tree[r] /\ d \o r \notin DOMAIN f
    OBVIOUS
  <2>1. d \o r \in new
    OBVIOUS
  <2> HIDE DEF new, g
  <2>2. g[d \o r] = tree[SubSeq(d \o r, Len(d) + 1, Len(d \o r))]
    BY <1>2, <2>1
  <2> QED BY <1>3, <1>4, <2>1, <2>2
<1>7. IsFiniteSet(new)
  <2>1. IsFiniteSet(DOMAIN tree)
    BY DEF TreeOK
  <2>2. [r \in DOMAIN tree |-> d \o r] \in Surjection(DOMAIN tree, new)
    BY DEF Surjection
  <2> QED BY <2>1, <2>2, FS_Surjection
<1>8. \A p \in new : \E r \in DOMAIN tree : p = d \o r /\ g[p] = tree[r]
  BY <1>6
<1> HIDE DEF g
<1>9. IsFiniteSet(DOMAIN g)
  <2> HIDE DEF new
  <2> QED BY <1>5, <1>7, FS_Union DEF FsOK, FileTree
<1>10. \A p \in DOMAIN g : g[p] \in Nodes
  <2>1. \A r \in DOMAIN tree : tree[r] \in Nodes
    BY DEF TreeOK
  <2> QED BY <1>5, <1>8, <2>1 DEF FsOK, FileTree
<1>11. FileTree(g)
  <2>1. g = [p \in DOMAIN g |-> g[p]]
    BY <1>2
  <2> HIDE DEF new
  <2> QED BY <1>4, <1>5, <1>9, <1>10, <2>1 DEF FsOK, FileTree
<1>12. ASSUME NEW r \in DOMAIN tree, NEW x \in Paths, Under(d \o r, x), x # d \o r
       PROVE  x \in DOMAIN g /\ g[x] = "dir"
  <2>1. CASE Under(d, x)
    <3>1. x \in DOMAIN f /\ f[x] = "dir"
      BY <1>1, <2>1 DEF FsOK, Closed
    <3> HIDE DEF new
    <3> QED BY <1>5, <3>1
  <2>2. CASE ~ Under(d, x)
    <3>1. PICK k \in 1..(Len(r) - 1) : SubSeq(r, 1, k) \in Paths /\ x = d \o SubSeq(r, 1, k)
      <4>1. r \in Paths
        BY <1>1
      <4>2. \A y \in Paths : Under(d \o r, y) /\ y # d \o r =>
              Under(d, y) \/ \E k \in 1..(Len(r) - 1) : SubSeq(r, 1, k) \in Paths /\ y = d \o SubSeq(r, 1, k)
        BY <1>1, <4>1, ConcatFacts, Zenon
      <4> QED BY <1>12, <2>2, <4>2, Zenon
    <3>2. SubSeq(r, 1, k) \in DOMAIN tree /\ tree[SubSeq(r, 1, k)] = "dir"
      BY DEF TreeOK
    <3>3. x \in new /\ g[x] = "dir"
      BY <1>6, <3>1, <3>2
    <3> HIDE DEF new
    <3> QED BY <1>5, <3>3
  <2> QED BY <2>1, <2>2
<1>13. Closed(g)
  <2> SUFFICES ASSUME NEW p \in DOMAIN g, NEW x \in Paths, Under(p, x), x # p
               PROVE  x \in DOMAIN g /\ g[x] = "dir"
    BY DEF Closed
  <2>1. CASE p \in DOMAIN f
    <3>1. x \in DOMAIN f /\ f[x] = "dir"
      BY <2>1 DEF FsOK, Closed
    <3> HIDE DEF new
    <3> QED BY <1>5, <3>1
  <2>2. CASE p \in new
    BY <1>12, <2>2
  <2> HIDE DEF new
  <2> QED BY <1>5, <2>1, <2>2
<1>14. FsOK(g)
  BY <1>11, <1>13 DEF FsOK
<1> QED BY <1>5, <1>6, <1>14 DEF g

-----------------------------------------------------------------------------
(* Where tasks are                                                         *)

\* New tasks, for paths that have none.
Fresh(new) ==
  /\ new \in Seq(Tasks)
  /\ \A j \in DOMAIN new : ~ Tasked(new[j].path)
  /\ \A i, j \in DOMAIN new : new[i].path = new[j].path => i = j
Of(new, p) == \E j \in DOMAIN new : p = new[j].path

\* What moving tasks about, and submitting new ones, keeps.
Moved(new) ==
  /\ Unique'
  /\ \A p : Tasked(p)' => Tasked(p) \/ Of(new, p)
  /\ \A p : Pending(p)' => Pending(p) \/ Of(new, p)
  /\ \A p : Done(p) => Done(p)'
  /\ \A p : Tasked(p) \/ Of(new, p) => Tasked(p)'

LEMMA ConcatCases ==
  ASSUME NEW s \in Seq(Tasks), NEW t \in Seq(Tasks)
  PROVE  /\ s \o t \in Seq(Tasks) /\ Len(s) \in Nat
         /\ \A i \in DOMAIN (s \o t) :
              \/ i \in DOMAIN s /\ (s \o t)[i] = s[i]
              \/ \E j \in DOMAIN t : i = Len(s) + j /\ (s \o t)[i] = t[j] /\ i \notin DOMAIN s
         /\ \A i \in DOMAIN s : i \in DOMAIN (s \o t) /\ (s \o t)[i] = s[i]
         /\ \A j \in DOMAIN t : Len(s) + j \in DOMAIN (s \o t) /\ (s \o t)[Len(s) + j] = t[j]
<1>1. PICK n \in Nat : n = Len(s)
  OBVIOUS
<1>2. PICK m \in Nat : m = Len(t)
  OBVIOUS
<1>3. /\ s \o t \in Seq(Tasks) /\ DOMAIN s = 1..n /\ DOMAIN t = 1..m /\ DOMAIN (s \o t) = 1..(n + m)
  BY <1>1, <1>2
<1>4. /\ \A i \in 1..n : (s \o t)[i] = s[i]
      /\ \A j \in 1..m : (s \o t)[n + j] = t[j]
  BY <1>1, <1>2
<1> DEFINE u == s \o t
<1> HIDE DEF u
<1>5. \A i \in 1..(n + m) : \/ i \in 1..n /\ u[i] = s[i]
                            \/ \E j \in 1..m : i = n + j /\ u[i] = t[j] /\ i \notin 1..n
  <2> SUFFICES ASSUME NEW i \in 1..(n + m), i \notin 1..n
               PROVE  \E j \in 1..m : i = n + j /\ u[i] = t[j]
    BY <1>4 DEF u
  <2>1. PICK j \in 1..m : i = n + j
    <3>1. i - n \in 1..m /\ i = n + (i - n)
      OBVIOUS
    <3> QED BY <3>1
  <2> QED BY <1>4, <2>1 DEF u
<1>6. /\ DOMAIN u = 1..(n + m) /\ DOMAIN s = 1..n /\ DOMAIN t = 1..m /\ u \in Seq(Tasks)
      /\ \A i \in 1..n : u[i] = s[i]
      /\ \A j \in 1..m : u[n + j] = t[j]
  BY <1>3, <1>4 DEF u
<1>7. \A i \in DOMAIN u : \/ i \in DOMAIN s /\ u[i] = s[i]
                         \/ \E j \in DOMAIN t : i = n + j /\ u[i] = t[j] /\ i \notin DOMAIN s
  BY <1>5, <1>6
<1>8. /\ \A i \in DOMAIN s : i \in DOMAIN u /\ u[i] = s[i]
      /\ \A j \in DOMAIN t : n + j \in DOMAIN u /\ u[n + j] = t[j]
  BY <1>6
<1> QED BY <1>1, <1>6, <1>7, <1>8 DEF u

\* A worker goes on with its task.
LEMMA ContinueMoves ==
  ASSUME TypeOK, Unique, NEW w \in Workers, work[w] # Idle, NEW job \in Jobs, job.task = work[w].task,
         NEW new, Fresh(new), job.subtasks = work[w].subtasks \o new,
         Continue(w, job), UNCHANGED <<queue, results>>
  PROVE  /\ Moved(new)
         /\ \A p : Sub(w, p)' <=> Sub(w, p) \/ Of(new, p)
         /\ \A v \in Workers : v # w => work'[v] = work[v] /\ \A p : Sub(v, p)' <=> Sub(v, p)
<1> DEFINE s == work[w].subtasks
           n == Len(s)
<1>1. work[w] \in Jobs /\ s \in Seq(Tasks) /\ job \in Jobs /\ job # Idle /\ new \in Seq(Tasks)
  BY IdleAssumption DEF TypeOK, Jobs, Fresh
<1>2. /\ work'[w] = job /\ outbox' = outbox /\ queue' = queue /\ results' = results
      /\ \A v \in Workers : v # w => work'[v] = work[v]
  BY DEF Continue, TypeOK
<1>3. /\ n \in Nat
      /\ \A i \in DOMAIN job.subtasks :
           \/ i \in DOMAIN s /\ job.subtasks[i] = s[i]
           \/ \E j \in DOMAIN new : i = n + j /\ job.subtasks[i] = new[j] /\ i \notin DOMAIN s
      /\ \A i \in DOMAIN s : i \in DOMAIN job.subtasks /\ job.subtasks[i] = s[i]
      /\ \A j \in DOMAIN new : n + j \in DOMAIN job.subtasks /\ job.subtasks[n + j] = new[j]
  <2> DEFINE u == s \o new
  <2>1. /\ n \in Nat
        /\ \A i \in DOMAIN u :
             \/ i \in DOMAIN s /\ u[i] = s[i]
             \/ \E j \in DOMAIN new : i = n + j /\ u[i] = new[j] /\ i \notin DOMAIN s
        /\ \A i \in DOMAIN s : i \in DOMAIN u /\ u[i] = s[i]
        /\ \A j \in DOMAIN new : n + j \in DOMAIN u /\ u[n + j] = new[j]
    <3> HIDE DEF s
    <3> QED BY <1>1, ConcatCases
  <2>2. job.subtasks = u
    OBVIOUS
  <2> HIDE DEF u, n
  <2> QED BY <2>1, <2>2
<1>4. ASSUME NEW k, NEW x, NEW i, NEW p, At(k, x, i, p)'
      PROVE  \/ At(k, x, i, p)
             \/ k = "sub" /\ x = w /\ \E j \in DOMAIN new : i = n + j /\ p = new[j].path
  <2>1. CASE k # "sub" \/ x # w
    BY <1>1, <1>2, <1>4, <2>1 DEF At
  <2>2. CASE k = "sub" /\ x = w
    BY <1>1, <1>2, <1>3, <1>4, <2>2 DEF At
  <2> QED BY <2>1, <2>2
<1>5. ASSUME NEW k, NEW x, NEW i, NEW p, At(k, x, i, p) PROVE At(k, x, i, p)'
  <2>1. CASE k # "sub" \/ x # w
    BY <1>1, <1>2, <1>5, <2>1 DEF At
  <2>2. CASE k = "sub" /\ x = w
    BY <1>1, <1>2, <1>3, <1>5, <2>2 DEF At
  <2> QED BY <2>1, <2>2
<1>6. ASSUME NEW p, Of(new, p) PROVE Sub(w, p)'
  <2>1. PICK j \in DOMAIN new : p = new[j].path
    BY <1>6 DEF Of
  <2>2. PICK i : i \in DOMAIN job.subtasks /\ job.subtasks[i].path = p
    BY <1>3, <2>1
  <2>3. At("sub", w, i, p)'
    BY <1>1, <1>2, <2>2 DEF At
  <2> QED BY <2>3 DEF Sub
<1> HIDE DEF s, n
<1>7. \A p : Of(new, p) => ~ Tasked(p)
  BY DEF Of, Fresh
<1>8. \A p, i, j : i \in DOMAIN new /\ j \in DOMAIN new /\ p = new[i].path /\ p = new[j].path => i = j
  BY DEF Fresh
<1>9. Unique'
  <2> SUFFICES ASSUME NEW k, NEW x, NEW i, NEW l, NEW y, NEW j, NEW p, At(k, x, i, p)', At(l, y, j, p)'
               PROVE  k = l /\ x = y /\ i = j
    BY DEF Unique
  <2>1. CASE Of(new, p)
    <3>1. ~ At(k, x, i, p) /\ ~ At(l, y, j, p)
      BY <1>7, <2>1 DEF Tasked
    <3> QED BY <1>4, <1>8, <3>1
  <2>2. CASE ~ Of(new, p)
    BY <1>4, <2>2 DEF Of, Unique
  <2> QED BY <2>1, <2>2
<1>10. Moved(new)
  <2>1. ASSUME NEW p PROVE Tasked(p)' => Tasked(p) \/ Of(new, p)
    BY <1>4 DEF Tasked, Of
  <2>2. ASSUME NEW p PROVE Pending(p)' => Pending(p) \/ Of(new, p)
    BY <1>4 DEF Pending, Of
  <2>3. ASSUME NEW p PROVE Done(p) => Done(p)'
    BY <1>5 DEF Done
  <2>4. ASSUME NEW p PROVE Tasked(p) => Tasked(p)'
    BY <1>5 DEF Tasked
  <2>5. ASSUME NEW p PROVE Of(new, p) => Tasked(p)'
    BY <1>6 DEF Sub, Tasked
  <2> QED BY <1>9, <2>1, <2>2, <2>3, <2>4, <2>5 DEF Moved
<1>11. \A p : Sub(w, p)' <=> Sub(w, p) \/ Of(new, p)
  BY <1>4, <1>5, <1>6 DEF Sub, Of
<1>12. ASSUME NEW v \in Workers, v # w PROVE \A p : Sub(v, p)' <=> Sub(v, p)
  BY <1>4, <1>5, <1>12 DEF Sub
<1> QED BY <1>2, <1>10, <1>11, <1>12

LEMMA AppendCases ==
  ASSUME NEW T, NEW s \in Seq(T), NEW e \in T
  PROVE  /\ Append(s, e) \in Seq(T) /\ Len(s) + 1 \notin DOMAIN s
         /\ DOMAIN Append(s, e) = DOMAIN s \cup {Len(s) + 1}
         /\ Append(s, e)[Len(s) + 1] = e
         /\ \A i \in DOMAIN s : Append(s, e)[i] = s[i]
OBVIOUS

LEMMA TailCases ==
  ASSUME NEW T, NEW s \in Seq(T), s # <<>>
  PROVE  /\ Tail(s) \in Seq(T) /\ Head(s) \in T /\ 1 \in DOMAIN s /\ Head(s) = s[1]
         /\ \A i \in DOMAIN Tail(s) : i \in Nat \ {0} /\ i + 1 \in DOMAIN s /\ Tail(s)[i] = s[i + 1]
         /\ \A i \in DOMAIN s : i = 1 \/ \E j \in DOMAIN Tail(s) : i = j + 1
<1>1. PICK n \in Nat \ {0} : n = Len(s)
  OBVIOUS
<1>2. DOMAIN s = 1..n /\ DOMAIN Tail(s) = 1..(n - 1) /\ Tail(s) \in Seq(T)
  BY <1>1
<1>3. \A i \in 1..(n - 1) : Tail(s)[i] = s[i + 1]
  BY <1>1
<1>4. ASSUME NEW i \in 1..n, i # 1 PROVE \E j \in 1..(n - 1) : i = j + 1
  <2>1. i - 1 \in 1..(n - 1) /\ i = (i - 1) + 1
    BY <1>4
  <2> QED BY <2>1
<1>5. Head(s) = s[1] /\ Head(s) \in T
  BY <1>1
<1> DEFINE t == Tail(s)
<1> HIDE DEF t
<1>6. \A i \in DOMAIN t : i \in Nat \ {0} /\ i + 1 \in DOMAIN s /\ t[i] = s[i + 1]
  BY <1>2, <1>3 DEF t
<1>7. \A i \in DOMAIN s : i = 1 \/ \E j \in DOMAIN t : i = j + 1
  BY <1>2, <1>4 DEF t
<1> QED BY <1>1, <1>2, <1>5, <1>6, <1>7 DEF t

ResultOfJob(job) ==
  [task |-> job.task, content |-> job.content, subtasks |-> job.subtasks, reports |-> job.reports]

LEMMA ReturnFacts ==
  ASSUME TypeOK, NEW w \in Workers, NEW job, ResultOfJob(job) \in TaskResults, Return(w, job)
  PROVE  \E n : /\ n \notin DOMAIN outbox
                /\ DOMAIN outbox' = DOMAIN outbox \cup {n}
                /\ outbox'[n] = ResultOfJob(job)
                /\ \A j \in DOMAIN outbox : outbox'[j] = outbox[j]
                /\ outbox' \in Seq(TaskResults)
                /\ work' \in [Workers -> Jobs \cup {Idle}]
                /\ work'[w] = Idle
                /\ \A v \in Workers : v # w => work'[v] = work[v]
<1>1. outbox' = Append(outbox, ResultOfJob(job)) /\ work' = [work EXCEPT ![w] = Idle]
  BY DEF Return, ResultOfJob
<1>2. outbox \in Seq(TaskResults) /\ work \in [Workers -> Jobs \cup {Idle}]
  BY DEF TypeOK
<1> DEFINE n == Len(outbox) + 1
           r == ResultOfJob(job)
<1>3. r \in TaskResults
  OBVIOUS
<1> HIDE DEF r
<1>4. /\ n \notin DOMAIN outbox
      /\ DOMAIN outbox' = DOMAIN outbox \cup {n}
      /\ outbox'[n] = r
      /\ \A j \in DOMAIN outbox : outbox'[j] = outbox[j]
      /\ outbox' \in Seq(TaskResults)
  <2>1. outbox' = Append(outbox, r)
    BY <1>1 DEF r
  <2> QED BY <1>2, <1>3, <2>1, AppendCases
<1>5. /\ work' \in [Workers -> Jobs \cup {Idle}] /\ work'[w] = Idle
      /\ \A v \in Workers : v # w => work'[v] = work[v]
  BY <1>1, <1>2
<1> HIDE DEF n
<1> QED BY <1>4, <1>5 DEF r

\* A worker returns its result.
LEMMA ReturnMoves ==
  ASSUME TypeOK, Unique, NEW w \in Workers, work[w] # Idle, NEW job,
         ResultOfJob(job) \in TaskResults, job.task = work[w].task,
         NEW new, Fresh(new), job.subtasks = work[w].subtasks \o new,
         Return(w, job), UNCHANGED <<queue, results>>
  PROVE  /\ Moved(new) /\ \A p : p = work[w].task.path => Done(p)'
         /\ work'[w] = Idle
         /\ \A v \in Workers : v # w => work'[v] = work[v] /\ \A p : Sub(v, p)' <=> Sub(v, p)
<1> DEFINE s == work[w].subtasks
           m == Len(s)
<1>1. work[w] \in Jobs /\ s \in Seq(Tasks) /\ new \in Seq(Tasks)
  BY DEF TypeOK, Jobs, Fresh
<1>2. PICK n : /\ n \notin DOMAIN outbox
               /\ DOMAIN outbox' = DOMAIN outbox \cup {n}
               /\ outbox'[n] = ResultOfJob(job)
               /\ \A j \in DOMAIN outbox : outbox'[j] = outbox[j]
               /\ work'[w] = Idle
               /\ \A v \in Workers : v # w => work'[v] = work[v]
  BY ReturnFacts
<1>3. /\ \A i \in DOMAIN job.subtasks :
           \/ i \in DOMAIN s /\ job.subtasks[i] = s[i]
           \/ \E j \in DOMAIN new : i = m + j /\ job.subtasks[i] = new[j] /\ i \notin DOMAIN s
      /\ \A i \in DOMAIN s : i \in DOMAIN job.subtasks /\ job.subtasks[i] = s[i]
      /\ \A j \in DOMAIN new : m + j \in DOMAIN job.subtasks /\ job.subtasks[m + j] = new[j]
  <2> DEFINE u == s \o new
  <2>1. /\ \A i \in DOMAIN u :
             \/ i \in DOMAIN s /\ u[i] = s[i]
             \/ \E j \in DOMAIN new : i = m + j /\ u[i] = new[j] /\ i \notin DOMAIN s
        /\ \A i \in DOMAIN s : i \in DOMAIN u /\ u[i] = s[i]
        /\ \A j \in DOMAIN new : m + j \in DOMAIN u /\ u[m + j] = new[j]
    <3> HIDE DEF s
    <3> QED BY <1>1, ConcatCases
  <2>2. job.subtasks = u
    OBVIOUS
  <2> HIDE DEF u, m
  <2> QED BY <2>1, <2>2
<1>4. outbox'[n].task = work[w].task /\ outbox'[n].subtasks = job.subtasks
  BY <1>2 DEF ResultOfJob
<1> HIDE DEF m
<1>5. ASSUME NEW k, NEW x, NEW i, NEW p, At(k, x, i, p)', ~ (k \in {"out", "outsub"} /\ x = n)
      PROVE  At(k, x, i, p) /\ ~ (k \in {"work", "sub"} /\ x = w)
  BY <1>2, <1>5 DEF At
<1>6. ASSUME NEW i, NEW p, At("out", n, i, p)' PROVE i = 0 /\ At("work", w, 0, p)
  BY <1>4, <1>6 DEF At
<1>7. ASSUME NEW i, NEW p, At("outsub", n, i, p)'
      PROVE  At("sub", w, i, p) \/ \E j \in DOMAIN new : i = m + j /\ p = new[j].path
  BY <1>3, <1>4, <1>7 DEF At
<1>8. ASSUME NEW k, NEW x, NEW i, NEW p, At(k, x, i, p), ~ (k \in {"work", "sub"} /\ x = w)
      PROVE  At(k, x, i, p)'
  BY <1>2, <1>8 DEF At
<1>9. ASSUME NEW p, p = work[w].task.path PROVE At("out", n, 0, p)'
  BY <1>2, <1>4, <1>9 DEF At
<1>17. ASSUME NEW i, NEW p, At("sub", w, i, p) PROVE At("outsub", n, i, p)'
  BY <1>2, <1>3, <1>4, <1>17 DEF At
<1>18. ASSUME NEW p, Of(new, p) PROVE \E i : At("outsub", n, i, p)'
  <2>1. PICK j \in DOMAIN new : p = new[j].path
    BY <1>18 DEF Of
  <2>2. PICK i : i \in DOMAIN job.subtasks /\ job.subtasks[i].path = p
    BY <1>3, <2>1
  <2>3. At("outsub", n, i, p)'
    BY <1>2, <1>4, <2>2 DEF At
  <2> QED BY <2>3
<1> HIDE DEF s
<1>10. \A p : Of(new, p) => ~ Tasked(p)
  BY DEF Of, Fresh
<1>11. \A p, i, j : i \in DOMAIN new /\ j \in DOMAIN new /\ p = new[i].path /\ p = new[j].path => i = j
  BY DEF Fresh
<1>12. ASSUME NEW k, NEW x, NEW i, NEW p, At(k, x, i, p)', Of(new, p)
       PROVE  k = "outsub" /\ x = n /\ \E j \in DOMAIN new : i = m + j /\ p = new[j].path
  <2>1. \A l, y, j : ~ At(l, y, j, p)
    BY <1>10, <1>12 DEF Tasked
  <2> QED BY <1>5, <1>6, <1>7, <1>12, <2>1
<1>13. Unique'
  <2> SUFFICES ASSUME NEW k, NEW x, NEW i, NEW l, NEW y, NEW j, NEW p, At(k, x, i, p)', At(l, y, j, p)'
               PROVE  k = l /\ x = y /\ i = j
    BY DEF Unique
  <2>1. CASE Of(new, p)
    BY <1>11, <1>12, <2>1
  <2>2. CASE ~ Of(new, p)
    <3>1. CASE ~ (k \in {"out", "outsub"} /\ x = n) /\ ~ (l \in {"out", "outsub"} /\ y = n)
      BY <1>5, <3>1 DEF Unique
    <3>2. CASE k \in {"out", "outsub"} /\ x = n /\ ~ (l \in {"out", "outsub"} /\ y = n)
      BY <1>5, <1>6, <1>7, <2>2, <3>2 DEF Unique, Of
    <3>3. CASE ~ (k \in {"out", "outsub"} /\ x = n) /\ l \in {"out", "outsub"} /\ y = n
      BY <1>5, <1>6, <1>7, <2>2, <3>3 DEF Unique, Of
    <3>4. CASE k \in {"out", "outsub"} /\ x = n /\ l \in {"out", "outsub"} /\ y = n
      BY <1>6, <1>7, <2>2, <3>4 DEF Unique, Of
    <3> QED BY <3>1, <3>2, <3>3, <3>4
  <2> QED BY <2>1, <2>2
<1>14. Moved(new)
  <2>1. ASSUME NEW p PROVE Tasked(p)' => Tasked(p) \/ Of(new, p)
    BY <1>5, <1>6, <1>7 DEF Tasked, Of
  <2>2. ASSUME NEW p PROVE Pending(p)' => Pending(p) \/ Of(new, p)
    BY <1>5, <1>6, <1>7 DEF Pending, Of
  <2>3. ASSUME NEW p PROVE Done(p) => Done(p)'
    BY <1>8 DEF Done
  <2>4. ASSUME NEW p, Of(new, p) PROVE Tasked(p)'
    BY <1>18, <2>4 DEF Tasked
  <2>5. ASSUME NEW k, NEW x, NEW i, NEW p, At(k, x, i, p) PROVE Tasked(p)'
    <3>1. CASE ~ (k \in {"work", "sub"} /\ x = w)
      BY <1>8, <2>5, <3>1 DEF Tasked
    <3>2. CASE k = "work" /\ x = w
      <4>1. p = work[w].task.path
        BY <2>5, <3>2 DEF At
      <4> QED BY <1>9, <4>1 DEF Tasked
    <3>3. CASE k = "sub" /\ x = w
      BY <1>17, <2>5, <3>3 DEF Tasked
    <3> QED BY <3>1, <3>2, <3>3
  <2>6. ASSUME NEW p PROVE Tasked(p) => Tasked(p)'
    BY <2>5 DEF Tasked
  <2> QED BY <1>13, <2>1, <2>2, <2>3, <2>4, <2>6 DEF Moved
<1>15. ASSUME NEW v \in Workers, v # w PROVE \A p : Sub(v, p)' <=> Sub(v, p)
  BY <1>5, <1>8, <1>15 DEF Sub
<1>16. \A p : p = work[w].task.path => Done(p)'
  BY <1>9 DEF Done
<1> QED BY <1>2, <1>14, <1>15, <1>16

\* A worker takes the first task of the queue, ...
LEMMA TakeMoves ==
  ASSUME TypeOK, Unique, NEW w \in Workers, work[w] = Idle, queue # <<>>, queue' = Tail(queue),
         NEW job \in Jobs, job.task = Head(queue), job.subtasks = <<>>,
         Continue(w, job), UNCHANGED results
  PROVE  /\ Moved(<<>>) /\ \A p : p = Head(queue).path => Pending(p) /\ ~ Pending(p)'
         /\ work'[w] = job /\ \A p : ~ Sub(w, p)'
         /\ \A v \in Workers : v # w => work'[v] = work[v] /\ \A p : Sub(v, p)' <=> Sub(v, p)
         /\ \A k, x, i, p : k \in {"sub", "outsub"} /\ At(k, x, i, p)' => At(k, x, i, p)
<1>1. /\ work'[w] = job /\ outbox' = outbox /\ results' = results /\ job # Idle
      /\ \A v \in Workers : v # w => work'[v] = work[v]
  BY IdleAssumption DEF Continue, TypeOK
<1>2. /\ 1 \in DOMAIN queue /\ Head(queue) = queue[1]
      /\ \A i \in DOMAIN queue' : i \in Nat \ {0} /\ i + 1 \in DOMAIN queue /\ queue'[i] = queue[i + 1]
      /\ \A i \in DOMAIN queue : i = 1 \/ \E j \in DOMAIN queue' : i = j + 1
  BY TailCases DEF TypeOK
<1>3. ASSUME NEW k, NEW x, NEW i, NEW p, At(k, x, i, p)', k # "queue", ~ (k = "work" /\ x = w)
      PROVE  At(k, x, i, p) /\ ~ (k = "sub" /\ x = w)
  BY <1>1, <1>3 DEF At
<1>4. ASSUME NEW x, NEW i, NEW p, At("queue", x, i, p)'
      PROVE  x = 0 /\ i \in Nat \ {0} /\ At("queue", 0, i + 1, p)
  BY <1>2, <1>4 DEF At
<1>5. ASSUME NEW i, NEW p, At("work", w, i, p)' PROVE i = 0 /\ At("queue", 0, 1, p)
  BY <1>1, <1>2, <1>5 DEF At
<1>6. ASSUME NEW k, NEW x, NEW i, NEW p, At(k, x, i, p), k # "queue" PROVE At(k, x, i, p)'
  BY <1>1, <1>6 DEF At
<1>7. ASSUME NEW p, p = Head(queue).path PROVE At("queue", 0, 1, p) /\ At("work", w, 0, p)'
  BY <1>1, <1>2, <1>7 DEF At
<1>8. Unique'
  <2> SUFFICES ASSUME NEW k, NEW x, NEW i, NEW l, NEW y, NEW j, NEW p, At(k, x, i, p)', At(l, y, j, p)'
               PROVE  k = l /\ x = y /\ i = j
    BY DEF Unique
  <2>1. \A a \in Nat \ {0} : a + 1 # 1
    OBVIOUS
  <2>2. CASE k = "queue" /\ l = "queue"
    <3>1. i + 1 = j + 1 /\ i \in Nat /\ j \in Nat /\ x = y
      BY <1>4, <2>2 DEF Unique
    <3> QED BY <2>2, <3>1
  <2>3. CASE k = "queue" /\ l # "queue"
    BY <1>3, <1>4, <1>5, <2>1, <2>3 DEF Unique
  <2>4. CASE k # "queue" /\ l = "queue"
    BY <1>3, <1>4, <1>5, <2>1, <2>4 DEF Unique
  <2>5. CASE k # "queue" /\ l # "queue"
    BY <1>3, <1>5, <2>5 DEF Unique
  <2> QED BY <2>2, <2>3, <2>4, <2>5
<1>9. Moved(<<>>)
  <2>1. ASSUME NEW p PROVE Tasked(p)' => Tasked(p)
    BY <1>3, <1>4, <1>5 DEF Tasked
  <2>2. ASSUME NEW p PROVE Pending(p)' => Pending(p)
    BY <1>3, <1>4 DEF Pending
  <2>3. ASSUME NEW p PROVE Done(p) => Done(p)'
    BY <1>6 DEF Done
  <2>4. ASSUME NEW x, NEW i, NEW p, At("queue", x, i, p) PROVE Tasked(p)'
    <3>1. CASE i = 1
      BY <1>2, <1>7, <2>4, <3>1 DEF At, Tasked
    <3>2. CASE i # 1
      <4>1. PICK j \in DOMAIN queue' : i = j + 1
        BY <1>2, <2>4, <3>2 DEF At
      <4>2. At("queue", 0, j, p)'
        BY <1>2, <2>4, <4>1 DEF At
      <4> QED BY <4>2 DEF Tasked
    <3> QED BY <3>1, <3>2
  <2>5. ASSUME NEW p PROVE Tasked(p) => Tasked(p)'
    BY <1>6, <2>4 DEF Tasked
  <2>6. \A p : ~ Of(<<>>, p)
    BY DEF Of
  <2> QED BY <1>8, <2>1, <2>2, <2>3, <2>5, <2>6 DEF Moved
<1>10. \A p : ~ Sub(w, p)'
  BY <1>1 DEF Sub, At
<1>11. ASSUME NEW v \in Workers, v # w PROVE \A p : Sub(v, p)' <=> Sub(v, p)
  BY <1>3, <1>6, <1>11 DEF Sub
<1>12. \A p : p = Head(queue).path => Pending(p) /\ ~ Pending(p)'
  BY <1>7, <1>8 DEF Pending, Unique
<1> QED BY <1>1, <1>3, <1>9, <1>10, <1>11, <1>12

\* ... or returns for it at once.
LEMMA SkipMoves ==
  ASSUME TypeOK, Unique, NEW w \in Workers, work[w] = Idle, queue # <<>>, queue' = Tail(queue),
         NEW job, ResultOfJob(job) \in TaskResults, job.task = Head(queue), job.subtasks = <<>>,
         Return(w, job), UNCHANGED results
  PROVE  /\ Moved(<<>>) /\ work'[w] = Idle
         /\ \A v \in Workers : v # w => work'[v] = work[v] /\ \A p : Sub(v, p)' <=> Sub(v, p)
         /\ \A k, x, i, p : k \in {"sub", "outsub"} /\ At(k, x, i, p)' => At(k, x, i, p)
<1>1. PICK n : /\ n \notin DOMAIN outbox
               /\ DOMAIN outbox' = DOMAIN outbox \cup {n}
               /\ outbox'[n] = ResultOfJob(job)
               /\ \A j \in DOMAIN outbox : outbox'[j] = outbox[j]
               /\ work'[w] = Idle
               /\ \A v \in Workers : v # w => work'[v] = work[v]
  BY ReturnFacts
<1>2. /\ 1 \in DOMAIN queue /\ Head(queue) = queue[1]
      /\ \A i \in DOMAIN queue' : i \in Nat \ {0} /\ i + 1 \in DOMAIN queue /\ queue'[i] = queue[i + 1]
      /\ \A i \in DOMAIN queue : i = 1 \/ \E j \in DOMAIN queue' : i = j + 1
  BY TailCases DEF TypeOK
<1>3. outbox'[n].task = Head(queue) /\ outbox'[n].subtasks = <<>>
  BY <1>1 DEF ResultOfJob
<1>4. ASSUME NEW k, NEW x, NEW i, NEW p, At(k, x, i, p)', k # "queue", ~ (k = "out" /\ x = n)
      PROVE  At(k, x, i, p)
  BY <1>1, <1>3, <1>4 DEF At
<1>5. ASSUME NEW x, NEW i, NEW p, At("queue", x, i, p)'
      PROVE  x = 0 /\ i \in Nat \ {0} /\ At("queue", 0, i + 1, p)
  BY <1>2, <1>5 DEF At
<1>6. ASSUME NEW i, NEW p, At("out", n, i, p)' PROVE i = 0 /\ At("queue", 0, 1, p)
  BY <1>2, <1>3, <1>6 DEF At
<1>7. ASSUME NEW k, NEW x, NEW i, NEW p, At(k, x, i, p), k # "queue" PROVE At(k, x, i, p)'
  BY <1>1, <1>7 DEF At
<1>11. ASSUME NEW p, p = Head(queue).path PROVE At("out", n, 0, p)'
  BY <1>1, <1>3, <1>11 DEF At
<1>8. Unique'
  <2> SUFFICES ASSUME NEW k, NEW x, NEW i, NEW l, NEW y, NEW j, NEW p, At(k, x, i, p)', At(l, y, j, p)'
               PROVE  k = l /\ x = y /\ i = j
    BY DEF Unique
  <2>1. \A a \in Nat \ {0} : a + 1 # 1
    OBVIOUS
  <2>2. CASE k = "queue" /\ l = "queue"
    <3>1. i + 1 = j + 1 /\ i \in Nat /\ j \in Nat /\ x = y
      BY <1>5, <2>2 DEF Unique
    <3> QED BY <2>2, <3>1
  <2>3. CASE k = "queue" /\ l # "queue"
    BY <1>4, <1>5, <1>6, <2>1, <2>3 DEF Unique
  <2>4. CASE k # "queue" /\ l = "queue"
    BY <1>4, <1>5, <1>6, <2>1, <2>4 DEF Unique
  <2>5. CASE k # "queue" /\ l # "queue"
    BY <1>4, <1>6, <2>5 DEF Unique
  <2> QED BY <2>2, <2>3, <2>4, <2>5
<1>9. Moved(<<>>)
  <2>1. ASSUME NEW p PROVE Tasked(p)' => Tasked(p)
    BY <1>4, <1>5, <1>6 DEF Tasked
  <2>2. ASSUME NEW p PROVE Pending(p)' => Pending(p)
    BY <1>4, <1>5 DEF Pending
  <2>3. ASSUME NEW p PROVE Done(p) => Done(p)'
    BY <1>7 DEF Done
  <2>4. ASSUME NEW x, NEW i, NEW p, At("queue", x, i, p) PROVE Tasked(p)'
    <3>1. CASE i = 1
      BY <1>2, <1>11, <2>4, <3>1 DEF At, Tasked
    <3>2. CASE i # 1
      <4>1. PICK j \in DOMAIN queue' : i = j + 1
        BY <1>2, <2>4, <3>2 DEF At
      <4>2. At("queue", 0, j, p)'
        BY <1>2, <2>4, <4>1 DEF At
      <4> QED BY <4>2 DEF Tasked
    <3> QED BY <3>1, <3>2
  <2>5. ASSUME NEW p PROVE Tasked(p) => Tasked(p)'
    BY <1>7, <2>4 DEF Tasked
  <2>6. \A p : ~ Of(<<>>, p)
    BY DEF Of
  <2> QED BY <1>8, <2>1, <2>2, <2>3, <2>5, <2>6 DEF Moved
<1>10. ASSUME NEW v \in Workers, v # w PROVE \A p : Sub(v, p)' <=> Sub(v, p)
  BY <1>4, <1>7, <1>10 DEF Sub
<1> QED BY <1>1, <1>4, <1>9, <1>10

\* The host registers a result and submits its subtasks.
LEMMA RegisterMoves ==
  ASSUME TypeOK, Unique, Register
  PROVE  /\ Moved(<<>>)
         /\ \A v \in Workers : work'[v] = work[v] /\ \A p : Sub(v, p)' <=> Sub(v, p)
         /\ queue' \in Seq(Tasks) /\ outbox' \in Seq(TaskResults) /\ results' \in Seq(TaskResults)
         /\ \A k, x, i, p : k \in {"sub", "outsub"} /\ At(k, x, i, p)' => \E y : At(k, y, i, p)
         /\ \A i \in DOMAIN queue' :
              \/ i \in DOMAIN queue /\ queue'[i] = queue[i]
              \/ \E x, j : At("outsub", x, j, queue'[i].path)
<1> DEFINE r == Head(outbox)
           s == r.subtasks
           n == Len(results) + 1
           m == Len(queue)
<1>1. /\ outbox \in Seq(TaskResults) /\ outbox # <<>> /\ queue \in Seq(Tasks) /\ results \in Seq(TaskResults)
      /\ queue' = queue \o s /\ results' = Append(results, r) /\ outbox' = Tail(outbox) /\ work' = work
  BY DEF TypeOK, Register
<1>2. /\ 1 \in DOMAIN outbox /\ r = outbox[1] /\ r \in TaskResults /\ outbox' \in Seq(TaskResults)
      /\ \A i \in DOMAIN outbox' : i \in Nat \ {0} /\ i + 1 \in DOMAIN outbox /\ outbox'[i] = outbox[i + 1]
      /\ \A i \in DOMAIN outbox : i = 1 \/ \E j \in DOMAIN outbox' : i = j + 1
  BY <1>1, TailCases
<1> HIDE DEF r
<1>3. s \in Seq(Tasks)
  BY <1>2 DEF TaskResults
<1>4. /\ results' \in Seq(TaskResults) /\ n \notin DOMAIN results
      /\ DOMAIN results' = DOMAIN results \cup {n} /\ results'[n] = r
      /\ \A i \in DOMAIN results : results'[i] = results[i]
  BY <1>1, <1>2, AppendCases
<1>5. /\ queue' \in Seq(Tasks) /\ m \in Nat
      /\ \A i \in DOMAIN queue' :
           \/ i \in DOMAIN queue /\ queue'[i] = queue[i]
           \/ \E j \in DOMAIN s : i = m + j /\ queue'[i] = s[j] /\ i \notin DOMAIN queue
      /\ \A i \in DOMAIN queue : i \in DOMAIN queue' /\ queue'[i] = queue[i]
      /\ \A j \in DOMAIN s : m + j \in DOMAIN queue' /\ queue'[m + j] = s[j]
  <2> DEFINE u == queue \o s
  <2>1. /\ u \in Seq(Tasks) /\ m \in Nat
        /\ \A i \in DOMAIN u :
             \/ i \in DOMAIN queue /\ u[i] = queue[i]
             \/ \E j \in DOMAIN s : i = m + j /\ u[i] = s[j] /\ i \notin DOMAIN queue
        /\ \A i \in DOMAIN queue : i \in DOMAIN u /\ u[i] = queue[i]
        /\ \A j \in DOMAIN s : m + j \in DOMAIN u /\ u[m + j] = s[j]
    <3> HIDE DEF s
    <3> QED BY <1>1, <1>3, ConcatCases
  <2>2. queue' = u
    BY <1>1
  <2> HIDE DEF u, m, s
  <2> QED BY <2>1, <2>2
<1> HIDE DEF n, m
<1>6. ASSUME NEW k, NEW x, NEW i, NEW p, At(k, x, i, p)', k \in {"work", "sub"} PROVE At(k, x, i, p)
  BY <1>1, <1>6 DEF At
<1>7. ASSUME NEW k, NEW x, NEW i, NEW p, At(k, x, i, p), k \in {"work", "sub"} PROVE At(k, x, i, p)'
  BY <1>1, <1>7 DEF At
<1>8. ASSUME NEW k, NEW x, NEW i, NEW p, At(k, x, i, p)', k \in {"out", "outsub"}
      PROVE  x \in Nat \ {0} /\ At(k, x + 1, i, p)
  BY <1>2, <1>8 DEF At
<1>9. ASSUME NEW x, NEW i, NEW p, At("res", x, i, p)'
      PROVE  At("res", x, i, p) \/ (x = n /\ i = 0 /\ At("out", 1, 0, p))
  BY <1>2, <1>4, <1>9 DEF At
<1>10. ASSUME NEW x, NEW i, NEW p, At("queue", x, i, p)'
       PROVE  x = 0 /\ (At("queue", x, i, p) \/ \E j \in DOMAIN s : i = m + j /\ At("outsub", 1, j, p))
  BY <1>2, <1>5, <1>10 DEF At
<1>11. ASSUME NEW k, NEW x, NEW i, NEW p, At(k, x, i, p), k \in {"out", "res"}
       PROVE  Done(p)'
  <2>1. CASE k = "res"
    <3>1. At("res", x, i, p)'
      BY <1>4, <1>11, <2>1 DEF At
    <3> QED BY <3>1 DEF Done
  <2>2. CASE k = "out" /\ x = 1
    <3>1. \A y : y = n => At("res", y, 0, p)'
      BY <1>2, <1>4, <1>11, <2>2 DEF At
    <3> QED BY <3>1 DEF Done
  <2>3. CASE k = "out" /\ x # 1
    <3>1. PICK j \in DOMAIN outbox' : x = j + 1
      BY <1>2, <1>11, <2>3 DEF At
    <3>2. At("out", j, 0, p)'
      BY <1>2, <1>11, <2>3, <3>1 DEF At
    <3> QED BY <3>2 DEF Done
  <2> QED BY <1>11, <2>1, <2>2, <2>3
<1>12. \A k, x, i, p : At(k, x, i, p)' => k \in {"work", "sub", "out", "outsub", "res", "queue"}
  BY DEF At
<1>13. \A i, j, k \in Nat : i + 1 = j + 1 => i = j
  OBVIOUS
<1>14. \A i \in Nat \ {0} : i + 1 # 1
  OBVIOUS
<1>15. \A i : i \in DOMAIN s => i \in Nat
  BY <1>3
<1>21. ASSUME NEW x, NEW i, NEW p, At("outsub", x, i, p) PROVE Tasked(p)'
  <2>1. CASE x = 1
    <3>1. i \in DOMAIN s /\ p = s[i].path
      BY <1>2, <1>21, <2>1 DEF At
    <3>2. PICK y : y \in DOMAIN queue' /\ queue'[y].path = p
      BY <1>5, <3>1
    <3>3. At("queue", 0, y, p)'
      BY <3>2 DEF At
    <3> QED BY <3>3 DEF Tasked
  <2>2. CASE x # 1
    <3>1. PICK j \in DOMAIN outbox' : x = j + 1
      BY <1>2, <1>21, <2>2 DEF At
    <3>2. At("outsub", j, i, p)'
      BY <1>2, <1>21, <3>1 DEF At
    <3> QED BY <3>2 DEF Tasked
  <2> QED BY <2>1, <2>2
<1>22. ASSUME NEW x, NEW i, NEW p, At("queue", x, i, p) PROVE At("queue", x, i, p)'
  BY <1>5, <1>22 DEF At
<1> HIDE DEF s
<1>16. Unique'
  <2> SUFFICES ASSUME NEW k, NEW x, NEW i, NEW l, NEW y, NEW j, NEW p, At(k, x, i, p)', At(l, y, j, p)'
               PROVE  k = l /\ x = y /\ i = j
    BY DEF Unique
  <2>2. CASE k \in {"work", "sub"}
    <3>1. At(k, x, i, p)
      BY <1>6, <2>2
    <3> QED BY <1>6, <1>8, <1>9, <1>10, <1>12, <2>2, <3>1 DEF Unique
  <2>3. CASE k \in {"out", "outsub"}
    <3>1. x \in Nat \ {0} /\ At(k, x + 1, i, p)
      BY <1>8, <2>3
    <3>2. CASE l \in {"out", "outsub"}
      <4>1. y \in Nat \ {0} /\ At(l, y + 1, j, p)
        BY <1>8, <3>2
      <4>2. k = l /\ x + 1 = y + 1 /\ i = j
        BY <3>1, <4>1 DEF Unique
      <4> QED BY <3>1, <4>1, <4>2
    <3>3. CASE l \notin {"out", "outsub"}
      BY <1>6, <1>9, <1>10, <1>12, <1>14, <2>3, <3>1, <3>3 DEF Unique
    <3> QED BY <3>2, <3>3
  <2>4. CASE k = "res"
    <3>1. At("res", x, i, p) \/ (x = n /\ i = 0 /\ At("out", 1, 0, p))
      BY <1>9, <2>4
    <3> QED BY <1>6, <1>8, <1>9, <1>10, <1>12, <1>14, <2>4, <3>1 DEF Unique
  <2>5. CASE k = "queue"
    <3>1. x = 0 /\ (At("queue", x, i, p) \/ \E a \in DOMAIN s : i = m + a /\ At("outsub", 1, a, p))
      BY <1>10, <2>5
    <3>2. CASE l = "queue"
      BY <1>10, <2>5, <3>1, <3>2 DEF Unique
    <3>3. CASE l # "queue"
      BY <1>6, <1>8, <1>9, <1>12, <1>14, <2>5, <3>1, <3>3 DEF Unique
    <3> QED BY <3>2, <3>3
  <2> QED BY <1>12, <2>2, <2>3, <2>4, <2>5
<1>17. Moved(<<>>)
  <2>1. ASSUME NEW p PROVE Tasked(p)' => Tasked(p)
    BY <1>6, <1>8, <1>9, <1>10, <1>12 DEF Tasked
  <2>2. ASSUME NEW p PROVE Pending(p)' => Pending(p)
    BY <1>6, <1>8, <1>10 DEF Pending
  <2>3. ASSUME NEW p PROVE Done(p) => Done(p)'
    BY <1>11 DEF Done
  <2>4. ASSUME NEW k, NEW x, NEW i, NEW p, At(k, x, i, p) PROVE Tasked(p)'
    <3>1. k \in {"work", "sub", "out", "outsub", "res", "queue"}
      BY <2>4 DEF At
    <3>2. CASE k \in {"work", "sub"}
      BY <1>7, <2>4, <3>2 DEF Tasked
    <3>3. CASE k \in {"out", "res"}
      <4>1. Done(p)'
        BY <1>11, <2>4, <3>3
      <4> QED BY <4>1 DEF Done, Tasked
    <3>4. CASE k = "outsub"
      BY <1>21, <2>4, <3>4
    <3>5. CASE k = "queue"
      BY <1>22, <2>4, <3>5 DEF Tasked
    <3> QED BY <3>1, <3>2, <3>3, <3>4, <3>5
  <2>5. ASSUME NEW p PROVE Tasked(p) => Tasked(p)'
    BY <2>4 DEF Tasked
  <2>6. \A p : ~ Of(<<>>, p)
    BY DEF Of
  <2> QED BY <1>16, <2>1, <2>2, <2>3, <2>5, <2>6 DEF Moved
<1>18. ASSUME NEW v \in Workers PROVE work'[v] = work[v] /\ \A p : Sub(v, p)' <=> Sub(v, p)
  BY <1>1, <1>6, <1>7, <1>18 DEF Sub
<1>19. \A k, x, i, p : k \in {"sub", "outsub"} /\ At(k, x, i, p)' => \E y : At(k, y, i, p)
  BY <1>6, <1>8
<1>20. ASSUME NEW i \in DOMAIN queue', ~ (i \in DOMAIN queue /\ queue'[i] = queue[i])
       PROVE  \E x, j : At("outsub", x, j, queue'[i].path)
  <2>1. PICK j \in DOMAIN s : queue'[i] = s[j]
    BY <1>5, <1>20
  <2>2. At("outsub", 1, j, queue'[i].path)
    BY <1>2, <2>1 DEF At, s
  <2> QED BY <2>2
<1> QED BY <1>2, <1>4, <1>5, <1>17, <1>18, <1>19, <1>20

-----------------------------------------------------------------------------
(* The inductive invariant                                                 *)

\* Two file systems agree on a path.
Same(f, g, p) == (p \in DOMAIN f <=> p \in DOMAIN g) /\ (p \in DOMAIN f => f[p] = g[p])

LEMMA TaskPath ==
  ASSUME NEW s \in Seq(Tasks), NEW i \in DOMAIN s
  PROVE  s[i] \in Tasks /\ s[i].path \in Paths
<1>1. s[i] \in Tasks
  OBVIOUS
<1> QED BY <1>1 DEF Tasks

LEMMA TaskedTypes ==
  ASSUME TypeOK
  PROVE  /\ \A p : Tasked(p) => p \in Paths
         /\ \A p : Pending(p) => Tasked(p)
         /\ \A p : Done(p) => Tasked(p)
         /\ \A w, p : Sub(w, p) => Pending(p)
         /\ \A w \in Workers : Busy(w) => /\ work[w] \in Jobs /\ Path(w) \in Paths /\ Tasked(Path(w))
<1>1. /\ queue \in Seq(Tasks) /\ outbox \in Seq(TaskResults) /\ results \in Seq(TaskResults)
      /\ work \in [Workers -> Jobs \cup {Idle}]
  BY DEF TypeOK
<1>2. ASSUME NEW k, NEW x, NEW i, NEW p, At(k, x, i, p) PROVE p \in Paths
  <2>1. CASE k = "queue"
    BY <1>1, <1>2, <2>1, TaskPath DEF At
  <2>2. CASE k = "work"
    <3>1. work[x] \in Jobs /\ p = work[x].task.path
      BY <1>1, <1>2, <2>2 DEF At
    <3> QED BY <3>1 DEF Jobs, Tasks
  <2>3. CASE k = "sub"
    <3>1. work[x] \in Jobs /\ i \in DOMAIN work[x].subtasks /\ p = work[x].subtasks[i].path
      BY <1>1, <1>2, <2>3 DEF At
    <3>2. work[x].subtasks \in Seq(Tasks)
      BY <3>1 DEF Jobs
    <3> QED BY <3>1, <3>2, TaskPath
  <2>4. CASE k = "out"
    <3>1. outbox[x] \in TaskResults /\ p = outbox[x].task.path
      BY <1>1, <1>2, <2>4 DEF At
    <3> QED BY <3>1 DEF TaskResults, Tasks
  <2>5. CASE k = "outsub"
    <3>1. outbox[x] \in TaskResults /\ i \in DOMAIN outbox[x].subtasks /\ p = outbox[x].subtasks[i].path
      BY <1>1, <1>2, <2>5 DEF At
    <3>2. outbox[x].subtasks \in Seq(Tasks)
      BY <3>1 DEF TaskResults
    <3> QED BY <3>1, <3>2, TaskPath
  <2>6. CASE k = "res"
    <3>1. results[x] \in TaskResults /\ p = results[x].task.path
      BY <1>1, <1>2, <2>6 DEF At
    <3> QED BY <3>1 DEF TaskResults, Tasks
  <2> QED BY <1>2, <2>1, <2>2, <2>3, <2>4, <2>5, <2>6 DEF At
<1>3. /\ \A p : Tasked(p) => p \in Paths
      /\ \A p : Pending(p) => Tasked(p)
      /\ \A p : Done(p) => Tasked(p)
      /\ \A w, p : Sub(w, p) => Pending(p)
  BY <1>2 DEF Tasked, Pending, Done, Sub
<1>4. ASSUME NEW w \in Workers, Busy(w) PROVE work[w] \in Jobs /\ Path(w) \in Paths /\ Tasked(Path(w))
  <2>1. At("work", w, 0, Path(w))
    BY <1>4 DEF At, Busy, Path
  <2> QED BY <1>1, <1>2, <1>4, <2>1 DEF Busy, Tasked
<1> QED BY <1>3, <1>4

\* A path under an extraction directory and under d: one holds the other.
LEMMA BesideOrUnder ==
  ASSUME NEW p \in Paths, NEW q \in Paths, NEW d \in Paths, Under(p, Beside(q)), Under(p, d)
  PROVE  Under(d, Beside(q)) \/ Under(q, d)
<1>1. Beside(q) \in Paths
  BY BesideFacts
<1>2. CASE Under(d, Beside(q))
  BY <1>2
<1>3. CASE Under(Beside(q), d) /\ d # Beside(q)
  BY <1>3, BesideFacts
<1> QED BY <1>1, <1>2, <1>3, UnderOrder

\* What holds a path holds its extraction directory.
LEMMA BesideIn ==
  ASSUME NEW p \in Paths, NEW d \in Paths, Under(p, d), p # d
  PROVE  Under(Beside(p), d)
<1>1. PICK n \in Nat \ {0} : n = Len(p)
  BY DEF Paths
<1>2. /\ Beside(p) \in Paths /\ Len(Beside(p)) = n
      /\ \A i \in 1..n : i # n => Beside(p)[i] = p[i]
  BY <1>1, BesideNames
<1>3. Len(d) \in Nat /\ Len(d) <= n /\ \A i \in 1..Len(d) : p[i] = d[i]
  BY <1>1, UnderNames DEF Paths
<1>4. Len(d) # n
  BY <1>1, <1>3, SamePath
<1>5. \A i \in 1..Len(d) : Beside(p)[i] = d[i]
  BY <1>2, <1>3, <1>4
<1> QED BY <1>2, <1>3, <1>5, UnderNames

LEMMA RegionDown ==
  ASSUME TypeOK, NEW w \in Workers, Busy(w), NEW p, InRegion(w, p), NEW q \in Paths, Under(q, p)
  PROVE  InRegion(w, q)
<1>1. p \in Paths /\ Path(w) \in Paths /\ CarveDir(work[w]) \in Paths
  BY TaskedTypes, BesideFacts DEF InRegion, CarveDir, Path
<1> QED BY <1>1, UnderOrder DEF InRegion

\* Two workers never touch the same path.
LEMMA WorkersApart ==
  ASSUME TypeOK, Unique, RegionInv, NEW v \in Workers, NEW w \in Workers, v # w, Busy(v), Busy(w)
  PROVE  \A p : ~ (InRegion(v, p) /\ InRegion(w, p))
<1> SUFFICES ASSUME NEW p, InRegion(v, p), InRegion(w, p) PROVE FALSE
  OBVIOUS
<1>1. /\ p \in Paths /\ Path(v) \in Paths /\ Path(w) \in Paths
      /\ Tasked(Path(v)) /\ Tasked(Path(w))
  BY TaskedTypes DEF InRegion
<1>2. At("work", v, 0, Path(v)) /\ At("work", w, 0, Path(w))
  BY DEF At, Busy, Path
<1>3. Path(v) # Path(w) /\ ~ Sub(v, Path(w)) /\ ~ Sub(w, Path(v))
  BY <1>2 DEF Unique, Sub
<1>4. ~ InRegion(w, Path(v)) /\ ~ InRegion(v, Path(w))
  BY <1>1, <1>3 DEF RegionInv
<1> DEFINE a == Path(v)  b == Path(w)  e == Engaged(work[v])  f == Engaged(work[w])
<1>5. /\ Under(p, a) \/ (e /\ Under(p, Beside(a)))
      /\ Under(p, b) \/ (f /\ Under(p, Beside(b)))
      /\ ~ Under(a, b) /\ ~ (f /\ Under(a, Beside(b)))
      /\ ~ Under(b, a) /\ ~ (e /\ Under(b, Beside(a)))
  BY <1>1, <1>4 DEF InRegion, CarveDir, Path
<1>6. a \in Paths /\ b \in Paths /\ a # b
  BY <1>1, <1>3
<1> HIDE DEF a, b, e, f
<1>7. CASE Under(p, a) /\ Under(p, b)
  BY <1>1, <1>5, <1>6, <1>7, UnderOrder
<1>8. CASE Under(p, a) /\ f /\ Under(p, Beside(b))
  BY <1>1, <1>5, <1>6, <1>8, BesideOrUnder
<1>9. CASE Under(p, b) /\ e /\ Under(p, Beside(a))
  BY <1>1, <1>5, <1>6, <1>9, BesideOrUnder
<1>10. CASE e /\ f /\ Under(p, Beside(a)) /\ Under(p, Beside(b))
  <2>1. Beside(a) \in Paths /\ Beside(b) \in Paths /\ Beside(a) # Beside(b)
    BY <1>6, BesideFacts
  <2>2. CASE Under(Beside(a), Beside(b))
    BY <1>5, <1>6, <1>10, <2>1, <2>2, BesideFacts
  <2>3. CASE Under(Beside(b), Beside(a))
    BY <1>5, <1>6, <1>10, <2>1, <2>3, BesideFacts
  <2> QED BY <1>1, <1>10, <2>1, <2>2, <2>3, UnderOrder
<1> QED BY <1>5, <1>7, <1>8, <1>9, <1>10

\* A worker touches nothing under a task that waits, but for those it is about to submit.
LEMMA PendingApart ==
  ASSUME TypeOK, Unique, RegionInv, PendingInv, NEW w \in Workers, Busy(w), NEW d, Pending(d), ~ Sub(w, d)
  PROVE  \A p : InRegion(w, p) => ~ Under(p, d)
<1> SUFFICES ASSUME NEW p, InRegion(w, p), Under(p, d) PROVE FALSE
  OBVIOUS
<1>1. /\ p \in Paths /\ d \in Paths /\ Path(w) \in Paths /\ Tasked(d) /\ Tasked(Path(w))
  BY TaskedTypes DEF InRegion
<1>2. d # Path(w)
  <2>1. At("work", w, 0, Path(w))
    BY DEF At, Busy, Path
  <2> QED BY <2>1 DEF Unique, Pending
<1>3. ~ InRegion(w, d)
  BY <1>1, <1>2 DEF RegionInv
<1>4. ~ Under(Path(w), d)
  BY <1>1, <1>2 DEF PendingInv
<1>5. CASE Under(p, Path(w))
  BY <1>1, <1>3, <1>4, <1>5, UnderOrder DEF InRegion
<1>6. CASE Engaged(work[w]) /\ Under(p, Beside(Path(w)))
  <2>1. Under(d, Beside(Path(w)))
    BY <1>1, <1>4, <1>6, BesideOrUnder
  <2> QED BY <1>1, <1>3, <1>6, <2>1 DEF InRegion, CarveDir, Path
<1> QED BY <1>5, <1>6 DEF InRegion, CarveDir, Path

-----------------------------------------------------------------------------
(* What another worker's step leaves alone                                 *)

LEMMA ContentFacts ==
  ASSUME NEW c \in Files
  PROVE  /\ c \notin {"piece", "dir", "special"} /\ c \in Nodes
         /\ Len(Chunks(c)) \in Nat
         /\ Content[c].unknown \subseteq Names /\ IsFiniteSet(Content[c].unknown)
         /\ Chunks(c) = <<>> => Content[c].unknown = {}
         /\ \A j \in 1..Len(Chunks(c)) : /\ Chunks(c)[j].name \in Names
                                         /\ Chunks(c)[j].result \in {"ok", "error", "silent"}
                                         /\ TreeOK(Chunks(c)[j].tree)
<1>1. ContentOK(Content[c])
  BY ProcessingAssumption
<1>2. c \notin {"piece", "dir", "special"} /\ c \in Nodes
  BY ProcessingAssumption DEF Nodes
<1>3. Chunks(c) \in Seq(Range(Chunks(c)))
  BY <1>1 DEF ContentOK, Chunks
<1>4. Len(Chunks(c)) \in Nat
  BY <1>3
<1> QED BY <1>1, <1>2, <1>4 DEF ContentOK, ChunkOK, Chunks

LEMMA BesideAppend ==
  ASSUME NEW d \in Paths, NEW m \in Names
  PROVE  Beside(Append(d, m)) = Append(d, Suffixed(m))
<1>1. PICK n \in Nat \ {0} : n = Len(d)
  BY DEF Paths
<1> DEFINE a == Append(d, m)  b == Append(d, Suffixed(m))
<1>2. Suffixed(m) \in Names
  BY SuffixedFacts
<1>3. /\ a \in Paths /\ Len(a) = n + 1 /\ a[n + 1] = m /\ \A i \in 1..n : a[i] = d[i]
      /\ b \in Paths /\ Len(b) = n + 1 /\ b[n + 1] = Suffixed(m) /\ \A i \in 1..n : b[i] = d[i]
  BY <1>1, <1>2 DEF Paths
<1> HIDE DEF a, b
<1>4. Beside(a) = [i \in 1..(n + 1) |-> IF i = n + 1 THEN Suffixed(a[n + 1]) ELSE a[i]] /\ Beside(a) \in Paths
      /\ Len(Beside(a)) = n + 1
  <2>1. n + 1 \in Nat \ {0}
    OBVIOUS
  <2> QED BY <1>3, <2>1, BesideNames
<1>5. \A i \in 1..(n + 1) : Beside(a)[i] = b[i]
  BY <1>3, <1>4
<1>6. Beside(a) = b
  BY <1>3, <1>4, <1>5, SamePath
<1> QED BY <1>6 DEF a, b

\* The paths that the local invariant of a worker is about.
LEMMA RegionMembers ==
  ASSUME TypeOK, NEW w \in Workers, Busy(w), Local(w)
  PROVE  /\ InRegion(w, Path(w))
         /\ CarveDir(work[w]) \in Paths /\ CarveDir(work[w]) = Beside(Path(w))
         /\ Engaged(work[w]) => InRegion(w, CarveDir(work[w]))
         /\ work[w].pc \in {"check", "mkdir", "extract", "settle"} /\ ~ Whole(work[w]) =>
              /\ InRegion(w, work[w].src) /\ Child(work[w].src, CarveDir(work[w]))
              /\ Child(Beside(work[w].src), CarveDir(work[w]))
         /\ work[w].pc \in {"mkdir", "extract", "settle"} =>
              InRegion(w, Beside(work[w].src)) /\ Under(Beside(work[w].src), CarveDir(work[w]))
         /\ work[w].pc \notin FilePcs =>
              /\ \A p \in work[w].extract_dirs \cup work[w].processed :
                   InRegion(w, p) /\ Child(p, Path(w))
              /\ work[w].pc = "multi" => InRegion(w, MultiHere(work[w])) /\ Child(MultiHere(work[w]), Path(w))
<1> DEFINE job == work[w]  c == CarveDir(job)
<1>1. job \in Jobs /\ Path(w) \in Paths
  BY TaskedTypes
<1>2. c \in Paths /\ c = Beside(Path(w))
  BY <1>1, BesideFacts DEF CarveDir, Path
<1>3. InRegion(w, Path(w)) /\ (Engaged(job) => InRegion(w, c))
  BY <1>1, <1>2, UnderOrder DEF InRegion
<1>4. ASSUME job.pc \in {"check", "mkdir", "extract", "settle"}, ~ Whole(job)
      PROVE  /\ InRegion(w, job.src) /\ Child(job.src, c)
             /\ InRegion(w, Beside(job.src)) /\ Child(Beside(job.src), c)
  <2>1. FileLocal(w)
    BY <1>4 DEF Local, FilePcs
  <2>2. job.content \in Files /\ job.todo \in 1..Len(Chunks(job.content)) /\ job.src = ChunkPath(job, job.todo)
    BY <1>4, <2>1 DEF FileLocal
  <2> DEFINE m == Chunks(job.content)[job.todo].name
  <2>3. m \in Names /\ job.src = Append(c, m)
    BY <2>2, ContentFacts DEF ChunkPath
  <2> HIDE DEF m, c
  <2>4. job.src \in Paths /\ Child(job.src, c) /\ Beside(job.src) = Append(c, Suffixed(m))
    BY <1>2, <2>3, AppendFacts, BesideAppend
  <2>5. Beside(job.src) \in Paths /\ Child(Beside(job.src), c)
    BY <1>2, <2>3, <2>4, AppendFacts, SuffixedFacts
  <2>6. Engaged(job)
    BY <1>4 DEF Engaged
  <2> QED BY <1>3, <2>4, <2>5, <2>6, RegionDown, ChildFacts, <1>2
<1>5. ASSUME job.pc \in {"mkdir", "extract", "settle"}
      PROVE  InRegion(w, Beside(job.src)) /\ Under(Beside(job.src), c)
  <2>1. Engaged(job)
    BY <1>5 DEF Engaged
  <2>2. CASE Whole(job)
    <3>1. Beside(job.src) = c
      BY <2>2 DEF Whole, CarveDir
    <3> QED BY <1>2, <1>3, <2>1, <3>1, UnderOrder
  <2>3. CASE ~ Whole(job)
    BY <1>2, <1>4, <1>5, <2>3, ChildFacts DEF InRegion
  <2> QED BY <2>2, <2>3
<1>6. ASSUME job.pc \notin FilePcs
      PROVE  /\ \A p \in job.extract_dirs \cup job.processed : InRegion(w, p) /\ Child(p, Path(w))
             /\ job.pc = "multi" => InRegion(w, MultiHere(job)) /\ Child(MultiHere(job), Path(w))
  <2>1. DirLocal(w)
    BY <1>6 DEF Local
  <2>2. \A n \in Names : Append(Path(w), n) \in Paths /\ Child(Append(Path(w), n), Path(w)) /\ InRegion(w, Append(Path(w), n))
    BY <1>1, <1>3, AppendFacts, ChildFacts, RegionDown
  <2>3. \A j \in 1..Len(DirHandlers) : Suffixed(DirHandlers[j].name) \in Names /\ DirHandlers[j].parts \subseteq Names
    BY ProcessingAssumption, SuffixedFacts DEF HandlerOK
  <2>4. \A p \in job.extract_dirs : \E n \in Names : p = Append(Path(w), n)
    BY <2>1, <2>3 DEF DirLocal
  <2>5. \A p \in job.processed : \E n \in Names : p = Append(Path(w), n)
    BY <2>1, <2>3 DEF DirLocal
  <2>6. job.pc = "multi" => \E n \in Names : MultiHere(job) = Append(Path(w), n)
    <3>1. job.todo \in Nat \ {0}
      BY <1>1 DEF Jobs
    <3>2. job.pc = "multi" => job.todo \in 1..Len(DirHandlers)
      BY <2>1, <3>1, ProcessingAssumption DEF DirLocal
    <3> QED BY <2>3, <3>2 DEF MultiHere, Handler, Path
  <2> QED BY <2>2, <2>4, <2>5, <2>6
<1> QED BY <1>2, <1>3, <1>4, <1>5, <1>6

\* The local invariant of a worker speaks of its own region only.
LEMMA LocalFrame ==
  ASSUME TypeOK, NEW v \in Workers, Busy(v), Local(v), work'[v] = work[v], config' = config,
         \A p : Sub(v, p)' <=> Sub(v, p), DOMAIN fs' \subseteq Paths,
         \A p : InRegion(v, p) => Same(fs, fs', p)
  PROVE  Local(v)'
<1> DEFINE job == work[v]  c == CarveDir(job)  d == Beside(job.src)
<1>1. \A q : InRegion(v, q) => /\ NoPiece(fs, q) => NoPiece(fs', q)
                               /\ Bare(fs, q) => Bare(fs', q)
                               /\ q \in DOMAIN fs' <=> q \in DOMAIN fs
                               /\ q \in DOMAIN fs => fs'[q] = fs[q]
  <2> SUFFICES ASSUME NEW q, InRegion(v, q)
               PROVE  /\ NoPiece(fs, q) => NoPiece(fs', q)
                      /\ Bare(fs, q) => Bare(fs', q)
                      /\ q \in DOMAIN fs' <=> q \in DOMAIN fs
                      /\ q \in DOMAIN fs => fs'[q] = fs[q]
    OBVIOUS
  <2>1. \A p \in DOMAIN fs' : Under(p, q) => Same(fs, fs', p)
    BY RegionDown
  <2> QED BY <2>1 DEF NoPiece, Bare, Same
<1>2. CASE job.pc \in FilePcs
  <2>1. FileLocal(v)
    BY <1>2 DEF Local
  <2>2. /\ InRegion(v, Path(v)) /\ (Engaged(job) => InRegion(v, c))
        /\ job.pc \in {"check", "mkdir", "extract", "settle"} /\ ~ Whole(job) => InRegion(v, job.src)
        /\ job.pc \in {"mkdir", "extract", "settle"} => InRegion(v, d)
    BY RegionMembers
  <2>3. Path(v)' = Path(v)
    BY DEF Path
  <2> HIDE DEF job, c, d
  <2>4. Path(v) \in DOMAIN fs' /\ fs'[Path(v)] = job.content /\ job.content \in Files
        /\ job.todo \in 1..Len(Chunks(job.content))
    BY <1>1, <2>1, <2>2 DEF FileLocal, job
  <2>5. job.pc = "unknown" => c \notin DOMAIN fs' /\ \A p : ~ Sub(v, p)'
    BY <1>1, <2>1, <2>2 DEF FileLocal, job, c, Engaged
  <2>6. job.pc = "carve" => (c \in DOMAIN fs' => fs'[c] = "dir") /\ \A p : Sub(v, p)' => Child(p, c)
    BY <1>1, <2>1, <2>2 DEF FileLocal, job, c, Engaged
  <2>7. job.pc \in {"check", "mkdir", "extract", "settle"} =>
       \/ Whole(job) /\ \A p : ~ Sub(v, p)'
       \/ /\ job.src = ChunkPath(job, job.todo) /\ job.src \in DOMAIN fs' /\ fs'[job.src] = "piece"
          /\ \A p : Sub(v, p)' => Child(p, c)
    <3>1. job.pc \in {"check", "mkdir", "extract", "settle"} => InRegion(v, job.src)
      BY <2>2 DEF Whole, Path, job
    <3> QED BY <1>1, <2>1, <3>1 DEF FileLocal, job, c
  <2>8. job.pc \in {"mkdir", "extract", "settle"} => ~ Sub(v, d) /\ NoPiece(fs', d)
    BY <1>1, <2>1, <2>2 DEF FileLocal, job, d
  <2>9. job.pc = "mkdir" => d \notin DOMAIN fs'
    BY <1>1, <2>1, <2>2 DEF FileLocal, job, d
  <2>10. job.pc = "extract" => d \in DOMAIN fs' /\ fs'[d] = "dir" /\ Bare(fs', d)
    BY <1>1, <2>1, <2>2 DEF FileLocal, job, d
  <2>11. job.pc = "delete" => /\ Whole(job) /\ config'.delete # "none" /\ job.task.depth # 0
                              /\ \A p : Sub(v, p)' => p = c
    BY <2>1 DEF FileLocal, job, c
  <2>12. Sub(v, d)' <=> Sub(v, d)
    <3>1. \A x : x = d => (Sub(v, x)' <=> Sub(v, x))
      OBVIOUS
    <3> QED BY <3>1 DEF d, job, Sub, At
  <2>13. FileLocal(v)'
    BY <2>3, <2>4, <2>5, <2>6, <2>7, <2>8, <2>9, <2>10, <2>11, <2>12 DEF FileLocal, job, c, d
  <2> QED BY <1>2, <2>13 DEF Local, job
<1>3. CASE job.pc \notin FilePcs
  <2>1. DirLocal(v)
    BY <1>3 DEF Local
  <2>2. /\ InRegion(v, Path(v))
        /\ \A p \in job.extract_dirs \cup job.processed : InRegion(v, p)
        /\ job.pc = "multi" => InRegion(v, MultiHere(job))
    BY <1>3, RegionMembers
  <2>3. Path(v)' = Path(v)
    BY DEF Path
  <2> HIDE DEF c, d
  <2>4. Path(v) \in DOMAIN fs' /\ fs'[Path(v)] = "dir"
    BY <1>1, <2>1, <2>2 DEF DirLocal
  <2>5. \A p \in job.extract_dirs \cup job.processed : p \in DOMAIN fs'
    BY <1>1, <2>1, <2>2 DEF DirLocal
  <2>6. job.pc = "multi" => /\ Bare(fs', MultiHere(job))
                            /\ MultiHere(job) \in DOMAIN fs' => fs'[MultiHere(job)] = "dir"
    BY <1>1, <2>1, <2>2 DEF DirLocal
  <2>7. DirLocal(v)'
    BY <2>1, <2>3, <2>4, <2>5, <2>6 DEF DirLocal
  <2> QED BY <1>3, <2>7 DEF Local
<1> QED BY <1>2, <1>3

-----------------------------------------------------------------------------
(* Steps of a worker                                                       *)

NewTasks(w, new) ==
  /\ new \in Seq(Tasks)
  /\ \A i, j \in DOMAIN new : new[i].path = new[j].path => i = j
  /\ \A d : Of(new, d) =>
       /\ InRegion(w, d) /\ d \in DOMAIN fs' /\ ~ Under(Path(w), d) /\ ~ Sub(w, d)
       /\ \A p : Sub(w, p) \/ Of(new, p) => (Under(p, d) => p = d)
       /\ \A p : Sub(w, p) => ~ Under(d, p)
       /\ NoPiece(fs', d)
\* A step changes its own region, but for what was handed over.
Effect(w, new) ==
  /\ FsOK(fs') /\ Plain(fs')
  /\ \A p : ~ InRegion(w, p) => Same(fs, fs', p)
  /\ \A p, d : Sub(w, d) /\ Under(p, d) => Same(fs, fs', p)
  /\ \A p \in DOMAIN fs \cap DOMAIN fs' : fs'[p] = fs[p]
  /\ \A p \in DOMAIN fs' \ DOMAIN fs : Len(p) = 1 => fs'[p] = "dir"
  /\ NewTasks(w, new)
Goes(w, new) ==
  /\ \E job \in Jobs : Continue(w, job) /\ job.task = work[w].task /\ job.subtasks = work[w].subtasks \o new
  /\ Path(w) \in DOMAIN fs' /\ NoPiece(fs', Path(w))
  /\ \A p : Tasked(p) /\ InRegion(w, p)' => InRegion(w, p)
  /\ Local(w)'
Returns(w, new) ==
  /\ \E job : /\ Return(w, job) /\ ResultOfJob(job) \in TaskResults
              /\ job.task = work[w].task /\ job.subtasks = work[w].subtasks \o new
  /\ \/ Path(w) \in DOMAIN fs'
     \/ work[w].task.depth # 0 /\ Last(Path(w)).ext = 0 /\ Room(fs', Path(w))
StepOK(w) ==
  /\ Busy(w) /\ UNCHANGED <<queue, results, host>>
  /\ \E new : Effect(w, new) /\ (Goes(w, new) \/ Returns(w, new))

LEMMA StepMoves ==
  ASSUME IInv, NEW w \in Workers, Busy(w), UNCHANGED <<queue, results, host>>,
         NEW new, Effect(w, new), Goes(w, new) \/ Returns(w, new)
  PROVE  /\ Moved(new)
         /\ \A v \in Workers : v # w => work'[v] = work[v] /\ \A p : Sub(v, p)' <=> Sub(v, p)
         /\ Goes(w, new) => \A p : Sub(w, p)' <=> Sub(w, p) \/ Of(new, p)
         /\ Goes(w, new) => work'[w] \in Jobs /\ work'[w].task = work[w].task
         /\ ~ Goes(w, new) => work'[w] = Idle /\ \A p : p = Path(w) => Done(p)'
         /\ work' \in [Workers -> Jobs \cup {Idle}] /\ outbox' \in Seq(TaskResults)
         /\ \A p : Of(new, p) => ~ Tasked(p) /\ InRegion(w, p) /\ p \in Paths
<1>1. /\ TypeOK /\ FsOK(fs) /\ Unique /\ PendingInv /\ RegionInv /\ CleanInv /\ ExistInv /\ LocalInv /\ Quiet
      /\ work[w] # Idle /\ phase = "run"
  BY DEF IInv, Busy, Quiet
<1>2. /\ \A p : Tasked(p) => p \in Paths
      /\ \A p : Pending(p) => Tasked(p)
      /\ \A p : Done(p) => Tasked(p)
      /\ \A v, p : Sub(v, p) => Pending(p)
      /\ \A v \in Workers : Busy(v) => work[v] \in Jobs /\ Path(v) \in Paths /\ Tasked(Path(v))
  BY <1>1, TaskedTypes
<1>3. NewTasks(w, new) /\ FsOK(fs') /\ DOMAIN fs' \subseteq Paths /\ DOMAIN fs \subseteq Paths
  BY <1>1 DEF Effect, FsOK, FileTree
<1>4. ASSUME NEW p, Of(new, p) PROVE ~ Tasked(p) /\ InRegion(w, p) /\ p \in Paths
  <2>1. InRegion(w, p) /\ ~ Under(Path(w), p) /\ ~ Sub(w, p) /\ p \in Paths
    BY <1>3, <1>4 DEF NewTasks, InRegion
  <2>2. p # Path(w)
    BY <1>2, <2>1, UnderOrder
  <2> QED BY <1>1, <2>1, <2>2 DEF RegionInv
<1>5. Fresh(new)
  BY <1>3, <1>4 DEF Fresh, NewTasks, Of
<1>6. /\ Moved(new)
      /\ \A v \in Workers : v # w => work'[v] = work[v] /\ \A p : Sub(v, p)' <=> Sub(v, p)
      /\ Goes(w, new) => \A p : Sub(w, p)' <=> Sub(w, p) \/ Of(new, p)
      /\ Goes(w, new) => work'[w] \in Jobs /\ work'[w].task = work[w].task
      /\ ~ Goes(w, new) => work'[w] = Idle /\ \A p : p = Path(w) => Done(p)'
      /\ work' \in [Workers -> Jobs \cup {Idle}] /\ outbox' \in Seq(TaskResults)
  <2>1. CASE Goes(w, new)
    <3>1. PICK job \in Jobs : /\ Continue(w, job) /\ job.task = work[w].task
                              /\ job.subtasks = work[w].subtasks \o new
      BY <2>1 DEF Goes
    <3>2. /\ Moved(new)
          /\ \A p : Sub(w, p)' <=> Sub(w, p) \/ Of(new, p)
          /\ \A v \in Workers : v # w => work'[v] = work[v] /\ \A p : Sub(v, p)' <=> Sub(v, p)
      BY <1>1, <1>5, <3>1, ContinueMoves
    <3>3. work' = [work EXCEPT ![w] = job] /\ outbox' = outbox /\ work \in [Workers -> Jobs \cup {Idle}]
          /\ outbox \in Seq(TaskResults)
      BY <1>1, <3>1 DEF Continue, TypeOK
    <3>4. work'[w] = job /\ work' \in [Workers -> Jobs \cup {Idle}]
      BY <3>3
    <3> QED BY <2>1, <3>1, <3>2, <3>3, <3>4
  <2>2. CASE ~ Goes(w, new)
    <3>1. PICK job : /\ Return(w, job) /\ ResultOfJob(job) \in TaskResults
                     /\ job.task = work[w].task /\ job.subtasks = work[w].subtasks \o new
      BY <2>2 DEF Returns
    <3>2. /\ Moved(new) /\ \A p : p = work[w].task.path => Done(p)'
          /\ work'[w] = Idle
          /\ \A v \in Workers : v # w => work'[v] = work[v] /\ \A p : Sub(v, p)' <=> Sub(v, p)
      BY <1>1, <1>5, <3>1, ReturnMoves
    <3>3. work' \in [Workers -> Jobs \cup {Idle}] /\ outbox' \in Seq(TaskResults)
      BY <1>1, <3>1, ReturnFacts
    <3> QED BY <2>2, <3>2, <3>3 DEF Path
  <2> QED BY <2>1, <2>2
<1> QED BY <1>4, <1>6

LEMMA StepInv ==
  ASSUME IInv, NEW w \in Workers, Busy(w), UNCHANGED <<queue, results, host>>,
         NEW new, Effect(w, new), Goes(w, new) \/ Returns(w, new)
  PROVE  IInv'
<1>1. /\ TypeOK /\ FsOK(fs) /\ Unique /\ PendingInv /\ RegionInv /\ CleanInv /\ ExistInv /\ LocalInv /\ Quiet
      /\ work[w] # Idle /\ phase = "run"
  BY DEF IInv, Busy, Quiet
<1>2. /\ \A p : Tasked(p) => p \in Paths
      /\ \A p : Pending(p) => Tasked(p)
      /\ \A p : Done(p) => Tasked(p)
      /\ \A v, p : Sub(v, p) => Pending(p)
      /\ \A v \in Workers : Busy(v) => work[v] \in Jobs /\ Path(v) \in Paths /\ Tasked(Path(v))
  BY <1>1, TaskedTypes
<1>3. NewTasks(w, new) /\ FsOK(fs') /\ DOMAIN fs' \subseteq Paths /\ DOMAIN fs \subseteq Paths
  BY <1>1 DEF Effect, FsOK, FileTree
<1>4. \A p : Of(new, p) => ~ Tasked(p) /\ InRegion(w, p) /\ p \in Paths
  BY StepMoves
<1>6. /\ Moved(new)
      /\ \A v \in Workers : v # w => work'[v] = work[v] /\ \A p : Sub(v, p)' <=> Sub(v, p)
      /\ Goes(w, new) => \A p : Sub(w, p)' <=> Sub(w, p) \/ Of(new, p)
      /\ Goes(w, new) => work'[w] \in Jobs /\ work'[w].task = work[w].task
      /\ ~ Goes(w, new) => work'[w] = Idle /\ \A p : p = Path(w) => Done(p)'
      /\ work' \in [Workers -> Jobs \cup {Idle}] /\ outbox' \in Seq(TaskResults)
  BY StepMoves
<1>7. TypeOK'
  BY <1>1, <1>3, <1>6 DEF TypeOK, FsOK, host
<1>8. /\ Unique' /\ \A p : Tasked(p)' => Tasked(p) \/ Of(new, p)
      /\ \A p : Pending(p)' => Pending(p) \/ Of(new, p)
      /\ \A p : Done(p) => Done(p)'
  BY <1>6 DEF Moved
<1>9. \A v \in Workers : v # w /\ Busy(v)' => /\ Busy(v) /\ Path(v)' = Path(v)
                                              /\ \A p : InRegion(v, p)' <=> InRegion(v, p)
  BY <1>6 DEF Busy, Path, InRegion
<1>10. Busy(w)' => Goes(w, new) /\ Path(w)' = Path(w)
  BY <1>6 DEF Busy, Path
<1>11. PendingInv'
  <2> SUFFICES ASSUME NEW d, NEW p, Pending(d)', Tasked(p)', Under(p, d) PROVE p = d
    BY DEF PendingInv
  <2>1. CASE Pending(d) /\ Tasked(p)
    BY <1>1, <2>1 DEF PendingInv
  <2>2. CASE Pending(d) /\ Of(new, p)
    <3>1. CASE Sub(w, d)
      BY <1>3, <2>2, <3>1 DEF NewTasks
    <3>2. CASE ~ Sub(w, d)
      BY <1>1, <1>4, <2>2, <3>2, PendingApart
    <3> QED BY <3>1, <3>2
  <2>3. CASE Of(new, d) /\ Of(new, p)
    BY <1>3, <2>3 DEF NewTasks
  <2>4. CASE Of(new, d) /\ Tasked(p)
    <3>1. InRegion(w, p)
      BY <1>1, <1>2, <1>4, <2>4, RegionDown
    <3>2. p = Path(w) \/ Sub(w, p)
      BY <1>1, <2>4, <3>1 DEF RegionInv
    <3> QED BY <1>3, <2>4, <3>2 DEF NewTasks
  <2> QED BY <1>8, <2>1, <2>2, <2>3, <2>4
<1>12. RegionInv'
  <2> SUFFICES ASSUME NEW v \in Workers, Busy(v)', NEW p, Tasked(p)', InRegion(v, p)'
               PROVE  p = Path(v)' \/ Sub(v, p)'
    BY DEF RegionInv
  <2>1. CASE v # w
    <3>1. Busy(v) /\ InRegion(v, p) /\ Path(v)' = Path(v)
      BY <1>9, <2>1
    <3>2. ~ Of(new, p)
      BY <1>1, <1>4, <2>1, <3>1, WorkersApart
    <3> QED BY <1>1, <1>6, <1>8, <2>1, <3>1, <3>2 DEF RegionInv
  <2>2. CASE v = w
    <3>1. Goes(w, new) /\ Path(w)' = Path(w)
      BY <1>10, <2>2
    <3>2. CASE Of(new, p)
      BY <1>6, <2>2, <3>1, <3>2
    <3>3. CASE Tasked(p)
      <4>1. InRegion(w, p)
        BY <2>2, <3>1, <3>3 DEF Goes
      <4> QED BY <1>1, <1>6, <2>2, <3>1, <3>3, <4>1 DEF RegionInv
    <3> QED BY <1>8, <3>2, <3>3
  <2> QED BY <2>1, <2>2
<1>13. CleanInv'
  <2>1. ASSUME NEW d, Pending(d)' PROVE NoPiece(fs', d)
    <3>1. CASE Of(new, d)
      BY <1>3, <3>1 DEF NewTasks
    <3>2. CASE Pending(d)
      <4>1. NoPiece(fs, d)
        BY <1>1, <3>2 DEF CleanInv
      <4>2. ASSUME NEW p \in DOMAIN fs', Under(p, d) PROVE Same(fs, fs', p)
        <5>1. CASE Sub(w, d)
          BY <4>2, <5>1 DEF Effect
        <5>2. CASE ~ Sub(w, d)
          BY <1>1, <3>2, <4>2, <5>2, PendingApart DEF Effect
        <5> QED BY <5>1, <5>2
      <4> QED BY <4>1, <4>2 DEF NoPiece, Same
    <3> QED BY <1>8, <2>1, <3>1, <3>2
  <2>2. ASSUME NEW v \in Workers, Busy(v)' PROVE NoPiece(fs', Path(v)')
    <3>1. CASE v = w
      BY <1>10, <2>2, <3>1 DEF Goes
    <3>2. CASE v # w
      <4>1. Busy(v) /\ Path(v)' = Path(v) /\ NoPiece(fs, Path(v))
        BY <1>1, <1>9, <2>2, <3>2 DEF CleanInv
      <4>2. ASSUME NEW p \in DOMAIN fs', Under(p, Path(v)) PROVE Same(fs, fs', p)
        <5>1. InRegion(v, p)
          BY <1>3, <4>2 DEF InRegion
        <5> QED BY <1>1, <3>2, <4>1, <5>1, WorkersApart DEF Effect
      <4> QED BY <4>1, <4>2 DEF NoPiece, Same
    <3> QED BY <3>1, <3>2
  <2> QED BY <2>1, <2>2 DEF CleanInv
<1>14. ExistInv'
  <2> SUFFICES ASSUME NEW p, Tasked(p)' PROVE p \in DOMAIN fs' \/ Gone(fs, p)'
    BY DEF ExistInv
  <2>1. CASE Of(new, p)
    BY <1>3, <2>1 DEF NewTasks
  <2>2. CASE Tasked(p) /\ p \in DOMAIN fs
    <3>1. CASE ~ InRegion(w, p)
      BY <2>2, <3>1 DEF Effect, Same
    <3>2. CASE Sub(w, p)
      <4>1. Under(p, p)
        BY <1>2, <2>2, UnderOrder
      <4> QED BY <2>2, <3>2, <4>1 DEF Effect, Same
    <3>3. CASE p = Path(w)
      <4>1. CASE Goes(w, new)
        BY <3>3, <4>1 DEF Goes
      <4>2. CASE ~ Goes(w, new)
        <5>1. Done(p)'
          BY <1>6, <3>3, <4>2
        <5>2. p \in DOMAIN fs' \/ (Last(p).ext = 0 /\ Room(fs', p))
          BY <3>3, <4>2 DEF Returns
        <5> QED BY <5>1, <5>2 DEF Gone
      <4> QED BY <4>1, <4>2
    <3> QED BY <1>1, <2>2, <3>1, <3>2, <3>3 DEF RegionInv
  <2>3. CASE Tasked(p) /\ Gone(fs, p)
    <3>1. p # Path(w) /\ ~ Sub(w, p)
      <4>1. At("work", w, 0, Path(w))
        BY <1>1 DEF At, Path
      <4> QED BY <1>1, <2>3, <4>1 DEF Unique, Gone, Done, Sub
    <3>2. ~ InRegion(w, p)
      BY <1>1, <2>3, <3>1 DEF RegionInv
    <3>3. ASSUME NEW x \in Paths, Under(p, x), x # p PROVE x \in DOMAIN fs' /\ fs'[x] = "dir"
      <4>1. ~ InRegion(w, x)
        BY <1>1, <1>2, <2>3, <3>2, <3>3, RegionDown
      <4>2. Same(fs, fs', x)
        BY <4>1 DEF Effect
      <4> QED BY <2>3, <3>3, <4>2 DEF Gone, Room, Same
    <3>4. Done(p)' /\ Last(p).ext = 0
      BY <1>8, <2>3 DEF Gone
    <3> QED BY <3>3, <3>4 DEF Gone, Room
  <2> QED BY <1>1, <1>8, <2>1, <2>2, <2>3 DEF ExistInv
<1>15. LocalInv'
  <2> SUFFICES ASSUME NEW v \in Workers, Busy(v)' PROVE Local(v)'
    BY DEF LocalInv
  <2>1. CASE v = w
    BY <1>10, <2>1 DEF Goes
  <2>2. CASE v # w
    <3>1. Busy(v) /\ Local(v) /\ work'[v] = work[v] /\ config' = config /\ \A p : Sub(v, p)' <=> Sub(v, p)
      BY <1>1, <1>6, <1>9, <2>2 DEF LocalInv, host
    <3>2. \A p : InRegion(v, p) => Same(fs, fs', p)
      BY <1>1, <2>2, <3>1, WorkersApart DEF Effect
    <3> QED BY <1>1, <1>3, <3>1, <3>2, LocalFrame
  <2> QED BY <2>1, <2>2
<1>16. Quiet'
  BY <1>1 DEF Quiet, host
<1>17. Plain(fs')
  BY DEF Effect
<1>18. Plain(fs)' /\ FsOK(fs)'
  BY <1>3, <1>17 DEF Plain, Deleting
<1> QED BY <1>7, <1>8, <1>11, <1>12, <1>13, <1>14, <1>15, <1>16, <1>18 DEF IInv

-----------------------------------------------------------------------------
(* Jobs                                                                    *)

\* The fields of a job that most steps leave alone.
Kin(a, b) == a.task = b.task /\ a.content = b.content /\ a.subtasks = b.subtasks

LEMMA JobMulti ==
  ASSUME NEW job \in Jobs, NEW d \in Paths
  PROVE  LET new == [job EXCEPT !.pc = "multi", !.extract_dir = d] IN
         /\ new \in Jobs /\ Kin(new, job) /\ new.pc = "multi" /\ new.todo = job.todo /\ new.src = job.src
         /\ new.processed = job.processed /\ new.extract_dirs = job.extract_dirs
BY DEF Jobs, Kin, Pcs

LEMMA JobCarve ==
  ASSUME NEW job \in Jobs, NEW d \in Paths
  PROVE  LET new == [job EXCEPT !.carve_dir = d] IN
         new \in Jobs /\ Kin(new, job) /\ new.pc = job.pc /\ new.todo = job.todo
BY DEF Jobs, Kin

LEMMA JobPc ==
  ASSUME NEW job \in Jobs, NEW pc \in Pcs
  PROVE  LET new == [job EXCEPT !.pc = pc] IN
         /\ new \in Jobs /\ Kin(new, job) /\ new.pc = pc /\ new.todo = job.todo /\ new.src = job.src
         /\ new.processed = job.processed /\ new.extract_dirs = job.extract_dirs
BY DEF Jobs, Kin

LEMMA JobNext ==
  ASSUME NEW job \in Jobs, NEW pc \in Pcs
  PROVE  LET new == [job EXCEPT !.pc = pc, !.todo = @ + 1] IN
         /\ new \in Jobs /\ Kin(new, job) /\ new.pc = pc /\ new.todo = job.todo + 1 /\ new.src = job.src
         /\ new.processed = job.processed /\ new.extract_dirs = job.extract_dirs
<1> DEFINE t == job.todo + 1
<1>1. t \in Nat \ {0}
  BY DEF Jobs
<1>2. [job EXCEPT !.pc = pc, !.todo = @ + 1] = [job EXCEPT !.pc = pc, !.todo = t]
  BY Zenon
<1> HIDE DEF t
<1>3. LET new == [job EXCEPT !.pc = pc, !.todo = t] IN
      /\ new \in Jobs /\ Kin(new, job) /\ new.pc = pc /\ new.todo = t /\ new.src = job.src
      /\ new.processed = job.processed /\ new.extract_dirs = job.extract_dirs
  BY <1>1, Zenon DEF Jobs, Kin
<1> QED BY <1>2, <1>3, Zenon DEF t

LEMMA JobTodo ==
  ASSUME NEW job \in Jobs
  PROVE  LET new == [job EXCEPT !.todo = @ + 1] IN
         /\ new \in Jobs /\ Kin(new, job) /\ new.pc = job.pc /\ new.todo = job.todo + 1 /\ new.src = job.src
         /\ new.processed = job.processed /\ new.extract_dirs = job.extract_dirs
BY DEF Jobs, Kin

LEMMA JobReport ==
  ASSUME NEW job \in Jobs, NEW r \in Reports
  PROVE  LET new == Report(job, r) IN
         /\ new \in Jobs /\ Kin(new, job) /\ new.pc = job.pc /\ new.todo = job.todo /\ new.src = job.src
         /\ new.processed = job.processed /\ new.extract_dirs = job.extract_dirs
BY DEF Jobs, Kin, Report

LEMMA JobSpawn ==
  ASSUME NEW job \in Jobs, NEW tasks \in Seq(Tasks)
  PROVE  LET new == Spawn(job, tasks) IN
         /\ new \in Jobs /\ new.task = job.task /\ new.content = job.content
         /\ new.subtasks = job.subtasks \o tasks
         /\ new.pc = job.pc /\ new.todo = job.todo /\ new.src = job.src
         /\ new.processed = job.processed /\ new.extract_dirs = job.extract_dirs
<1>1. job.subtasks \in Seq(Tasks)
  BY DEF Jobs
<1>2. job.subtasks \o tasks \in Seq(Tasks)
  BY <1>1
<1> DEFINE s == job.subtasks \o tasks
<1>3. Spawn(job, tasks) = [job EXCEPT !.subtasks = s]
  BY DEF Spawn
<1>4. s \in Seq(Tasks)
  BY <1>2
<1> HIDE DEF s
<1>5. LET new == [job EXCEPT !.subtasks = s] IN
      /\ new \in Jobs /\ new.task = job.task /\ new.content = job.content
      /\ new.subtasks = s
      /\ new.pc = job.pc /\ new.todo = job.todo /\ new.src = job.src
      /\ new.processed = job.processed /\ new.extract_dirs = job.extract_dirs
  BY <1>4 DEF Jobs
<1> QED BY <1>3, <1>5 DEF s

LEMMA JobProcessed ==
  ASSUME NEW job \in Jobs, NEW S \in SUBSET Paths
  PROVE  LET new == [job EXCEPT !.processed = @ \cup S, !.todo = @ + 1, !.pc = "dir_handler"] IN
         /\ new \in Jobs /\ Kin(new, job) /\ new.pc = "dir_handler" /\ new.todo = job.todo + 1
         /\ new.src = job.src
         /\ new.processed = job.processed \cup S /\ new.extract_dirs = job.extract_dirs
<1> DEFINE t == job.todo + 1  done == job.processed \cup S
<1>1. t \in Nat \ {0} /\ done \in SUBSET Paths /\ "dir_handler" \in Pcs
  BY DEF Jobs, Pcs
<1>2. [job EXCEPT !.processed = @ \cup S, !.todo = @ + 1, !.pc = "dir_handler"]
        = [job EXCEPT !.processed = done, !.todo = t, !.pc = "dir_handler"]
  BY Zenon
<1> HIDE DEF t, done
<1>3. LET new == [job EXCEPT !.processed = done, !.todo = t, !.pc = "dir_handler"] IN
      /\ new \in Jobs /\ Kin(new, job) /\ new.pc = "dir_handler" /\ new.todo = t /\ new.src = job.src
      /\ new.processed = done /\ new.extract_dirs = job.extract_dirs
  BY <1>1, Zenon DEF Jobs, Kin
<1> QED BY <1>2, <1>3, Zenon DEF t, done

LEMMA JobExtracted ==
  ASSUME NEW job \in Jobs, NEW d \in Paths
  PROVE  LET new == [job EXCEPT !.extract_dirs = @ \cup {d}] IN
         /\ new \in Jobs /\ Kin(new, job) /\ new.pc = job.pc /\ new.todo = job.todo /\ new.src = job.src
         /\ new.processed = job.processed /\ new.extract_dirs = job.extract_dirs \cup {d}
BY DEF Jobs, Kin

LEMMA JobResult ==
  ASSUME NEW job \in Jobs
  PROVE  ResultOfJob(job) \in TaskResults
BY DEF Jobs, TaskResults, ResultOfJob

LEMMA NoneAdded ==
  ASSUME NEW s \in Seq(Tasks)
  PROVE  s = s \o <<>>
OBVIOUS

LEMMA SubAfter ==
  ASSUME TypeOK, NEW w \in Workers, Busy(w), NEW job \in Jobs, NEW new \in Seq(Tasks),
         job.subtasks = work[w].subtasks \o new, Continue(w, job)
  PROVE  work'[w] = job /\ \A p : Sub(w, p)' <=> Sub(w, p) \/ Of(new, p)
<1> DEFINE s == work[w].subtasks
           u == s \o new
           n == Len(s)
<1>1. work[w] \in Jobs /\ work[w] # Idle /\ job # Idle /\ s \in Seq(Tasks) /\ work'[w] = job
  BY IdleAssumption DEF TypeOK, Busy, Jobs, Continue
<1>2. /\ n \in Nat
      /\ \A i \in DOMAIN u : \/ i \in DOMAIN s /\ u[i] = s[i]
                             \/ \E j \in DOMAIN new : i = n + j /\ u[i] = new[j] /\ i \notin DOMAIN s
      /\ \A i \in DOMAIN s : i \in DOMAIN u /\ u[i] = s[i]
      /\ \A j \in DOMAIN new : n + j \in DOMAIN u /\ u[n + j] = new[j]
  <2> HIDE DEF s
  <2> QED BY <1>1, ConcatCases
<1>3. \A p : Sub(w, p) <=> \E i \in DOMAIN s : p = s[i].path
  BY <1>1 DEF Sub, At
<1>4. \A p : Sub(w, p)' <=> \E i \in DOMAIN job.subtasks : p = job.subtasks[i].path
  BY <1>1 DEF Sub, At
<1>5. job.subtasks = u
  OBVIOUS
<1> HIDE DEF s, u, n
<1>6. ASSUME NEW p, Sub(w, p)' PROVE Sub(w, p) \/ Of(new, p)
  BY <1>2, <1>3, <1>4, <1>5, <1>6 DEF Of
<1>7. ASSUME NEW p, Sub(w, p) PROVE Sub(w, p)'
  BY <1>2, <1>3, <1>4, <1>5, <1>7
<1>8. ASSUME NEW p, Of(new, p) PROVE Sub(w, p)'
  <2>1. PICK j \in DOMAIN new : p = new[j].path
    BY <1>8 DEF Of
  <2>2. PICK i : i \in DOMAIN u /\ u[i] = new[j]
    BY <1>2, <2>1
  <2> QED BY <1>4, <1>5, <2>1, <2>2
<1> QED BY <1>1, <1>6, <1>7, <1>8

LEMMA SubSame ==
  ASSUME TypeOK, NEW w \in Workers, Busy(w), NEW job \in Jobs, Kin(job, work[w]), Continue(w, job)
  PROVE  /\ work'[w] = job /\ Path(w)' = Path(w)
         /\ \A p : Sub(w, p)' <=> Sub(w, p)
         /\ job.task = work[w].task /\ job.subtasks = work[w].subtasks \o <<>>
<1>1. work[w].subtasks \in Seq(Tasks)
  BY DEF TypeOK, Busy, Jobs
<1>2. job.subtasks = work[w].subtasks \o <<>> /\ job.task = work[w].task
  BY <1>1, NoneAdded DEF Kin
<1>3. work'[w] = job /\ \A p : Sub(w, p)' <=> Sub(w, p) \/ Of(<<>>, p)
  <2> DEFINE e == <<>>
  <2>1. e \in Seq(Tasks) /\ job.subtasks = work[w].subtasks \o e
    BY <1>2
  <2> HIDE DEF e
  <2>2. work'[w] = job /\ \A p : Sub(w, p)' <=> Sub(w, p) \/ Of(e, p)
    BY <2>1, SubAfter
  <2> QED BY <2>2 DEF e
<1> QED BY <1>2, <1>3 DEF Of, Path

\* What a worker has is there.
LEMMA OwnExists ==
  ASSUME IInv, NEW w \in Workers, Busy(w)
  PROVE  /\ work[w] \in Jobs /\ work[w].subtasks \in Seq(Tasks)
         /\ Path(w) \in DOMAIN fs /\ Path(w) \in Paths /\ Tasked(Path(w)) /\ ~ Done(Path(w))
         /\ \A p : Sub(w, p) => p \in DOMAIN fs /\ p \in Paths /\ Pending(p) /\ NoPiece(fs, p)
<1>1. /\ TypeOK /\ Unique /\ ExistInv /\ CleanInv
  BY DEF IInv
<1>2. work[w] \in Jobs /\ Path(w) \in Paths /\ Tasked(Path(w)) /\ At("work", w, 0, Path(w))
  BY <1>1, TaskedTypes DEF At, Busy, Path
<1>3. ~ Done(Path(w))
  BY <1>1, <1>2 DEF Unique, Done
<1>4. ASSUME NEW p, Sub(w, p) PROVE p \in DOMAIN fs /\ p \in Paths /\ Pending(p) /\ NoPiece(fs, p)
  <2>1. Pending(p) /\ Tasked(p) /\ p \in Paths
    BY <1>1, <1>4, TaskedTypes
  <2>2. ~ Done(p)
    BY <1>1, <1>4 DEF Unique, Done, Sub
  <2> QED BY <1>1, <2>1, <2>2 DEF ExistInv, Gone, CleanInv
<1>5. Path(w) \in DOMAIN fs
  BY <1>1, <1>2, <1>3 DEF ExistInv, Gone
<1>6. work[w].subtasks \in Seq(Tasks)
  BY <1>2 DEF Jobs
<1> QED BY <1>2, <1>3, <1>4, <1>5, <1>6

LEMMA NewNone ==
  ASSUME NEW w
  PROVE  NewTasks(w, <<>>)
BY DEF NewTasks, Of

LEMMA EffectNone ==
  ASSUME IInv, NEW w \in Workers, fs' = fs
  PROVE  Effect(w, <<>>)
BY NewNone DEF Effect, IInv, Same

LEMMA QuitOK ==
  ASSUME IInv, NEW w \in Workers, Busy(w), UNCHANGED <<queue, results, host>>, fs' = fs,
         NEW job \in Jobs, Kin(job, work[w]), Return(w, job)
  PROVE  StepOK(w)
<1>1. job.task = work[w].task /\ job.subtasks = work[w].subtasks \o <<>> /\ ResultOfJob(job) \in TaskResults
  BY OwnExists, NoneAdded, JobResult DEF Kin
<1>2. Returns(w, <<>>)
  BY <1>1, OwnExists DEF Returns
<1> QED BY <1>2, EffectNone DEF StepOK

LEMMA GoOK ==
  ASSUME IInv, NEW w \in Workers, Busy(w), UNCHANGED <<queue, results, host>>, fs' = fs,
         NEW job \in Jobs, Kin(job, work[w]), Continue(w, job),
         Local(w)', \A p : Tasked(p) /\ InRegion(w, p)' => InRegion(w, p)
  PROVE  StepOK(w)
<1>1. job.task = work[w].task /\ job.subtasks = work[w].subtasks \o <<>>
  BY OwnExists, NoneAdded DEF Kin
<1>2. NoPiece(fs', Path(w)) /\ Path(w) \in DOMAIN fs'
  BY OwnExists DEF IInv, CleanInv
<1>3. Goes(w, <<>>)
  BY <1>1, <1>2 DEF Goes
<1> QED BY <1>3, EffectNone DEF StepOK

\* A worker that is engaged stays in its region.
LEMMA SameRegion ==
  ASSUME NEW w \in Workers, work'[w].task = work[w].task, Engaged(work[w]) \/ ~ Engaged(work'[w])
  PROVE  \A p : InRegion(w, p)' => InRegion(w, p)
<1>1. Path(w)' = Path(w) /\ CarveDir(work'[w]) = CarveDir(work[w])
  BY DEF Path, CarveDir
<1>2. Engaged(work[w])' = Engaged(work'[w])
  BY DEF Engaged, Whole
<1> QED BY <1>1, <1>2 DEF InRegion

\* The local invariant after a step, of a worker on a file.
FileNext(w, job) ==
  LET c == CarveDir(job)
      d == Beside(job.src)
  IN
  /\ job.pc \in FilePcs /\ job.content \in Files
  /\ job.task.path \in DOMAIN fs' /\ fs'[job.task.path] = job.content
  /\ job.todo \in 1..Len(Chunks(job.content))
  /\ job.pc = "unknown" => c \notin DOMAIN fs' /\ \A p : ~ Sub(w, p)'
  /\ job.pc = "carve" => (c \in DOMAIN fs' => fs'[c] = "dir") /\ \A p : Sub(w, p)' => Child(p, c)
  /\ job.pc \in {"check", "mkdir", "extract", "settle"} =>
       \/ Whole(job) /\ \A p : ~ Sub(w, p)'
       \/ /\ job.src = ChunkPath(job, job.todo) /\ job.src \in DOMAIN fs' /\ fs'[job.src] = "piece"
          /\ \A p : Sub(w, p)' => Child(p, c)
  /\ job.pc \in {"mkdir", "extract", "settle"} => (\A p : Sub(w, p)' => p # d) /\ NoPiece(fs', d)
  /\ job.pc = "mkdir" => d \notin DOMAIN fs'
  /\ job.pc = "extract" => d \in DOMAIN fs' /\ fs'[d] = "dir" /\ Bare(fs', d)
  /\ job.pc = "delete" => /\ Whole(job) /\ config'.delete # "none" /\ job.task.depth # 0
                          /\ \A p : Sub(w, p)' => p = c

LEMMA FileNextLocal ==
  ASSUME NEW w \in Workers, NEW job, work'[w] = job, FileNext(w, job)
  PROVE  Local(w)'
<1> DEFINE d == Beside(job.src)
<1>1. Path(w)' = job.task.path
  BY DEF Path
<1>2. job.pc \in {"mkdir", "extract", "settle"} => ~ Sub(w, Beside(work[w].src))' /\ NoPiece(fs', d)
  <2>1. \A p : p = d => (Sub(w, p)' <=> Sub(w, Beside(work[w].src))')
    BY DEF Sub, At
  <2> QED BY <2>1 DEF FileNext
<1>3. FileLocal(w)'
  BY <1>1, <1>2 DEF FileNext, FileLocal
<1> QED BY <1>3 DEF Local, FileNext

LEMMA OwnFile ==
  ASSUME IInv, NEW w \in Workers, Busy(w), work[w].pc \in FilePcs
  PROVE  /\ TypeOK /\ FsOK(fs) /\ Local(w) /\ FileLocal(w) /\ work[w] \in Jobs
         /\ work[w].task.path = Path(w) /\ Path(w) \in Paths /\ NoPiece(fs, Path(w))
         /\ CarveDir(work[w]) \in Paths /\ CarveDir(work[w]) = Beside(Path(w))
         /\ Room(fs, CarveDir(work[w])) /\ DOMAIN fs \subseteq Paths
<1>1. TypeOK /\ FsOK(fs) /\ LocalInv /\ CleanInv
  BY DEF IInv
<1>2. Local(w) /\ FileLocal(w) /\ Path(w) \in DOMAIN fs /\ NoPiece(fs, Path(w))
  BY <1>1 DEF LocalInv, Local, FileLocal, CleanInv
<1>3. DOMAIN fs \subseteq Paths /\ work[w].task.path = Path(w)
  BY <1>1 DEF FsOK, FileTree, Path
<1>4. CarveDir(work[w]) \in Paths /\ CarveDir(work[w]) = Beside(Path(w))
  BY <1>2, <1>3, BesideFacts DEF CarveDir
<1> QED BY <1>1, <1>2, <1>3, <1>4, OwnExists, RoomBeside

\* A step that goes on with a task, without a new one.
LEMMA KeepsGoing ==
  ASSUME IInv, NEW w \in Workers, Busy(w), UNCHANGED <<queue, results, host>>,
         NEW job \in Jobs, Kin(job, work[w]), Continue(w, job), Effect(w, <<>>),
         Path(w) \in DOMAIN fs', NoPiece(fs', Path(w)), Local(w)',
         \A p : Tasked(p) /\ InRegion(w, p)' => InRegion(w, p)
  PROVE  StepOK(w)
<1>1. job.task = work[w].task /\ job.subtasks = work[w].subtasks \o <<>>
  BY OwnExists, NoneAdded DEF Kin
<1>2. Goes(w, <<>>)
  BY <1>1 DEF Goes
<1> QED BY <1>2 DEF StepOK

-----------------------------------------------------------------------------
(* Carving                                                                 *)

LEMMA WithDir ==
  ASSUME NEW f, FsOK(f), NEW c \in Paths, Room(f, c), c \in DOMAIN f => f[c] = "dir",
         NEW g, g = With(f, {c}, "dir")
  PROVE  /\ FsOK(g) /\ DOMAIN g = DOMAIN f \cup {c}
         /\ \A p \in DOMAIN f : g[p] = f[p]
         /\ g[c] = "dir"
<1>1. "dir" \in Nodes
  BY DEF Nodes
<1>2. /\ DOMAIN g = DOMAIN f \cup {c}
      /\ \A p \in DOMAIN f : g[p] = f[p]
      /\ g[c] = "dir"
  BY DEF With
<1>3. CASE c \notin DOMAIN f
  <2>1. IsFiniteSet({c}) /\ {c} \subseteq Paths /\ (\A p \in {c} : p \notin DOMAIN f /\ Room(f, p))
    BY <1>3, FS_Singleton
  <2>2. FsOK(g)
    BY <1>1, <2>1, WithFacts
  <2> QED BY <1>2, <2>2
<1>4. CASE c \in DOMAIN f
  <2>1. f \in [DOMAIN f -> Nodes]
    BY DEF FsOK, FileTree
  <2>2. g = [p \in DOMAIN f |-> f[p]]
    <3>1. DOMAIN f \cup {c} = DOMAIN f
      BY <1>4
    <3> QED BY <3>1 DEF With
  <2>3. g = f
    BY <2>1, <2>2
  <2> QED BY <1>4, <2>3
<1> QED BY <1>3, <1>4

LEMMA PiecesIn ==
  ASSUME NEW f, NEW c \in Paths, NEW g, FsOK(g),
         DOMAIN g = DOMAIN f \cup {c}, \A p \in DOMAIN f : g[p] = f[p], g[c] = "dir",
         NEW files, IsFiniteSet(files), files \subseteq Paths, \A p \in files : Child(p, c) /\ p \notin DOMAIN f,
         NEW h, h = With(g, files, "piece")
  PROVE  /\ FsOK(h) /\ DOMAIN f \subseteq DOMAIN h
         /\ \A p \in DOMAIN f : h[p] = f[p]
         /\ \A p \in files : p \in DOMAIN h /\ h[p] = "piece"
         /\ \A p \in DOMAIN h \ DOMAIN f : (p = c /\ h[p] = "dir") \/ p \in files
<1>1. "piece" \in Nodes
  BY DEF Nodes
<1>2. \A p \in files : p \notin DOMAIN g /\ Room(g, p)
  BY RoomInDir, ChildFacts
<1>3. FsOK(h)
  BY <1>1, <1>2, WithFacts
<1>4. /\ DOMAIN h = DOMAIN g \cup files /\ (\A p \in DOMAIN g : h[p] = g[p])
      /\ \A p \in files : h[p] = "piece"
  BY <1>2 DEF With
<1> QED BY <1>3, <1>4

LEMMA WithPieces ==
  ASSUME NEW f, FsOK(f), NEW c \in Paths, Room(f, c), c \in DOMAIN f => f[c] = "dir",
         NEW files, IsFiniteSet(files), files \subseteq Paths, \A p \in files : Child(p, c) /\ p \notin DOMAIN f
  PROVE  \A g : g = With(f, {c}, "dir") => \A h : h = With(g, files, "piece") =>
           /\ FsOK(h) /\ DOMAIN f \subseteq DOMAIN h
           /\ \A p \in DOMAIN f : h[p] = f[p]
           /\ \A p \in files : p \in DOMAIN h /\ h[p] = "piece"
           /\ \A p \in DOMAIN h \ DOMAIN f : (p = c /\ h[p] = "dir") \/ p \in files
<1>1. \A g : g = With(f, {c}, "dir") =>
        FsOK(g) /\ DOMAIN g = DOMAIN f \cup {c} /\ (\A p \in DOMAIN f : g[p] = f[p]) /\ g[c] = "dir"
  BY WithDir
<1> SUFFICES ASSUME NEW g, FsOK(g), DOMAIN g = DOMAIN f \cup {c}, \A p \in DOMAIN f : g[p] = f[p], g[c] = "dir"
             PROVE  \A h : h = With(g, files, "piece") =>
                      /\ FsOK(h) /\ DOMAIN f \subseteq DOMAIN h
                      /\ \A p \in DOMAIN f : h[p] = f[p]
                      /\ \A p \in files : p \in DOMAIN h /\ h[p] = "piece"
                      /\ \A p \in DOMAIN h \ DOMAIN f : (p = c /\ h[p] = "dir") \/ p \in files
  BY <1>1, Zenon
<1> QED BY PiecesIn

LEMMA WithNone ==
  ASSUME NEW f, FsOK(f)
  PROVE  With(With(f, {}, "dir"), {}, "piece") = f
<1>1. f \in [DOMAIN f -> Nodes]
  BY DEF FsOK, FileTree
<1>2. With(f, {}, "dir") = [p \in DOMAIN f |-> f[p]] /\ With(f, {}, "piece") = [p \in DOMAIN f |-> f[p]]
  <2>1. DOMAIN f \cup {} = DOMAIN f
    OBVIOUS
  <2> QED BY <2>1 DEF With
<1> QED BY <1>1, <1>2

LEMMA CarveEffect ==
  ASSUME IInv, NEW w \in Workers, Busy(w), work[w].pc \in {"unknown", "carve"},
         NEW files, IsFiniteSet(files), \A p \in files : \E n \in Names : p = Append(CarveDir(work[w]), n),
         \A p \in files : ~ Exists(p),
         fs' = With(With(fs, IF files = {} THEN {} ELSE {CarveDir(work[w])}, "dir"), files, "piece")
  PROVE  /\ Effect(w, <<>>) /\ NoPiece(fs', Path(w)) /\ DOMAIN fs \subseteq DOMAIN fs'
         /\ \A p \in DOMAIN fs : fs'[p] = fs[p]
         /\ \A p \in files : p \in DOMAIN fs' /\ fs'[p] = "piece"
         /\ CarveDir(work[w]) \in DOMAIN fs' => fs'[CarveDir(work[w])] = "dir"
<1> DEFINE c == CarveDir(work[w])
<1>1. work[w].pc \in FilePcs /\ Engaged(work[w])
  BY DEF FilePcs, Engaged
<1>2. /\ TypeOK /\ FsOK(fs) /\ FileLocal(w) /\ Path(w) \in Paths /\ NoPiece(fs, Path(w)) /\ c \in Paths
      /\ c = Beside(Path(w)) /\ Room(fs, c) /\ DOMAIN fs \subseteq Paths /\ Local(w)
  BY <1>1, OwnFile
<1>3. (c \in DOMAIN fs => fs[c] = "dir") /\ \A p : Sub(w, p) => Child(p, c)
  BY <1>2 DEF FileLocal
<1>4. "dir" \notin Files /\ "piece" \notin Files
  BY ProcessingAssumption
<1> HIDE DEF c
<1>5. \A p \in files : p \in Paths /\ Child(p, c) /\ p # c /\ Len(p) # 1 /\ p \notin DOMAIN fs
  <2> SUFFICES ASSUME NEW p \in files PROVE p \in Paths /\ Child(p, c) /\ p # c /\ Len(p) # 1
    BY DEF Exists
  <2>1. PICK n \in Names : p = Append(c, n)
    BY DEF c
  <2>2. p \in Paths /\ Child(p, c)
    BY <1>2, <2>1, AppendFacts
  <2>3. p # c
    BY <1>2, <2>2, ChildFacts
  <2>4. Len(p) # 1
    BY <1>2, <2>2 DEF Child, Paths
  <2> QED BY <2>2, <2>3, <2>4
<1>6. files \subseteq Paths
  BY <1>5
<1>9. /\ FsOK(fs') /\ DOMAIN fs \subseteq DOMAIN fs'
      /\ \A p \in DOMAIN fs : fs'[p] = fs[p]
      /\ \A p \in files : p \in DOMAIN fs' /\ fs'[p] = "piece"
      /\ \A p \in DOMAIN fs' \ DOMAIN fs : (p = c /\ fs'[p] = "dir") \/ p \in files
  <2>1. CASE files = {}
    <3>1. fs' = fs
      BY <1>2, <2>1, WithNone
    <3> QED BY <1>2, <2>1, <3>1
  <2>2. CASE files # {}
    <3>1. \A p \in files : Child(p, c) /\ p \notin DOMAIN fs
      BY <1>5
    <3>2. \A g, h : g = With(fs, {c}, "dir") /\ h = With(g, files, "piece") =>
            /\ FsOK(h) /\ DOMAIN fs \subseteq DOMAIN h
            /\ \A p \in DOMAIN fs : h[p] = fs[p]
            /\ \A p \in files : p \in DOMAIN h /\ h[p] = "piece"
            /\ \A p \in DOMAIN h \ DOMAIN fs : (p = c /\ h[p] = "dir") \/ p \in files
      BY <1>2, <1>3, <1>6, <3>1, WithPieces
    <3>3. fs' = With(With(fs, {c}, "dir"), files, "piece")
      BY <2>2 DEF c
    <3> QED BY <3>2, <3>3
  <2> QED BY <2>1, <2>2
<1>10. DOMAIN fs \subseteq DOMAIN fs' /\ \A p \in DOMAIN fs : fs'[p] = fs[p]
  BY <1>9
<1>11. \A p \in DOMAIN fs' \ DOMAIN fs : (p = c /\ fs'[p] = "dir") \/ (p \in files /\ fs'[p] = "piece")
  BY <1>9
<1>12. \A p \in files \cup {c} : InRegion(w, p) /\ ~ Under(p, Path(w))
  <2>1. InRegion(w, c)
    BY <1>1, <1>2, UnderOrder DEF InRegion, c
  <2>2. \A p \in files \cup {c} : p \in Paths /\ Under(p, c)
    BY <1>2, <1>5, ChildFacts, UnderOrder
  <2> QED BY <1>2, <2>1, <2>2, RegionDown, BesideFacts
<1>13. NoPiece(fs', Path(w))
  BY <1>2, <1>10, <1>11, <1>12 DEF NoPiece
<1>14. c \in DOMAIN fs' => fs'[c] = "dir"
  BY <1>3, <1>5, <1>10, <1>11
<1>15. \A p : ~ InRegion(w, p) => Same(fs, fs', p)
  BY <1>10, <1>11, <1>12 DEF Same
<1>16. ASSUME NEW p, NEW d, Sub(w, d), Under(p, d) PROVE Same(fs, fs', p)
  <2>1. d \in DOMAIN fs /\ d \in Paths /\ Child(d, c)
    BY <1>3, <1>16, OwnExists
  <2>2. p # c
    BY <1>2, <1>16, <2>1, ChildFacts
  <2>3. p \notin files
    BY <1>2, <1>5, <1>16, <2>1, ChildFacts
  <2> QED BY <1>10, <1>11, <2>2, <2>3 DEF Same
<1>17. Plain(fs')
  BY <1>4, <1>10, <1>11 DEF Plain, IInv
<1>18. \A p \in DOMAIN fs' \ DOMAIN fs : Len(p) = 1 => fs'[p] = "dir"
  BY <1>5, <1>11
<1>19. Effect(w, <<>>)
  BY <1>9, <1>10, <1>15, <1>16, <1>17, <1>18, NewNone DEF Effect
<1> QED BY <1>9, <1>10, <1>13, <1>14, <1>19 DEF c

LEMMA UnknownFiles ==
  ASSUME NEW c \in Paths, NEW U, U \subseteq Names, IsFiniteSet(U)
  PROVE  IsFiniteSet({Append(c, n) : n \in U})
<1> DEFINE S == {Append(c, n) : n \in U}
           f == [n \in U |-> Append(c, n)]
<1>1. f \in Surjection(U, S)
  BY DEF Surjection
<1> HIDE DEF S, f
<1>2. IsFiniteSet(S)
  BY <1>1, FS_Surjection
<1> QED BY <1>2 DEF S

LEMMA CarveUnknownOK ==
  ASSUME IInv, NEW w \in Workers, CarveUnknownHere(w)
  PROVE  StepOK(w)
<1> DEFINE job == work[w]  c == CarveDir(job)  files == UnknownPaths(job)
<1>1. /\ Busy(w) /\ job.pc = "unknown" /\ job.pc \in FilePcs /\ UNCHANGED <<queue, results, host>>
      /\ CarveHere(w, job, files, [job EXCEPT !.pc = "carve"])
  BY DEF CarveUnknownHere, Busy, FilePcs
<1>2. /\ TypeOK /\ job \in Jobs /\ FileLocal(w) /\ job.task.path = Path(w) /\ Path(w) \in DOMAIN fs
      /\ c \in Paths /\ job.content \in Files /\ fs[Path(w)] = job.content
      /\ job.todo \in 1..Len(Chunks(job.content)) /\ \A p : ~ Sub(w, p)
  BY <1>1, OwnFile DEF FileLocal
<1>3. IsFiniteSet(files) /\ \A p \in files : \E n \in Names : p = Append(c, n)
  <2>1. Content[job.content].unknown \subseteq Names /\ IsFiniteSet(Content[job.content].unknown)
    BY <1>2, ContentFacts
  <2>2. files = {Append(c, n) : n \in Content[job.content].unknown}
    BY DEF UnknownPaths
  <2> HIDE DEF files, c
  <2>3. IsFiniteSet(files)
    BY <1>2, <2>1, <2>2, UnknownFiles
  <2> QED BY <2>1, <2>2, <2>3
<1>4. CASE \E p \in files : Exists(p)
  <2>1. Return(w, Report(job, "UnknownError")) /\ fs' = fs
    BY <1>1, <1>4 DEF CarveHere
  <2>2. Report(job, "UnknownError") \in Jobs /\ Kin(Report(job, "UnknownError"), job)
    <3>1. "UnknownError" \in Reports /\ job \in Jobs
      BY <1>2 DEF Reports
    <3> QED BY <3>1, JobReport
  <2> QED BY <1>1, <2>1, <2>2, QuitOK
<1>5. CASE ~ \E p \in files : Exists(p)
  <2> DEFINE new == [job EXCEPT !.pc = "carve"]
  <2>1. /\ Continue(w, new)
        /\ fs' = With(With(fs, IF files = {} THEN {} ELSE {c}, "dir"), files, "piece")
    BY <1>1, <1>5 DEF CarveHere
  <2>2. new \in Jobs /\ Kin(new, job) /\ new.pc = "carve" /\ new.todo = job.todo
    <3>1. "carve" \in Pcs
      BY DEF Pcs
    <3> QED BY <1>2, <3>1, JobPc
  <2> HIDE DEF new, files
  <2>3. /\ Effect(w, <<>>) /\ NoPiece(fs', Path(w)) /\ DOMAIN fs \subseteq DOMAIN fs'
        /\ \A p \in DOMAIN fs : fs'[p] = fs[p]
        /\ c \in DOMAIN fs' => fs'[c] = "dir"
    BY <1>1, <1>3, <1>5, <2>1, CarveEffect
  <2>4. work'[w] = new /\ \A p : ~ Sub(w, p)'
    BY <1>1, <1>2, <2>1, <2>2, SubSame
  <2>5. FileNext(w, new)
    BY <1>2, <2>2, <2>3, <2>4 DEF FileNext, FilePcs, Kin, CarveDir
  <2>6. Local(w)'
    BY <2>4, <2>5, FileNextLocal
  <2>7. \A p : InRegion(w, p)' => InRegion(w, p)
    <3>1. work'[w].task = work[w].task /\ Engaged(work[w])
      BY <1>1, <2>2, <2>4 DEF Engaged, Kin
    <3> QED BY <3>1, SameRegion
  <2> QED BY <1>1, <1>2, <2>1, <2>2, <2>3, <2>6, <2>7, KeepsGoing
<1> QED BY <1>4, <1>5

LEMMA CarveChunkOK ==
  ASSUME IInv, NEW w \in Workers, CarveChunkHere(w)
  PROVE  StepOK(w)
<1> DEFINE job == work[w]  c == CarveDir(job)  q == ChunkPath(job, job.todo)
<1>1. /\ Busy(w) /\ job.pc = "carve" /\ job.pc \in FilePcs /\ UNCHANGED <<queue, results, host>>
      /\ CarveHere(w, job, {q}, [job EXCEPT !.pc = "check", !.src = q])
  BY DEF CarveChunkHere, Busy, FilePcs
<1>2. /\ TypeOK /\ job \in Jobs /\ FileLocal(w) /\ job.task.path = Path(w) /\ Path(w) \in DOMAIN fs
      /\ c \in Paths /\ job.content \in Files /\ fs[Path(w)] = job.content
      /\ job.todo \in 1..Len(Chunks(job.content)) /\ \A p : Sub(w, p) => Child(p, c)
  BY <1>1, OwnFile DEF FileLocal
<1>3. IsFiniteSet({q}) /\ q \in Paths /\ \A p \in {q} : \E n \in Names : p = Append(c, n)
  <2>1. Chunks(job.content)[job.todo].name \in Names
    BY <1>2, ContentFacts
  <2>2. q = Append(c, Chunks(job.content)[job.todo].name)
    BY DEF ChunkPath
  <2> HIDE DEF q, c
  <2>3. q \in Paths
    BY <1>2, <2>1, <2>2, AppendFacts
  <2> QED BY <2>1, <2>2, <2>3, FS_Singleton
<1>4. CASE Exists(q)
  <2>1. Return(w, Report(job, "UnknownError")) /\ fs' = fs
    BY <1>1, <1>4 DEF CarveHere
  <2>2. Report(job, "UnknownError") \in Jobs /\ Kin(Report(job, "UnknownError"), job)
    <3>1. "UnknownError" \in Reports /\ job \in Jobs
      BY <1>2 DEF Reports
    <3> QED BY <3>1, JobReport
  <2> QED BY <1>1, <2>1, <2>2, QuitOK
<1>5. CASE ~ Exists(q)
  <2> DEFINE new == [job EXCEPT !.pc = "check", !.src = q]
  <2>1. /\ Continue(w, new)
        /\ fs' = With(With(fs, IF {q} = {} THEN {} ELSE {c}, "dir"), {q}, "piece")
    BY <1>1, <1>5 DEF CarveHere
  <2>2. new \in Jobs /\ Kin(new, job) /\ new.pc = "check" /\ new.todo = job.todo /\ new.src = q
    <3>1. "check" \in Pcs
      BY DEF Pcs
    <3>2. job \in Jobs /\ q \in Paths
      BY <1>2, <1>3
    <3> HIDE DEF job, q
    <3> QED BY <3>1, <3>2, Zenon DEF Jobs, Kin
  <2> HIDE DEF new
  <2>3. /\ Effect(w, <<>>) /\ NoPiece(fs', Path(w)) /\ DOMAIN fs \subseteq DOMAIN fs'
        /\ \A p \in DOMAIN fs : fs'[p] = fs[p]
        /\ \A p \in {q} : p \in DOMAIN fs' /\ fs'[p] = "piece"
    <3> DEFINE files == {q}
    <3>1. IsFiniteSet(files) /\ (\A p \in files : ~ Exists(p)) /\ \A p \in files : \E n \in Names : p = Append(c, n)
      BY <1>3, <1>5
    <3>2. fs' = With(With(fs, IF files = {} THEN {} ELSE {c}, "dir"), files, "piece")
      BY <2>1
    <3> HIDE DEF files
    <3>3. /\ Effect(w, <<>>) /\ NoPiece(fs', Path(w)) /\ DOMAIN fs \subseteq DOMAIN fs'
          /\ \A p \in DOMAIN fs : fs'[p] = fs[p]
          /\ \A p \in files : p \in DOMAIN fs' /\ fs'[p] = "piece"
      BY <1>1, <3>1, <3>2, CarveEffect
    <3> QED BY <3>3 DEF files
  <2>4. work'[w] = new /\ \A p : Sub(w, p)' <=> Sub(w, p)
    BY <1>1, <1>2, <2>1, <2>2, SubSame
  <2>5. ChunkPath(new, new.todo) = q /\ CarveDir(new) = c
    BY <2>2 DEF ChunkPath, CarveDir, Kin
  <2> HIDE DEF q, c
  <2>6. FileNext(w, new)
    BY <1>2, <2>2, <2>3, <2>4, <2>5 DEF FileNext, FilePcs, Kin
  <2>7. Local(w)'
    BY <2>4, <2>6, FileNextLocal
  <2>8. \A p : InRegion(w, p)' => InRegion(w, p)
    <3>1. work'[w].task = work[w].task /\ Engaged(work[w])
      BY <1>1, <2>2, <2>4 DEF Engaged, Kin
    <3> QED BY <3>1, SameRegion
  <2> QED BY <1>1, <1>2, <2>1, <2>2, <2>3, <2>7, <2>8, KeepsGoing
<1> QED BY <1>4, <1>5

-----------------------------------------------------------------------------
(* Extracting a chunk                                                      *)

\* Nothing under an extraction directory that is not there has a task.
LEMMA NothingThere ==
  ASSUME IInv, NEW q \in Paths, Beside(q) \notin DOMAIN fs
  PROVE  /\ \A p : Tasked(p) => ~ Under(p, Beside(q))
         /\ \A p \in DOMAIN fs : ~ Under(p, Beside(q))
         /\ NoPiece(fs, Beside(q))
<1>1. Beside(q) \in Paths /\ Last(Beside(q)).ext # 0
  BY BesideFacts
<1>2. TypeOK /\ ExistInv /\ FsOK(fs) /\ DOMAIN fs \subseteq Paths
  BY DEF IInv, FsOK, FileTree
<1>3. \A p \in DOMAIN fs : ~ Under(p, Beside(q))
  BY <1>1, <1>2 DEF FsOK, Closed
<1>4. ASSUME NEW p, Tasked(p), Under(p, Beside(q)) PROVE FALSE
  <2>1. p \in Paths
    BY <1>2, <1>4, TaskedTypes
  <2>2. Gone(fs, p)
    BY <1>2, <1>3, <1>4 DEF ExistInv
  <2>3. p # Beside(q)
    BY <1>1, <2>2 DEF Gone
  <2> QED BY <1>1, <1>4, <2>2, <2>3 DEF Gone, Room
<1> QED BY <1>3, <1>4 DEF NoPiece

\* The next chunk, or the end of the task.
LEMMA AdvanceOK ==
  ASSUME IInv, NEW w \in Workers, Busy(w), work[w].pc \in {"check", "settle"}, UNCHANGED <<queue, results, host>>,
         NEW j \in Jobs, j.task = work[w].task, j.content = work[w].content, j.src = work[w].src,
         j.todo = work[w].todo, NEW new \in Seq(Tasks), j.subtasks = work[w].subtasks \o new,
         Effect(w, new), Path(w) \in DOMAIN fs', NoPiece(fs', Path(w)),
         \/ Whole(work[w])
         \/ /\ CarveDir(work[w]) \in DOMAIN fs' => fs'[CarveDir(work[w])] = "dir"
            /\ \A p : Of(new, p) => Child(p, CarveDir(work[w])),
         Advance(w, j)
  PROVE  StepOK(w)
<1> DEFINE job == work[w]  c == CarveDir(job)
<1>1. job.pc \in FilePcs
  BY DEF FilePcs
<1>2. /\ TypeOK /\ job \in Jobs /\ FileLocal(w) /\ job.task.path = Path(w)
      /\ job.content \in Files /\ fs[Path(w)] = job.content /\ Path(w) \in DOMAIN fs
      /\ job.todo \in 1..Len(Chunks(job.content))
      /\ Whole(job) \/ \A p : Sub(w, p) => Child(p, c)
  BY <1>1, OwnFile DEF FileLocal
<1>3. Whole(j) <=> Whole(job)
  BY DEF Whole
<1>4. CASE ~ Whole(j) /\ j.todo < Len(Chunks(j.content))
  <2> DEFINE next == [j EXCEPT !.pc = "carve", !.todo = @ + 1]
  <2>1. Continue(w, next)
    BY <1>4 DEF Advance
  <2>2. next \in Jobs /\ Kin(next, j) /\ next.pc = "carve" /\ next.todo = j.todo + 1
    <3>1. "carve" \in Pcs
      BY DEF Pcs
    <3> QED BY <3>1, JobNext
  <2> HIDE DEF next
  <2>3. /\ next.task = job.task /\ next.content = job.content /\ next.subtasks = job.subtasks \o new
        /\ CarveDir(next) = c
    BY <2>2 DEF Kin, CarveDir
  <2>4. work'[w] = next /\ \A p : Sub(w, p)' <=> Sub(w, p) \/ Of(new, p)
    BY <1>2, <2>1, <2>2, <2>3, SubAfter
  <2>5. \A p : Sub(w, p)' => Child(p, c)
    BY <1>2, <1>3, <1>4, <2>4
  <2>6. next.todo \in 1..Len(Chunks(next.content))
    <3>1. Len(Chunks(job.content)) \in Nat
      BY <1>2, ContentFacts
    <3> QED BY <1>2, <1>4, <2>2, <2>3, <3>1
  <2>7. fs'[Path(w)] = job.content
    BY <1>2 DEF Effect
  <2>8. c \in DOMAIN fs' => fs'[c] = "dir"
    BY <1>3, <1>4
  <2> HIDE DEF c
  <2>9. FileNext(w, next)
    BY <1>2, <2>2, <2>3, <2>5, <2>6, <2>7, <2>8 DEF FileNext, FilePcs
  <2>10. Local(w)'
    BY <2>4, <2>9, FileNextLocal
  <2>11. \A p : InRegion(w, p)' => InRegion(w, p)
    <3>1. work'[w].task = work[w].task /\ Engaged(work[w])
      BY <1>3, <1>4, <2>3, <2>4 DEF Engaged
    <3> QED BY <3>1, SameRegion
  <2>12. Goes(w, new)
    BY <2>1, <2>2, <2>3, <2>10, <2>11 DEF Goes
  <2> QED BY <2>12 DEF StepOK
<1>5. CASE ~ (~ Whole(j) /\ j.todo < Len(Chunks(j.content)))
  <2>1. Return(w, j)
    BY <1>5 DEF Advance
  <2>2. Returns(w, new)
    BY <2>1, JobResult DEF Returns
  <2> QED BY <2>2 DEF StepOK
<1> QED BY <1>4, <1>5

\* The carve directory of a carved chunk.
LEMMA CarvedIn ==
  ASSUME IInv, NEW w \in Workers, Busy(w), work[w].pc \in {"check", "mkdir", "extract", "settle"}, ~ Whole(work[w])
  PROVE  /\ work[w].src \in DOMAIN fs /\ fs[work[w].src] = "piece" /\ Child(work[w].src, CarveDir(work[w]))
         /\ CarveDir(work[w]) \in DOMAIN fs /\ fs[CarveDir(work[w])] = "dir"
         /\ Child(Beside(work[w].src), CarveDir(work[w]))
         /\ \A p : Sub(w, p) => Child(p, CarveDir(work[w]))
<1>1. work[w].pc \in FilePcs
  BY DEF FilePcs
<1>2. FileLocal(w) /\ TypeOK /\ Local(w) /\ FsOK(fs) /\ CarveDir(work[w]) \in Paths /\ DOMAIN fs \subseteq Paths
  BY <1>1, OwnFile
<1>3. work[w].src \in DOMAIN fs /\ fs[work[w].src] = "piece" /\ \A p : Sub(w, p) => Child(p, CarveDir(work[w]))
  BY <1>2 DEF FileLocal
<1>4. Child(work[w].src, CarveDir(work[w])) /\ Child(Beside(work[w].src), CarveDir(work[w]))
  BY <1>2, RegionMembers
<1>5. Under(work[w].src, CarveDir(work[w])) /\ work[w].src # CarveDir(work[w])
  BY <1>2, <1>3, <1>4, ChildFacts
<1> QED BY <1>2, <1>3, <1>4, <1>5 DEF FsOK, Closed

LEMMA CheckDirOK ==
  ASSUME IInv, NEW w \in Workers, CheckDirHere(w)
  PROVE  StepOK(w)
<1> DEFINE job == work[w]  c == CarveDir(job)  d == Beside(job.src)
<1>1. Busy(w) /\ job.pc = "check" /\ job.pc \in FilePcs /\ UNCHANGED <<queue, results, host>> /\ fs' = fs
  BY DEF CheckDirHere, Busy, FilePcs
<1>2. /\ TypeOK /\ job \in Jobs /\ FileLocal(w) /\ job.task.path = Path(w) /\ Path(w) \in DOMAIN fs
      /\ job.content \in Files /\ fs[Path(w)] = job.content /\ NoPiece(fs, Path(w))
      /\ job.todo \in 1..Len(Chunks(job.content)) /\ Path(w) \in Paths /\ c = Beside(Path(w))
  BY <1>1, OwnFile DEF FileLocal
<1>3. job.src \in Paths
  BY <1>2 DEF Jobs
<1>4. CASE Exists(d)
  <2> DEFINE j == Report(job, "OutputExists")
             none == <<>>
  <2>1. Advance(w, j)
    BY <1>4 DEF CheckDirHere
  <2>2. j \in Jobs /\ Kin(j, job) /\ j.todo = job.todo /\ j.src = job.src
    <3>1. "OutputExists" \in Reports
      BY DEF Reports
    <3> QED BY <1>2, <3>1, JobReport
  <2> HIDE DEF j
  <2>3. j.task = job.task /\ j.content = job.content /\ j.subtasks = job.subtasks \o none /\ none \in Seq(Tasks)
    <3>1. job.subtasks \in Seq(Tasks)
      BY <1>2 DEF Jobs
    <3> QED BY <2>2, <3>1, NoneAdded DEF Kin
  <2>4. Effect(w, none)
    BY <1>1, EffectNone
  <2>5. \/ Whole(job)
        \/ /\ c \in DOMAIN fs' => fs'[c] = "dir"
           /\ \A p : Of(none, p) => Child(p, c)
    <3>1. ~ Whole(job) => fs[c] = "dir"
      BY <1>1, CarvedIn
    <3> QED BY <1>1, <3>1 DEF Of
  <2> HIDE DEF none
  <2> QED BY <1>1, <1>2, <2>1, <2>2, <2>3, <2>4, <2>5, AdvanceOK
<1>5. CASE ~ Exists(d)
  <2> DEFINE r == TheChunk(job).result
             pc == IF r = "silent" THEN "settle" ELSE "mkdir"
             new == [job EXCEPT !.outcome = r, !.extract_dir = Beside(job.src), !.pc = pc]
  <2>1. Continue(w, new)
    BY <1>5 DEF CheckDirHere
  <2>2. r \in {"ok", "error", "silent"}
    BY <1>2, ContentFacts DEF TheChunk
  <2>3. pc \in {"settle", "mkdir"} /\ pc \in Pcs
    BY DEF Pcs
  <2> HIDE DEF r, pc
  <2>4. new \in Jobs /\ Kin(new, job) /\ new.pc = pc /\ new.todo = job.todo /\ new.src = job.src
    <3>1. job \in Jobs /\ Beside(job.src) \in Paths
      BY <1>2, <1>3, BesideFacts
    <3> HIDE DEF job
    <3> QED BY <2>2, <2>3, <3>1, Zenon DEF Jobs, Kin
  <2> HIDE DEF new
  <2>5. work'[w] = new /\ \A p : Sub(w, p)' <=> Sub(w, p)
    BY <1>1, <1>2, <2>1, <2>4, SubSame
  <2>6. d \notin DOMAIN fs /\ NoPiece(fs, d) /\ \A p : Tasked(p) => ~ Under(p, d)
    BY <1>3, <1>5, NothingThere DEF Exists
  <2>7. \A p : Sub(w, p)' => p # d
    BY <1>1, <2>5, <2>6, OwnExists
  <2>8. \/ Whole(new) /\ \A p : ~ Sub(w, p)'
        \/ /\ new.src = ChunkPath(new, new.todo) /\ new.src \in DOMAIN fs /\ fs[new.src] = "piece"
           /\ \A p : Sub(w, p)' => Child(p, CarveDir(new))
    <3>1. \/ Whole(job) /\ \A p : ~ Sub(w, p)
          \/ /\ job.src = ChunkPath(job, job.todo) /\ job.src \in DOMAIN fs /\ fs[job.src] = "piece"
             /\ \A p : Sub(w, p) => Child(p, c)
      BY <1>1, <1>2 DEF FileLocal
    <3>2. ChunkPath(new, new.todo) = ChunkPath(job, job.todo) /\ CarveDir(new) = c /\ (Whole(new) <=> Whole(job))
      BY <2>4 DEF Kin, ChunkPath, CarveDir, Whole
    <3> QED BY <2>4, <2>5, <3>1, <3>2
  <2>9. Beside(new.src) = d /\ new.task.path = Path(w) /\ new.content = job.content
    BY <1>2, <2>4 DEF Kin
  <2> HIDE DEF c, d
  <2>10. FileNext(w, new)
    BY <1>1, <1>2, <2>3, <2>4, <2>6, <2>7, <2>8, <2>9 DEF FileNext, FilePcs
  <2>11. Local(w)'
    BY <2>5, <2>10, FileNextLocal
  <2>12. \A p : Tasked(p) /\ InRegion(w, p)' => InRegion(w, p)
    <3>1. work'[w].task = work[w].task
      BY <2>4, <2>5 DEF Kin
    <3>2. CASE Whole(job)
      <4>1. d = c
        BY <1>2, <3>2 DEF Whole, c, d
      <4>2. Path(w)' = Path(w) /\ CarveDir(work'[w]) = c
        BY <3>1 DEF Path, CarveDir, c
      <4>3. \A p : Tasked(p) => ~ Under(p, c)
        BY <2>6, <4>1
      <4> QED BY <4>2, <4>3 DEF InRegion
    <3>3. CASE ~ Whole(job)
      BY <1>1, <3>1, <3>3, SameRegion DEF Engaged
    <3> QED BY <3>2, <3>3
  <2> QED BY <1>1, <1>2, <2>1, <2>4, <2>11, <2>12, GoOK
<1> QED BY <1>4, <1>5

LEMMA MakeDirOK ==
  ASSUME IInv, NEW w \in Workers, MakeDirHere(w)
  PROVE  StepOK(w)
<1> DEFINE job == work[w]  c == CarveDir(job)  d == Beside(job.src)
           new == [job EXCEPT !.pc = "extract"]
<1>1. Busy(w) /\ job.pc = "mkdir" /\ job.pc \in FilePcs /\ UNCHANGED <<queue, results, host>>
  BY DEF MakeDirHere, Busy, FilePcs
<1>2. /\ TypeOK /\ FsOK(fs) /\ job \in Jobs /\ FileLocal(w) /\ job.task.path = Path(w) /\ Path(w) \in DOMAIN fs
      /\ job.content \in Files /\ fs[Path(w)] = job.content /\ NoPiece(fs, Path(w)) /\ Local(w)
      /\ job.todo \in 1..Len(Chunks(job.content)) /\ Path(w) \in Paths /\ c = Beside(Path(w)) /\ Room(fs, c)
      /\ d \notin DOMAIN fs /\ ~ Sub(w, d) /\ c \in Paths
  BY <1>1, OwnFile DEF FileLocal
<1>3. job.src \in Paths /\ d \in Paths
  BY <1>2, BesideFacts DEF Jobs
<1>4. Continue(w, new) /\ fs' = With(fs, {d}, "dir")
  BY <1>2 DEF MakeDirHere, Exists
<1>5. new \in Jobs /\ Kin(new, job) /\ new.pc = "extract" /\ new.todo = job.todo /\ new.src = job.src
  <2>1. "extract" \in Pcs
    BY DEF Pcs
  <2> QED BY <1>2, <2>1, JobPc
<1> HIDE DEF new
<1>6. work'[w] = new /\ \A p : Sub(w, p)' <=> Sub(w, p)
  BY <1>1, <1>2, <1>4, <1>5, SubSame
<1>7. NoPiece(fs, d) /\ (\A p : Tasked(p) => ~ Under(p, d)) /\ \A p \in DOMAIN fs : ~ Under(p, d)
  BY <1>2, <1>3, NothingThere
<1>8. \/ Whole(job) /\ \A p : ~ Sub(w, p)
      \/ /\ job.src = ChunkPath(job, job.todo) /\ job.src \in DOMAIN fs /\ fs[job.src] = "piece"
         /\ \A p : Sub(w, p) => Child(p, c)
  BY <1>1, <1>2 DEF FileLocal
<1>9. Room(fs, d)
  <2>1. CASE Whole(job)
    BY <1>2, <2>1 DEF Whole, CarveDir
  <2>2. CASE ~ Whole(job)
    <3>1. c \in DOMAIN fs /\ fs[c] = "dir" /\ Child(d, c)
      BY <1>1, <2>2, CarvedIn
    <3> QED BY <1>2, <1>3, <3>1, RoomInDir
  <2> QED BY <2>1, <2>2
<1>10. InRegion(w, d)
  BY <1>1, <1>2, RegionMembers
<1>11. ChunkPath(new, new.todo) = ChunkPath(job, job.todo) /\ CarveDir(new) = c /\ (Whole(new) <=> Whole(job))
       /\ Beside(new.src) = d /\ new.task.path = Path(w) /\ new.content = job.content
  BY <1>2, <1>5 DEF Kin, ChunkPath, CarveDir, Whole
<1>12. ~ Whole(job) => Child(d, c)
  BY <1>1, CarvedIn
<1> HIDE DEF c, d
<1>13. /\ FsOK(fs') /\ DOMAIN fs' = DOMAIN fs \cup {d}
       /\ \A p \in DOMAIN fs : fs'[p] = fs[p]
       /\ fs'[d] = "dir"
  <2>1. \A g : g = With(fs, {d}, "dir") => FsOK(g)
    BY <1>2, <1>3, <1>9, WithDir
  <2>2. /\ DOMAIN fs' = DOMAIN fs \cup {d}
        /\ \A p \in DOMAIN fs : fs'[p] = fs[p]
        /\ fs'[d] = "dir"
    BY <1>2, <1>4 DEF With
  <2> QED BY <1>4, <2>1, <2>2
<1>14. Effect(w, <<>>)
  <2>1. Plain(fs')
    <3>1. "dir" \notin Files
      BY ProcessingAssumption
    <3> QED BY <1>13, <3>1 DEF Plain, IInv
  <2>2. \A p : ~ InRegion(w, p) => Same(fs, fs', p)
    BY <1>10, <1>13 DEF Same
  <2>3. ASSUME NEW p, NEW x, Sub(w, x), Under(p, x) PROVE Same(fs, fs', p)
    <3>1. x \in DOMAIN fs /\ x \in Paths
      BY <1>1, <2>3, OwnExists
    <3>2. ~ Whole(job) /\ Child(x, c)
      <4>1. ~ Whole(job)
        BY <1>2, <1>8, <2>3, ContentFacts DEF Whole
      <4> QED BY <1>1, <2>3, <4>1, CarvedIn DEF c
    <3>3. p # d
      BY <1>2, <1>3, <1>12, <2>3, <3>1, <3>2, ChildFacts
    <3> QED BY <1>13, <3>3 DEF Same
  <2> QED BY <1>13, <2>1, <2>2, <2>3, NewNone DEF Effect
<1>15. NoPiece(fs', Path(w)) /\ NoPiece(fs', d) /\ Bare(fs', d)
  BY <1>2, <1>7, <1>13 DEF NoPiece, Bare
<1>16. FileNext(w, new)
  BY <1>2, <1>5, <1>6, <1>8, <1>11, <1>13, <1>15 DEF FileNext, FilePcs
<1>17. Local(w)'
  BY <1>6, <1>16, FileNextLocal
<1>18. \A p : InRegion(w, p)' => InRegion(w, p)
  <2>1. work'[w].task = work[w].task /\ Engaged(work[w])
    BY <1>1, <1>5, <1>6 DEF Engaged, Kin
  <2> QED BY <2>1, SameRegion
<1> QED BY <1>1, <1>2, <1>4, <1>5, <1>13, <1>14, <1>15, <1>17, <1>18, KeepsGoing

LEMMA TreeEffect ==
  ASSUME IInv, NEW w \in Workers, Busy(w), NEW d \in DOMAIN fs, fs[d] = "dir", Bare(fs, d), InRegion(w, d),
         NEW tree, TreeOK(tree), Deleting => PlainTree(tree), fs' = WithTree(fs, d, tree),
         \A x : Sub(w, x) => ~ Under(d, x)
  PROVE  /\ \A new : NewTasks(w, new) => Effect(w, new)
         /\ \A p \in DOMAIN fs : p \in DOMAIN fs' /\ fs'[p] = fs[p]
         /\ \A x : NoPiece(fs, x) => NoPiece(fs', x)
         /\ \A p \in DOMAIN fs' \ DOMAIN fs : Under(p, d)
<1>1. TypeOK /\ FsOK(fs) /\ DOMAIN fs \subseteq Paths /\ d \in Paths
  BY DEF IInv, FsOK, FileTree
<1>2. LET g == WithTree(fs, d, tree) IN
      /\ FsOK(g)
      /\ DOMAIN g = DOMAIN fs \cup {d \o r : r \in DOMAIN tree}
      /\ \A p \in DOMAIN fs : g[p] = fs[p]
      /\ \A r \in DOMAIN tree : g[d \o r] = tree[r] /\ d \o r \notin DOMAIN fs
  BY <1>1, WithTreeFacts, Zenon
<1>3. /\ FsOK(fs')
      /\ \A p \in DOMAIN fs : p \in DOMAIN fs' /\ fs'[p] = fs[p]
      /\ \A p \in DOMAIN fs' \ DOMAIN fs : \E r \in DOMAIN tree : p = d \o r /\ fs'[p] = tree[r]
  BY <1>2
<1>4. ASSUME NEW p \in DOMAIN fs' \ DOMAIN fs
      PROVE  /\ p \in Paths /\ Under(p, d) /\ p # d /\ fs'[p] # "piece" /\ Len(p) # 1
             /\ Deleting /\ fs'[p] \in Files => Last(p).ext = 0
  <2>1. PICK r \in DOMAIN tree : p = d \o r /\ fs'[p] = tree[r]
    BY <1>3
  <2>2. r \in Paths /\ tree[r] # "piece"
    BY DEF TreeOK
  <2>3. p \in Paths /\ Under(p, d) /\ p # d /\ Len(p) > 1 /\ Last(p) = Last(r)
    <3>1. d \o r \in Paths /\ Under(d \o r, d) /\ d \o r # d /\ Len(d \o r) > 1 /\ Last(d \o r) = Last(r)
      BY <1>1, <2>2, ConcatFacts
    <3> QED BY <2>1, <3>1
  <2>4. Len(p) # 1
    <3>1. PICK n \in Nat : n = Len(p)
      BY <2>3 DEF Paths
    <3> QED BY <2>3, <3>1
  <2> QED BY <2>1, <2>2, <2>3, <2>4 DEF PlainTree
<1>5. Plain(fs')
  BY <1>3, <1>4 DEF Plain, IInv
<1>6. \A p : ~ InRegion(w, p) => Same(fs, fs', p)
  BY <1>1, <1>3, <1>4, RegionDown DEF Same
<1>7. ASSUME NEW p, NEW x, Sub(w, x), Under(p, x) PROVE Same(fs, fs', p)
  <2>1. x \in DOMAIN fs /\ x \in Paths
    BY <1>7, OwnExists
  <2>2. CASE p \in DOMAIN fs' \ DOMAIN fs
    <3>1. Under(d, x) \/ Under(x, d)
      BY <1>1, <1>4, <1>7, <2>1, <2>2, UnderOrder
    <3>2. x = d
      BY <1>7, <2>1, <3>1 DEF Bare
    <3> QED BY <1>1, <1>7, <3>2, UnderOrder
  <2>3. CASE p \notin DOMAIN fs' \ DOMAIN fs
    BY <1>3, <2>3 DEF Same
  <2> QED BY <2>2, <2>3
<1>8. ASSUME NEW new, NewTasks(w, new) PROVE Effect(w, new)
  BY <1>3, <1>4, <1>5, <1>6, <1>7, <1>8 DEF Effect
<1>9. \A x : NoPiece(fs, x) => NoPiece(fs', x)
  BY <1>3, <1>4 DEF NoPiece
<1> QED BY <1>3, <1>4, <1>8, <1>9

LEMMA ExtractOK ==
  ASSUME IInv, DeletesApart, NEW w \in Workers, ExtractHere(w)
  PROVE  StepOK(w)
<1> DEFINE job == work[w]  c == CarveDir(job)  d == Beside(job.src)
           new == [job EXCEPT !.pc = "settle"]
<1>1. /\ Busy(w) /\ job.pc = "extract" /\ job.pc \in FilePcs /\ UNCHANGED <<queue, results, host>>
      /\ Continue(w, new) /\ fs' = WithTree(fs, d, TheChunk(job).tree)
  BY DEF ExtractHere, Busy, FilePcs
<1>2. /\ TypeOK /\ FsOK(fs) /\ job \in Jobs /\ FileLocal(w) /\ job.task.path = Path(w) /\ Path(w) \in DOMAIN fs
      /\ job.content \in Files /\ fs[Path(w)] = job.content /\ NoPiece(fs, Path(w)) /\ Local(w)
      /\ job.todo \in 1..Len(Chunks(job.content)) /\ Path(w) \in Paths /\ c \in Paths
      /\ d \in DOMAIN fs /\ fs[d] = "dir" /\ Bare(fs, d) /\ NoPiece(fs, d) /\ ~ Sub(w, d)
  BY <1>1, OwnFile DEF FileLocal
<1>3. job.src \in Paths /\ d \in Paths /\ InRegion(w, d)
  BY <1>1, <1>2, BesideFacts, RegionMembers DEF Jobs
<1>4. new \in Jobs /\ Kin(new, job) /\ new.pc = "settle" /\ new.todo = job.todo /\ new.src = job.src
  <2>1. "settle" \in Pcs
    BY DEF Pcs
  <2> QED BY <1>2, <2>1, JobPc
<1> HIDE DEF new
<1>5. work'[w] = new /\ \A p : Sub(w, p)' <=> Sub(w, p)
  BY <1>1, <1>2, <1>4, SubSame
<1>6. \/ Whole(job) /\ \A p : ~ Sub(w, p)
      \/ /\ job.src = ChunkPath(job, job.todo) /\ job.src \in DOMAIN fs /\ fs[job.src] = "piece"
         /\ \A p : Sub(w, p) => Child(p, c)
  BY <1>1, <1>2 DEF FileLocal
<1>7. ASSUME NEW x, Sub(w, x) PROVE ~ Under(d, x)
  <2>1. ~ Whole(job)
    BY <1>2, <1>6, <1>7, ContentFacts DEF Whole
  <2>2. Child(d, c) /\ Child(x, c) /\ x \in Paths
    BY <1>1, <1>7, <2>1, CarvedIn, OwnExists
  <2> HIDE DEF c, d
  <2> QED BY <1>2, <1>3, <1>7, <2>2, ChildFacts
<1> DEFINE tree == TheChunk(job).tree
<1>8. TreeOK(tree) /\ (Deleting => PlainTree(tree))
  BY <1>2, ContentFacts DEF TheChunk, DeletesApart
<1>9. ChunkPath(new, new.todo) = ChunkPath(job, job.todo) /\ CarveDir(new) = c /\ (Whole(new) <=> Whole(job))
       /\ Beside(new.src) = d /\ new.task.path = Path(w) /\ new.content = job.content
  BY <1>2, <1>4 DEF Kin, ChunkPath, CarveDir, Whole
<1>10. fs' = WithTree(fs, d, tree)
  BY <1>1
<1> HIDE DEF tree, c, d
<1>11. /\ \A ts : NewTasks(w, ts) => Effect(w, ts)
       /\ \A p \in DOMAIN fs : p \in DOMAIN fs' /\ fs'[p] = fs[p]
       /\ \A x : NoPiece(fs, x) => NoPiece(fs', x)
  BY <1>1, <1>2, <1>3, <1>7, <1>8, <1>10, TreeEffect
<1>12. FileNext(w, new)
  BY <1>2, <1>4, <1>5, <1>6, <1>9, <1>11 DEF FileNext, FilePcs
<1>13. Local(w)'
  BY <1>5, <1>12, FileNextLocal
<1>14. \A p : InRegion(w, p)' => InRegion(w, p)
  <2>1. work'[w].task = work[w].task /\ Engaged(work[w])
    BY <1>1, <1>4, <1>5 DEF Engaged, Kin
  <2> QED BY <2>1, SameRegion
<1>15. Effect(w, <<>>) /\ NoPiece(fs', Path(w)) /\ Path(w) \in DOMAIN fs'
  BY <1>2, <1>11, NewNone
<1> QED BY <1>1, <1>2, <1>4, <1>13, <1>14, <1>15, KeepsGoing

LEMMA OneTask ==
  ASSUME NEW d \in Paths, NEW n \in Nat
  PROVE  /\ <<SubTask(d, n + 1)>> \in Seq(Tasks)
         /\ \A p : Of(<<SubTask(d, n + 1)>>, p) <=> p = d
         /\ \A i, j \in DOMAIN <<SubTask(d, n + 1)>> : i = j
<1>1. PICK m \in Nat : m = n + 1
  OBVIOUS
<1>2. PICK t : t = SubTask(d, m)
  OBVIOUS
<1>3. t \in Tasks /\ t.path = d
  BY <1>1, <1>2 DEF SubTask, Tasks
<1>4. <<t>> \in Seq(Tasks) /\ DOMAIN <<t>> = {1} /\ <<t>>[1] = t
  BY <1>3
<1>5. \A p : Of(<<t>>, p) <=> p = d
  BY <1>3, <1>4 DEF Of
<1>6. <<SubTask(d, n + 1)>> = <<t>>
  BY <1>1, <1>2
<1> QED BY <1>4, <1>5, <1>6

LEMMA OneNew ==
  ASSUME NEW w, NEW d \in Paths, NEW n \in Nat, InRegion(w, d), d \in DOMAIN fs', ~ Under(Path(w), d),
         ~ Sub(w, d), NoPiece(fs', d), \A p : Sub(w, p) => ~ Under(p, d) /\ ~ Under(d, p)
  PROVE  NewTasks(w, <<SubTask(d, n + 1)>>)
<1>1. PICK s : s = <<SubTask(d, n + 1)>>
  OBVIOUS
<1>2. /\ s \in Seq(Tasks)
      /\ \A p : Of(s, p) <=> p = d
      /\ \A i, j \in DOMAIN s : i = j
  BY <1>1, OneTask
<1>3. NewTasks(w, s)
  BY <1>2 DEF NewTasks
<1> QED BY <1>1, <1>3

\* What Settle removes.
LEMMA SettleFs ==
  ASSUME IInv, NEW w \in Workers, Busy(w), work[w].pc = "settle", NEW R,
         \A x \in R : \/ x = Beside(work[w].src) /\ \A p \in DOMAIN fs : ~ Child(p, x)
                      \/ x = work[w].src /\ ~ Whole(work[w]),
         fs' = Without(fs, R)
  PROVE  /\ FsOK(fs') /\ Plain(fs') /\ DOMAIN fs' = DOMAIN fs \ R
         /\ \A p \in DOMAIN fs' : fs'[p] = fs[p]
         /\ \A p : ~ InRegion(w, p) => Same(fs, fs', p)
         /\ \A p, x : Sub(w, x) /\ Under(p, x) => Same(fs, fs', p)
         /\ Path(w) \in DOMAIN fs' /\ \A x : NoPiece(fs, x) => NoPiece(fs', x)
<1> DEFINE job == work[w]  c == CarveDir(job)  d == Beside(job.src)
<1>1. job.pc \in FilePcs
  BY DEF FilePcs
<1>2. /\ TypeOK /\ FsOK(fs) /\ job \in Jobs /\ FileLocal(w) /\ job.task.path = Path(w) /\ Path(w) \in DOMAIN fs
      /\ job.content \in Files /\ fs[Path(w)] = job.content /\ Local(w) /\ DOMAIN fs \subseteq Paths
      /\ Path(w) \in Paths /\ c \in Paths /\ c = Beside(Path(w)) /\ NoPiece(fs, d) /\ ~ Sub(w, d)
      /\ \/ Whole(job) /\ \A p : ~ Sub(w, p)
         \/ /\ job.src = ChunkPath(job, job.todo) /\ job.src \in DOMAIN fs /\ fs[job.src] = "piece"
            /\ \A p : Sub(w, p) => Child(p, c)
  BY <1>1, OwnFile DEF FileLocal
<1>3. job.src \in Paths /\ d \in Paths /\ InRegion(w, d) /\ Under(d, c)
  BY <1>2, BesideFacts, RegionMembers DEF Jobs
<1>4. ~ Whole(job) => /\ Child(job.src, c) /\ Child(d, c) /\ InRegion(w, job.src) /\ fs[job.src] = "piece"
                      /\ \A x : Sub(w, x) => Child(x, c)
  BY <1>2, CarvedIn, RegionMembers
<1>5. \A x : Sub(w, x) => ~ Whole(job) /\ x \in Paths /\ NoPiece(fs, x) /\ x # d
  BY <1>2, OwnExists, ContentFacts DEF Whole
<1> HIDE DEF c, d
<1>6. \A x \in R : (x = d /\ \A p \in DOMAIN fs : ~ Child(p, d)) \/ (x = job.src /\ ~ Whole(job))
  BY DEF d
<1>7. ASSUME NEW x \in R, NEW p \in DOMAIN fs, Under(p, x) PROVE p = x
  <2> SUFFICES ASSUME p # x PROVE FALSE
    OBVIOUS
  <2>1. CASE x = d /\ \A q \in DOMAIN fs : ~ Child(q, d)
    <3>1. PICK q \in Paths : Child(q, d) /\ Under(p, q)
      BY <1>2, <1>3, <1>7, <2>1, EntryBetween
    <3>2. q \in DOMAIN fs
      BY <1>2, <3>1 DEF FsOK, Closed
    <3> QED BY <2>1, <3>1, <3>2
  <2>2. CASE x = job.src /\ ~ Whole(job)
    <3>1. fs[job.src] = "dir"
      BY <1>2, <1>3, <1>7, <2>2 DEF FsOK, Closed
    <3> QED BY <1>4, <2>2, <3>1
  <2> QED BY <1>6, <2>1, <2>2
<1>8. /\ FsOK(fs') /\ DOMAIN fs' = DOMAIN fs \ R
      /\ \A p \in DOMAIN fs' : fs'[p] = fs[p]
  <2>1. \A x \in R : \A p \in DOMAIN fs \ R : ~ Under(p, x)
    BY <1>7
  <2>2. FsOK(fs')
    BY <1>2, <2>1, WithoutFacts
  <2> QED BY <2>2 DEF Without
<1>9. \A p : ~ InRegion(w, p) => Same(fs, fs', p)
  BY <1>3, <1>4, <1>6, <1>8 DEF Same
<1>10. ASSUME NEW p, NEW x, Sub(w, x), Under(p, x) PROVE Same(fs, fs', p)
  <2>1. ~ Whole(job) /\ x \in Paths /\ NoPiece(fs, x) /\ x # d /\ Child(x, c)
    BY <1>4, <1>5, <1>10
  <2>2. p # d
    BY <1>2, <1>3, <1>4, <1>10, <2>1, ChildFacts
  <2>3. p # job.src
    <3>1. job.src \in DOMAIN fs /\ fs[job.src] = "piece"
      BY <1>2, <2>1
    <3> QED BY <1>10, <2>1, <3>1 DEF NoPiece
  <2> QED BY <1>6, <1>8, <2>2, <2>3 DEF Same
<1>11. Path(w) \in DOMAIN fs'
  <2>1. Path(w) # d
    BY <1>2, <1>3, BesideFacts, UnderOrder
  <2>2. ~ Whole(job) => Path(w) # job.src
    BY <1>2 DEF Whole
  <2> QED BY <1>2, <1>6, <1>8, <2>1, <2>2
<1>12. Plain(fs')
  BY <1>8 DEF Plain, IInv
<1>13. \A x : NoPiece(fs, x) => NoPiece(fs', x)
  BY <1>8 DEF NoPiece
<1> QED BY <1>8, <1>9, <1>10, <1>11, <1>12, <1>13

LEMMA SettleOK ==
  ASSUME IInv, NEW w \in Workers, SettleHere(w)
  PROVE  StepOK(w)
<1> DEFINE job == work[w]  c == CarveDir(job)  d == Beside(job.src)
           empty == Exists(d) /\ \A p \in DOMAIN fs : ~ Child(p, d)
           R == (IF empty THEN {d} ELSE {})
                \cup (IF ~ Whole(job) /\ job.outcome = "ok" /\ ~ config.keep THEN {job.src} ELSE {})
           reported == IF job.outcome = "error" THEN Report(job, "ExtractError") ELSE job
           spawns == Exists(d) /\ ~ empty
           new == IF spawns THEN <<SubTask(d, job.task.depth + 1)>> ELSE <<>>
           j == IF spawns THEN Spawn(reported, <<SubTask(d, job.task.depth + 1)>>) ELSE reported
<1>1. /\ Busy(w) /\ job.pc = "settle" /\ job.pc \in FilePcs /\ UNCHANGED <<queue, results, host>>
      /\ fs' = Without(fs, R)
      /\ IF ShouldDelete(job) THEN Continue(w, [j EXCEPT !.pc = "delete"]) ELSE Advance(w, j)
  BY DEF SettleHere, Busy, FilePcs
<1>2. /\ TypeOK /\ FsOK(fs) /\ job \in Jobs /\ FileLocal(w) /\ job.task.path = Path(w) /\ Path(w) \in DOMAIN fs
      /\ job.content \in Files /\ fs[Path(w)] = job.content /\ Local(w) /\ NoPiece(fs, Path(w))
      /\ Path(w) \in Paths /\ c \in Paths /\ c = Beside(Path(w)) /\ NoPiece(fs, d) /\ ~ Sub(w, d)
      /\ job.todo \in 1..Len(Chunks(job.content))
      /\ \/ Whole(job) /\ \A p : ~ Sub(w, p)
         \/ fs[job.src] = "piece"
  BY <1>1, OwnFile DEF FileLocal
<1>3. job.src \in Paths /\ d \in Paths /\ InRegion(w, d) /\ Under(d, c) /\ d # job.src /\ job.task.depth \in Nat
  BY <1>1, <1>2, BesideFacts, RegionMembers DEF Jobs, Tasks
<1>4. \A x : Sub(w, x) => ~ Whole(job) /\ x \in Paths
  BY <1>1, <1>2, OwnExists, ContentFacts DEF Whole
<1>5. ~ Whole(job) => /\ Child(d, c) /\ fs[c] = "dir" /\ \A x : Sub(w, x) => Child(x, c)
  BY <1>1, CarvedIn
<1>6. Whole(job) => d = c
  BY DEF Whole, CarveDir
<1>7. spawns => d \in DOMAIN fs /\ d \notin R
  BY <1>3 DEF Exists
<1>8. \A x \in R : \/ x = d /\ \A p \in DOMAIN fs : ~ Child(p, x)
                   \/ x = job.src /\ ~ Whole(job)
  OBVIOUS
<1> HIDE DEF R, c, d
<1>9. /\ FsOK(fs') /\ Plain(fs') /\ DOMAIN fs' = DOMAIN fs \ R
      /\ \A p \in DOMAIN fs' : fs'[p] = fs[p]
      /\ \A p : ~ InRegion(w, p) => Same(fs, fs', p)
      /\ \A p, x : Sub(w, x) /\ Under(p, x) => Same(fs, fs', p)
      /\ Path(w) \in DOMAIN fs' /\ \A x : NoPiece(fs, x) => NoPiece(fs', x)
  BY <1>1, <1>8, SettleFs DEF d
<1>10. /\ reported \in Jobs /\ Kin(reported, job) /\ reported.todo = job.todo /\ reported.src = job.src
  <2>1. "ExtractError" \in Reports
    BY DEF Reports
  <2> QED BY <1>2, <2>1, JobReport DEF Kin
<1> HIDE DEF reported, spawns
<1>11. /\ <<SubTask(d, job.task.depth + 1)>> \in Seq(Tasks)
       /\ \A p : Of(<<SubTask(d, job.task.depth + 1)>>, p) <=> p = d
  BY <1>3, OneTask
<1>12. /\ j \in Jobs /\ j.task = job.task /\ j.content = job.content /\ j.src = job.src /\ j.todo = job.todo
       /\ j.subtasks = job.subtasks \o new /\ new \in Seq(Tasks) /\ \A p : Of(new, p) <=> (spawns /\ p = d)
  <2>1. CASE spawns
    <3> DEFINE ts == <<SubTask(d, job.task.depth + 1)>>
    <3>1. new = ts /\ j = Spawn(reported, ts) /\ ts \in Seq(Tasks) /\ \A p : Of(ts, p) <=> p = d
      BY <1>11, <2>1
    <3> HIDE DEF ts, new, j
    <3>2. reported \in Jobs /\ ts \in Seq(Tasks)
      BY <1>10, <3>1
    <3>3. LET s == Spawn(reported, ts) IN
          /\ s \in Jobs /\ s.task = reported.task /\ s.content = reported.content
          /\ s.subtasks = reported.subtasks \o ts /\ s.todo = reported.todo /\ s.src = reported.src
      BY <3>2, JobSpawn
    <3>4. /\ j \in Jobs /\ j.task = reported.task /\ j.content = reported.content
          /\ j.subtasks = reported.subtasks \o ts /\ j.todo = reported.todo /\ j.src = reported.src
      BY <3>1, <3>3, Zenon
    <3>5. /\ j \in Jobs /\ j.task = job.task /\ j.content = job.content
          /\ j.subtasks = job.subtasks \o new /\ j.todo = job.todo /\ j.src = job.src
      BY <1>10, <3>1, <3>4 DEF Kin
    <3> QED BY <2>1, <3>1, <3>5
  <2>2. CASE ~ spawns
    <3>1. new = <<>> /\ j = reported
      BY <2>2
    <3>2. job.subtasks \in Seq(Tasks)
      BY <1>2 DEF Jobs
    <3>3. reported.subtasks = job.subtasks \o <<>> /\ \A p : ~ Of(<<>>, p)
      BY <1>10, <3>2, NoneAdded DEF Kin, Of
    <3> HIDE DEF new, j
    <3> QED BY <1>10, <2>2, <3>1, <3>3 DEF Kin
  <2> QED BY <2>1, <2>2
<1>13. NewTasks(w, new)
  <2>1. CASE spawns
    <3>1. d \in DOMAIN fs' /\ NoPiece(fs', d)
      BY <1>2, <1>7, <1>9, <2>1
    <3>2. ~ Under(Path(w), d)
      BY <1>2, <1>3, BesideFacts, UnderOrder
    <3>3. \A p : Sub(w, p) => ~ Under(p, d) /\ ~ Under(d, p)
      BY <1>2, <1>3, <1>4, <1>5, ChildFacts
    <3> QED BY <1>2, <1>3, <2>1, <3>1, <3>2, <3>3, OneNew
  <2>2. CASE ~ spawns
    BY <2>2, NewNone
  <2> QED BY <2>1, <2>2
<1> HIDE DEF new, j
<1>14. Effect(w, new)
  BY <1>9, <1>13 DEF Effect
<1>15. NoPiece(fs', Path(w))
  BY <1>2, <1>9
<1>16. CASE ~ ShouldDelete(job)
  <2>1. Advance(w, j)
    BY <1>1, <1>16
  <2>2. \/ Whole(job)
        \/ /\ c \in DOMAIN fs' => fs'[c] = "dir"
           /\ \A p : Of(new, p) => Child(p, c)
    BY <1>5, <1>9, <1>12
  <2> QED BY <1>1, <1>9, <1>12, <1>14, <1>15, <2>1, <2>2, AdvanceOK DEF c
<1>17. CASE ShouldDelete(job)
  <2> DEFINE next == [j EXCEPT !.pc = "delete"]
  <2>1. Continue(w, next)
    BY <1>1, <1>17
  <2>2. next \in Jobs /\ Kin(next, j) /\ next.pc = "delete" /\ next.todo = j.todo /\ next.src = j.src
    <3>1. "delete" \in Pcs
      BY DEF Pcs
    <3>2. j \in Jobs
      BY <1>12
    <3> QED BY <3>1, <3>2, Zenon DEF Jobs, Kin
  <2> HIDE DEF next
  <2>3. /\ next.task = job.task /\ next.content = job.content /\ next.src = job.src
        /\ next.subtasks = job.subtasks \o new /\ CarveDir(next) = c
    BY <1>12, <2>2 DEF Kin, CarveDir, c
  <2>4. work'[w] = next /\ \A p : Sub(w, p)' <=> Sub(w, p) \/ Of(new, p)
    BY <1>1, <1>2, <1>12, <2>1, <2>2, <2>3, SubAfter
  <2>5. Whole(job) /\ job.task.depth # 0 /\ config.delete # "none" /\ config' = config
    BY <1>1, <1>17 DEF ShouldDelete, host
  <2>6. \A p : Sub(w, p)' => p = c
    BY <1>4, <1>6, <1>12, <2>4, <2>5
  <2>7. FileNext(w, next)
    BY <1>2, <1>9, <1>12, <2>2, <2>3, <2>5, <2>6 DEF FileNext, FilePcs, Whole
  <2>8. Local(w)'
    BY <2>4, <2>7, FileNextLocal
  <2>9. \A p : InRegion(w, p)' => InRegion(w, p)
    <3>1. work'[w].task = work[w].task /\ Engaged(work[w])
      BY <1>1, <2>3, <2>4 DEF Engaged
    <3> QED BY <3>1, SameRegion
  <2>10. Goes(w, new)
    BY <1>9, <1>15, <2>1, <2>2, <2>3, <2>8, <2>9 DEF Goes
  <2> QED BY <1>1, <1>14, <2>10 DEF StepOK
<1> QED BY <1>16, <1>17

LEMMA DeleteExtractedOK ==
  ASSUME IInv, RootInv, NEW w \in Workers, DeleteExtracted(w)
  PROVE  StepOK(w)
<1> DEFINE job == work[w]  c == CarveDir(job)  q == Path(w)
<1>1. /\ Busy(w) /\ job.pc = "delete" /\ job.pc \in FilePcs /\ UNCHANGED <<queue, results, host>>
  BY DEF DeleteExtracted, Busy, FilePcs
<1>2. /\ TypeOK /\ FsOK(fs) /\ job \in Jobs /\ FileLocal(w) /\ job.task.path = q /\ q \in DOMAIN fs
      /\ job.content \in Files /\ fs[q] = job.content /\ Local(w) /\ DOMAIN fs \subseteq Paths
      /\ q \in Paths /\ c = Beside(q) /\ Whole(job) /\ config.delete # "none" /\ job.task.depth # 0
      /\ \A p : Sub(w, p) => p = c
  BY <1>1, OwnFile DEF FileLocal
<1>3. job.src = q /\ fs[q] # "dir"
  BY <1>2, ContentFacts DEF Whole
<1>4. fs' = Without(fs, {q}) /\ Return(w, Report(job, "Deleted"))
  BY <1>2, <1>3 DEF DeleteExtracted, Exists
<1>5. Report(job, "Deleted") \in Jobs /\ Kin(Report(job, "Deleted"), job)
  <2>1. "Deleted" \in Reports
    BY DEF Reports
  <2> QED BY <1>2, <2>1, JobReport
<1>6. InRegion(w, q)
  BY <1>1, <1>2, RegionMembers
<1>7. q # InputPath
  BY <1>1, <1>2 DEF RootInv
<1>8. Last(q).ext = 0
  <2>1. Deleting
    BY <1>2 DEF TypeOK, Deleting
  <2> QED BY <1>2, <1>7, <2>1 DEF IInv, Plain
<1> HIDE DEF q, c
<1>9. /\ FsOK(fs') /\ DOMAIN fs' = DOMAIN fs \ {q}
      /\ \A p \in DOMAIN fs' : fs'[p] = fs[p]
  <2>1. \A x \in {q} : \A p \in DOMAIN fs \ {q} : ~ Under(p, x)
    BY <1>2, <1>3 DEF FsOK, Closed
  <2>2. FsOK(fs')
    BY <1>2, <1>4, <2>1, WithoutFacts
  <2> QED BY <1>4, <2>2 DEF Without
<1>10. Effect(w, <<>>)
  <2>1. Plain(fs')
    BY <1>9 DEF Plain, IInv
  <2>2. \A p : ~ InRegion(w, p) => Same(fs, fs', p)
    BY <1>6, <1>9 DEF Same
  <2>3. ASSUME NEW p, NEW x, Sub(w, x), Under(p, x) PROVE Same(fs, fs', p)
    <3>1. p # q
      BY <1>2, <2>3, BesideFacts, UnderOrder
    <3> QED BY <1>9, <3>1 DEF Same
  <2> QED BY <1>9, <2>1, <2>2, <2>3, NewNone DEF Effect
<1>11. Room(fs', q)
  BY <1>2, <1>9 DEF Room, FsOK, Closed
<1>12. Returns(w, <<>>)
  <2> DEFINE j == Report(job, "Deleted")
  <2>1. j.task = job.task /\ j.subtasks = job.subtasks \o <<>> /\ ResultOfJob(j) \in TaskResults
    <3> HIDE DEF j
    <3>1. j \in Jobs /\ Kin(j, job)
      BY <1>5 DEF j
    <3> QED BY <1>1, <3>1, OwnExists, NoneAdded, JobResult DEF Kin
  <2> HIDE DEF j
  <2>2. Return(w, j)
    BY <1>4 DEF j
  <2> QED BY <1>2, <1>8, <1>11, <2>1, <2>2 DEF Returns, q
<1> QED BY <1>1, <1>10, <1>12 DEF StepOK

-----------------------------------------------------------------------------
(* Directories                                                             *)

\* The local invariant after a step, of a worker on a directory.
DirNext(w, job) ==
  /\ job.pc \notin FilePcs
  /\ job.task.path \in DOMAIN fs' /\ fs'[job.task.path] = "dir"
  /\ \A p : Sub(w, p)' <=> p \in job.extract_dirs
  /\ \A p \in job.extract_dirs :
       /\ p \in DOMAIN fs'
       /\ \E j \in 1..Len(DirHandlers) : p = Append(job.task.path, Suffixed(DirHandlers[j].name))
  /\ IsFiniteSet(job.processed)
  /\ \A p \in job.processed :
       /\ p \in DOMAIN fs'
       /\ \E j \in 1..Len(DirHandlers) : \E n \in DirHandlers[j].parts : p = Append(job.task.path, n)
  /\ job.pc = "multi" => /\ job.todo <= Len(DirHandlers)
                         /\ MultiHere(job) \notin job.extract_dirs
                         /\ Bare(fs', MultiHere(job))
                         /\ MultiHere(job) \in DOMAIN fs' => fs'[MultiHere(job)] = "dir"

LEMMA DirNextLocal ==
  ASSUME NEW w \in Workers, NEW job, work'[w] = job, DirNext(w, job)
  PROVE  Local(w)'
<1>1. Path(w)' = job.task.path
  BY DEF Path
<1>2. DirLocal(w)'
  BY <1>1 DEF DirNext, DirLocal
<1> QED BY <1>2 DEF Local, DirNext

LEMMA OwnDir ==
  ASSUME IInv, NEW w \in Workers, Busy(w), work[w].pc \in {"dir_handler", "multi"}
  PROVE  /\ TypeOK /\ FsOK(fs) /\ Local(w) /\ DirLocal(w) /\ work[w] \in Jobs /\ work[w].pc \notin FilePcs
         /\ work[w].task.path = Path(w) /\ Path(w) \in Paths /\ NoPiece(fs, Path(w))
         /\ Path(w) \in DOMAIN fs /\ DOMAIN fs \subseteq Paths /\ InRegion(w, Path(w))
         /\ work[w].todo \in Nat \ {0}
<1>1. TypeOK /\ FsOK(fs) /\ LocalInv /\ CleanInv
  BY DEF IInv
<1>2. work[w].pc \notin FilePcs
  BY DEF FilePcs
<1>3. Local(w) /\ DirLocal(w) /\ Path(w) \in DOMAIN fs /\ NoPiece(fs, Path(w))
  BY <1>1, <1>2 DEF LocalInv, Local, DirLocal, CleanInv
<1>4. DOMAIN fs \subseteq Paths /\ work[w].task.path = Path(w)
  BY <1>1 DEF FsOK, FileTree, Path
<1>5. work[w] \in Jobs /\ InRegion(w, Path(w)) /\ work[w].todo \in Nat \ {0}
  BY <1>1, <1>3, OwnExists, RegionMembers DEF Jobs
<1> QED BY <1>1, <1>2, <1>3, <1>4, <1>5, OwnExists

\* The names of what the handlers of directories take and make.
LEMMA HandlerFacts ==
  ASSUME NEW j \in 1..Len(DirHandlers)
  PROVE  /\ DirHandlers[j].trigger \in Names /\ Suffixed(DirHandlers[j].name) \in Names
         /\ DirHandlers[j].parts \subseteq Names /\ IsFiniteSet(DirHandlers[j].parts)
         /\ TreeOK(DirHandlers[j].tree) /\ Len(DirHandlers) \in Nat
<1>1. HandlerOK(DirHandlers[j]) /\ DirHandlers \in Seq(Range(DirHandlers))
  BY ProcessingAssumption
<1>2. Len(DirHandlers) \in Nat
  BY <1>1
<1> QED BY <1>1, <1>2, SuffixedFacts DEF HandlerOK

LEMMA NewDir ==
  ASSUME IInv, NEW w \in Workers, Busy(w), NEW d \in Paths, d \notin DOMAIN fs, Room(fs, d), InRegion(w, d),
         \A x : Sub(w, x) => ~ Under(d, x), fs' = With(fs, {d}, "dir")
  PROVE  /\ Effect(w, <<>>)
         /\ DOMAIN fs' = DOMAIN fs \cup {d} /\ (\A p \in DOMAIN fs : fs'[p] = fs[p]) /\ fs'[d] = "dir"
         /\ \A x : NoPiece(fs, x) => NoPiece(fs', x)
<1>1. FsOK(fs)
  BY DEF IInv
<1>2. /\ FsOK(fs') /\ DOMAIN fs' = DOMAIN fs \cup {d}
      /\ \A p \in DOMAIN fs : fs'[p] = fs[p]
      /\ fs'[d] = "dir"
  <2>1. \A g : g = With(fs, {d}, "dir") => FsOK(g)
    BY <1>1, WithDir
  <2>2. /\ DOMAIN fs' = DOMAIN fs \cup {d}
        /\ \A p \in DOMAIN fs : fs'[p] = fs[p]
        /\ fs'[d] = "dir"
    BY DEF With
  <2> QED BY <2>1, <2>2
<1>3. Plain(fs')
  <2>1. "dir" \notin Files
    BY ProcessingAssumption
  <2> QED BY <1>2, <2>1 DEF Plain, IInv
<1>4. \A p : ~ InRegion(w, p) => Same(fs, fs', p)
  BY <1>2 DEF Same
<1>5. \A p, x : Sub(w, x) /\ Under(p, x) => Same(fs, fs', p)
  BY <1>2 DEF Same
<1>6. Effect(w, <<>>)
  BY <1>2, <1>3, <1>4, <1>5, NewNone DEF Effect
<1> QED BY <1>2, <1>6 DEF NoPiece

LEMMA DirHandlerOK ==
  ASSUME IInv, NEW w \in Workers, DirHandlerHere(w)
  PROVE  StepOK(w)
<1> DEFINE job == work[w]  q == Path(w)  m == MultiHere(job)
<1>1. /\ Busy(w) /\ job.pc = "dir_handler" /\ UNCHANGED <<queue, results, host>> /\ job.todo <= Len(DirHandlers)
  BY DEF DirHandlerHere, Busy
<1>2. /\ TypeOK /\ FsOK(fs) /\ Local(w) /\ DirLocal(w) /\ job \in Jobs /\ job.task.path = q /\ q \in Paths
      /\ NoPiece(fs, q) /\ q \in DOMAIN fs /\ fs[q] = "dir" /\ DOMAIN fs \subseteq Paths /\ InRegion(w, q)
      /\ job.todo \in Nat \ {0}
  BY <1>1, OwnDir DEF DirLocal
<1>3. job.todo \in 1..Len(DirHandlers)
  BY <1>1, <1>2, ProcessingAssumption
<1>4. ASSUME NEW r \in Reports, Return(w, Report(job, r)), fs' = fs PROVE StepOK(w)
  <2>1. Report(job, r) \in Jobs /\ Kin(Report(job, r), job)
    BY <1>2, JobReport
  <2> QED BY <1>1, <1>4, <2>1, QuitOK
<1>5. ASSUME NEW new \in Jobs, Kin(new, job), Continue(w, new), new.pc \in {"dir_handler", "multi"},
             new.extract_dirs = job.extract_dirs, new.processed = job.processed
      PROVE  /\ work'[w] = new /\ new.task.path = q
             /\ \A p : Sub(w, p)' <=> p \in new.extract_dirs
             /\ \A p : InRegion(w, p)' => InRegion(w, p)
  <2>1. work'[w] = new /\ \A p : Sub(w, p)' <=> Sub(w, p)
    BY <1>1, <1>2, <1>5, SubSame
  <2>2. work'[w].task = work[w].task /\ ~ Engaged(work'[w])
    BY <1>5, <2>1 DEF Kin, Engaged
  <2>3. \A p : InRegion(w, p)' => InRegion(w, p)
    BY <2>2, SameRegion
  <2> QED BY <1>2, <1>5, <2>1, <2>2, <2>3 DEF DirLocal
<1>6. CASE ~ Exists(Append(job.task.path, Handler(job).trigger))
  <2> DEFINE new == [job EXCEPT !.todo = @ + 1]
  <2>1. Continue(w, new) /\ fs' = fs
    BY <1>6 DEF DirHandlerHere
  <2>2. /\ new \in Jobs /\ Kin(new, job) /\ new.pc = "dir_handler"
        /\ new.processed = job.processed /\ new.extract_dirs = job.extract_dirs
    BY <1>1, <1>2, JobTodo
  <2> HIDE DEF new
  <2>3. /\ work'[w] = new /\ new.task.path = q
        /\ \A p : Sub(w, p)' <=> p \in new.extract_dirs
        /\ \A p : InRegion(w, p)' => InRegion(w, p)
    BY <1>5, <2>1, <2>2
  <2>4. DirNext(w, new)
    BY <1>2, <2>1, <2>2, <2>3 DEF DirNext, DirLocal, FilePcs
  <2>5. Local(w)'
    BY <2>3, <2>4, DirNextLocal
  <2> QED BY <1>1, <2>1, <2>2, <2>3, <2>5, GoOK
<1>7. CASE Exists(Append(job.task.path, Handler(job).trigger)) /\ Parts(job) \cap job.processed # {}
  <2>1. Return(w, Report(job, "MultiFileCollision")) /\ fs' = fs
    BY <1>7 DEF DirHandlerHere
  <2>2. "MultiFileCollision" \in Reports
    BY DEF Reports
  <2> QED BY <1>4, <2>1, <2>2
<1>8. CASE /\ Exists(Append(job.task.path, Handler(job).trigger)) /\ ~ (Parts(job) \cap job.processed # {})
           /\ Exists(m)
  <2>1. Return(w, Report(job, "MultiOutputExists")) /\ fs' = fs
    BY <1>8 DEF DirHandlerHere
  <2>2. "MultiOutputExists" \in Reports
    BY DEF Reports
  <2> QED BY <1>4, <2>1, <2>2
<1>9. CASE /\ Exists(Append(job.task.path, Handler(job).trigger)) /\ ~ (Parts(job) \cap job.processed # {})
           /\ ~ Exists(m)
  <2> DEFINE new == [job EXCEPT !.pc = "multi", !.extract_dir = m]
  <2>1. Continue(w, new) /\ (fs' = fs \/ fs' = With(fs, {m}, "dir"))
    BY <1>9 DEF DirHandlerHere
  <2>2. /\ new \in Jobs /\ Kin(new, job) /\ new.pc = "multi" /\ new.todo = job.todo
        /\ new.processed = job.processed /\ new.extract_dirs = job.extract_dirs
    <3>1. m \in Paths
      <4>1. Suffixed(Handler(job).name) \in Names
        BY <1>3, HandlerFacts DEF Handler
      <4> QED BY <1>2, <4>1, AppendFacts DEF MultiHere
    <3> HIDE DEF m
    <3> QED BY <1>2, <3>1, JobMulti
  <2> HIDE DEF new
  <2>3. /\ work'[w] = new /\ new.task.path = q
        /\ \A p : Sub(w, p)' <=> p \in new.extract_dirs
        /\ \A p : InRegion(w, p)' => InRegion(w, p)
    BY <1>5, <2>1, <2>2
  <2>4. MultiHere(new) = m
    BY <1>2, <2>2, <2>3 DEF MultiHere, Handler
  <2>5. m \in Paths /\ Child(m, q) /\ m \notin DOMAIN fs /\ InRegion(w, m)
    <3>1. m = Append(q, Suffixed(DirHandlers[job.todo].name))
      BY <1>2 DEF MultiHere, Handler
    <3>2. Suffixed(DirHandlers[job.todo].name) \in Names
      BY <1>3, HandlerFacts
    <3> HIDE DEF m
    <3>3. m \in Paths /\ Child(m, q)
      BY <1>2, <3>1, <3>2, AppendFacts
    <3> QED BY <1>1, <1>2, <1>9, <3>3, ChildFacts, RegionDown DEF Exists
  <2> HIDE DEF m, q
  <2>6. Room(fs, m)
    BY <1>2, <2>5, RoomInDir
  <2>7. \A x : Sub(w, x) => ~ Under(m, x)
    <3>1. \A x : Sub(w, x) => x \in DOMAIN fs /\ x \in Paths /\ Child(x, q)
      BY <1>1, <1>2, OwnDir, OwnExists, RegionMembers DEF DirLocal, q
    <3> QED BY <1>2, <2>5, <3>1, ChildFacts
  <2>8. \A p \in DOMAIN fs : ~ Under(p, m)
    BY <1>2, <2>5 DEF FsOK, Closed
  <2>9. /\ Effect(w, <<>>) /\ NoPiece(fs', q) /\ (\A p \in DOMAIN fs : p \in DOMAIN fs' /\ fs'[p] = fs[p])
        /\ \A p \in DOMAIN fs' \ DOMAIN fs : p = m /\ fs'[p] = "dir"
    <3>1. CASE fs' = fs
      BY <1>2, <3>1, EffectNone
    <3>2. CASE fs' = With(fs, {m}, "dir")
      <4>1. /\ Effect(w, <<>>)
            /\ DOMAIN fs' = DOMAIN fs \cup {m} /\ (\A p \in DOMAIN fs : fs'[p] = fs[p]) /\ fs'[m] = "dir"
            /\ \A x : NoPiece(fs, x) => NoPiece(fs', x)
        BY <1>1, <2>5, <2>6, <2>7, <3>2, NewDir
      <4> QED BY <1>2, <4>1
    <3> QED BY <2>1, <3>1, <3>2
  <2>10. Bare(fs', m) /\ (m \in DOMAIN fs' => fs'[m] = "dir") /\ m \notin job.extract_dirs
    BY <1>2, <2>5, <2>8, <2>9 DEF Bare, DirLocal
  <2>11. DirNext(w, new)
    <3>1. new.pc \notin FilePcs
      BY <2>2 DEF FilePcs
    <3> QED BY <1>1, <1>2, <2>2, <2>3, <2>4, <2>9, <2>10, <3>1 DEF DirNext, DirLocal, q
  <2>12. Local(w)'
    BY <2>3, <2>11, DirNextLocal
  <2> QED BY <1>1, <1>2, <2>1, <2>2, <2>3, <2>9, <2>12, KeepsGoing DEF q
<1> QED BY <1>6, <1>7, <1>8, <1>9

LEMMA PartsFacts ==
  ASSUME IInv, NEW w \in Workers, Busy(w), work[w].pc \in {"dir_handler", "multi"}, work[w].todo \in 1..Len(DirHandlers)
  PROVE  /\ Parts(work[w]) \in SUBSET Paths /\ IsFiniteSet(Parts(work[w]))
         /\ \A p \in Parts(work[w]) :
              /\ p \in DOMAIN fs
              /\ \E j \in 1..Len(DirHandlers) : \E n \in DirHandlers[j].parts : p = Append(Path(w), n)
<1> DEFINE q == Path(w)  S == DirHandlers[work[w].todo].parts
<1>1. q \in Paths /\ work[w].task.path = q
  BY OwnDir
<1>2. S \subseteq Names /\ IsFiniteSet(S)
  BY HandlerFacts
<1>3. Parts(work[w]) = {p \in {Append(q, n) : n \in S} : p \in DOMAIN fs}
  BY <1>1 DEF Parts, Handler, Exists
<1>4. IsFiniteSet({Append(q, n) : n \in S})
  <2> HIDE DEF q, S
  <2> QED BY <1>1, <1>2, UnknownFiles
<1>5. Parts(work[w]) \subseteq {Append(q, n) : n \in S}
  BY <1>3
<1>6. IsFiniteSet(Parts(work[w]))
  BY <1>4, <1>5, FS_Subset
<1>7. \A p \in Parts(work[w]) :
        /\ p \in DOMAIN fs
        /\ \E j \in 1..Len(DirHandlers) : \E n \in DirHandlers[j].parts : p = Append(q, n)
  BY <1>3
<1>8. DOMAIN fs \subseteq Paths
  BY OwnDir
<1> QED BY <1>6, <1>7, <1>8

LEMMA ExtractMultiOK ==
  ASSUME IInv, DeletesApart, NEW w \in Workers, ExtractMultiHere(w)
  PROVE  StepOK(w)
<1> DEFINE job == work[w]  q == Path(w)  m == MultiHere(job)
           reported == IF Handler(job).result = "error" THEN Report(job, "MultiError") ELSE job
           P == Parts(job)
           next == [reported EXCEPT !.processed = @ \cup P, !.todo = @ + 1, !.pc = "dir_handler"]
           tree == Handler(job).tree
<1>1. /\ Busy(w) /\ job.pc = "multi" /\ UNCHANGED <<queue, results, host>>
  BY DEF ExtractMultiHere, Busy
<1>2. /\ TypeOK /\ FsOK(fs) /\ Local(w) /\ DirLocal(w) /\ job \in Jobs /\ job.task.path = q /\ q \in Paths
      /\ NoPiece(fs, q) /\ q \in DOMAIN fs /\ fs[q] = "dir" /\ DOMAIN fs \subseteq Paths /\ InRegion(w, q)
      /\ job.todo \in Nat \ {0} /\ job.todo <= Len(DirHandlers)
      /\ m \notin job.extract_dirs /\ Bare(fs, m) /\ (m \in DOMAIN fs => fs[m] = "dir")
  BY <1>1, OwnDir DEF DirLocal
<1>3. job.todo \in 1..Len(DirHandlers)
  BY <1>1, <1>2, ProcessingAssumption
<1>4. /\ m \in Paths /\ Child(m, q) /\ InRegion(w, m) /\ Under(m, q) /\ ~ Under(q, m)
      /\ m = Append(q, Suffixed(DirHandlers[job.todo].name))
  <2>1. m = Append(q, Suffixed(DirHandlers[job.todo].name))
    BY <1>2 DEF MultiHere, Handler
  <2>2. Suffixed(DirHandlers[job.todo].name) \in Names
    BY <1>3, HandlerFacts
  <2> HIDE DEF m
  <2>3. m \in Paths /\ Child(m, q)
    BY <1>2, <2>1, <2>2, AppendFacts
  <2> QED BY <1>1, <1>2, <2>1, <2>3, ChildFacts, RegionDown
<1>5. /\ P \in SUBSET Paths /\ IsFiniteSet(P)
      /\ \A p \in P : /\ p \in DOMAIN fs
                      /\ \E j \in 1..Len(DirHandlers) : \E n \in DirHandlers[j].parts : p = Append(q, n)
  BY <1>1, <1>3, PartsFacts
<1>6. /\ TreeOK(tree) /\ (Deleting => PlainTree(tree))
  BY <1>3, HandlerFacts DEF Handler, DeletesApart
<1>7. /\ reported \in Jobs /\ Kin(reported, job)
      /\ reported.processed = job.processed /\ reported.extract_dirs = job.extract_dirs
  <2>1. CASE Handler(job).result = "error"
    <3>1. "MultiError" \in Reports
      BY DEF Reports
    <3> QED BY <1>2, <2>1, <3>1, JobReport
  <2>2. CASE Handler(job).result # "error"
    BY <1>2, <2>2 DEF Kin
  <2> QED BY <2>1, <2>2
<1>8. IF Exists(m) THEN /\ fs' = WithTree(fs, m, tree)
                        /\ Continue(w, Spawn([next EXCEPT !.extract_dirs = @ \cup {m}],
                                             <<SubTask(m, job.task.depth + 1)>>))
      ELSE fs' = fs /\ Continue(w, next)
  BY DEF ExtractMultiHere
<1>9. \A x : Sub(w, x) => x \in Paths /\ Child(x, q) /\ x # m
  BY <1>1, <1>2, OwnExists, RegionMembers, OwnDir DEF DirLocal
<1> HIDE DEF reported, P, tree, m, q
<1>10. /\ next \in Jobs /\ Kin(next, reported) /\ next.pc = "dir_handler"
       /\ next.processed = reported.processed \cup P /\ next.extract_dirs = reported.extract_dirs
  BY <1>5, <1>7, JobProcessed
<1> HIDE DEF next
<1>11. /\ Kin(next, job) /\ next.processed = job.processed \cup P /\ next.extract_dirs = job.extract_dirs
  BY <1>7, <1>10 DEF Kin
<1>12. /\ IsFiniteSet(next.processed)
       /\ \A p \in next.processed :
            /\ p \in DOMAIN fs
            /\ \E j \in 1..Len(DirHandlers) : \E n \in DirHandlers[j].parts : p = Append(q, n)
  <2>1. IsFiniteSet(job.processed) /\ \A p \in job.processed :
            /\ p \in DOMAIN fs
            /\ \E j \in 1..Len(DirHandlers) : \E n \in DirHandlers[j].parts : p = Append(q, n)
    BY <1>2 DEF DirLocal, q
  <2>2. IsFiniteSet(job.processed \cup P)
    BY <1>5, <2>1, FS_Union
  <2>3. IsFiniteSet(next.processed) /\ \A p \in next.processed : p \in job.processed \/ p \in P
    BY <1>11, <2>2
  <2> QED BY <1>5, <2>1, <2>3, Zenon
<1>13. /\ next.task.path = q /\ next.pc \notin FilePcs /\ ~ Engaged(next)
  BY <1>2, <1>10, <1>11 DEF Kin, FilePcs, Engaged
<1>14. CASE ~ Exists(m)
  <2>1. fs' = fs /\ Continue(w, next)
    BY <1>8, <1>14
  <2>2. work'[w] = next /\ \A p : Sub(w, p)' <=> Sub(w, p)
    BY <1>1, <1>2, <1>10, <1>11, <2>1, SubSame
  <2>3. DirNext(w, next)
    BY <1>2, <1>10, <1>11, <1>12, <1>13, <2>1, <2>2 DEF DirNext, DirLocal, q
  <2>4. Local(w)'
    BY <2>2, <2>3, DirNextLocal
  <2>5. \A p : InRegion(w, p)' => InRegion(w, p)
    <3>1. work'[w].task = work[w].task /\ ~ Engaged(work'[w])
      BY <1>11, <1>13, <2>2 DEF Kin
    <3> QED BY <3>1, SameRegion
  <2> QED BY <1>1, <1>10, <1>11, <2>1, <2>4, <2>5, GoOK
<1>15. CASE Exists(m)
  <2> DEFINE ext == [next EXCEPT !.extract_dirs = @ \cup {m}]
             new == <<SubTask(m, job.task.depth + 1)>>
             j == Spawn(ext, new)
  <2>1. m \in DOMAIN fs /\ fs[m] = "dir" /\ fs' = WithTree(fs, m, tree) /\ Continue(w, j)
    BY <1>2, <1>8, <1>15 DEF Exists
  <2>2. job.task.depth \in Nat
    BY <1>2 DEF Jobs, Tasks
  <2>3. new \in Seq(Tasks) /\ \A p : Of(new, p) <=> p = m
    BY <1>4, <2>2, OneTask
  <2>4. /\ ext \in Jobs /\ Kin(ext, next) /\ ext.pc = next.pc /\ ext.processed = next.processed
        /\ ext.extract_dirs = next.extract_dirs \cup {m}
    BY <1>4, <1>10, JobExtracted
  <2> HIDE DEF ext, new
  <2>5. LET s == Spawn(ext, new) IN
        /\ s \in Jobs /\ s.task = ext.task /\ s.subtasks = ext.subtasks \o new
        /\ s.pc = ext.pc /\ s.processed = ext.processed /\ s.extract_dirs = ext.extract_dirs
    BY <2>3, <2>4, JobSpawn
  <2>6. /\ j \in Jobs /\ j.task = ext.task /\ j.subtasks = ext.subtasks \o new
        /\ j.pc = ext.pc /\ j.processed = ext.processed /\ j.extract_dirs = ext.extract_dirs
    BY <2>5, Zenon
  <2> HIDE DEF j
  <2>7. /\ j.task = job.task /\ j.subtasks = job.subtasks \o new /\ j.pc = "dir_handler"
        /\ j.processed = next.processed /\ j.extract_dirs = job.extract_dirs \cup {m}
        /\ j.task.path = q /\ j.pc \notin FilePcs /\ ~ Engaged(j)
    BY <1>10, <1>11, <1>13, <2>4, <2>6 DEF Kin, Engaged
  <2>8. ASSUME NEW x, Sub(w, x) PROVE ~ Under(m, x) /\ ~ Under(x, m)
    <3>1. x \in Paths /\ m \in Paths /\ q \in Paths /\ Child(x, q) /\ Child(m, q) /\ x # m
      BY <1>2, <1>4, <1>9, <2>8
    <3> QED BY <3>1, ChildFacts
  <2>9. /\ \A ts : NewTasks(w, ts) => Effect(w, ts)
        /\ \A p \in DOMAIN fs : p \in DOMAIN fs' /\ fs'[p] = fs[p]
        /\ \A x : NoPiece(fs, x) => NoPiece(fs', x)
    BY <1>1, <1>2, <1>4, <1>6, <2>1, <2>8, TreeEffect
  <2>10. NoPiece(fs', q) /\ NoPiece(fs', m)
    <3>1. NoPiece(fs, m)
      BY <1>2, <1>4, UnderOrder DEF NoPiece
    <3> QED BY <1>2, <2>9, <3>1
  <2>11. NewTasks(w, new)
    <3>1. ~ Sub(w, m) /\ m \in DOMAIN fs' /\ ~ Under(Path(w), m)
      BY <1>4, <1>9, <2>1, <2>9 DEF q
    <3> QED BY <1>4, <2>2, <2>8, <2>10, <3>1, OneNew DEF new
  <2>12. work'[w] = j /\ \A p : Sub(w, p)' <=> Sub(w, p) \/ Of(new, p)
    BY <1>1, <1>2, <2>1, <2>3, <2>6, <2>7, SubAfter
  <2>13. DirNext(w, j)
    <3>1. \A p : Sub(w, p)' <=> p \in j.extract_dirs
      BY <1>2, <2>3, <2>7, <2>12 DEF DirLocal
    <3>2. \A p \in j.extract_dirs :
             /\ p \in DOMAIN fs'
             /\ \E i \in 1..Len(DirHandlers) : p = Append(q, Suffixed(DirHandlers[i].name))
      BY <1>2, <1>3, <1>4, <2>1, <2>7, <2>9 DEF DirLocal, q
    <3>3. \A p \in j.processed :
             /\ p \in DOMAIN fs'
             /\ \E i \in 1..Len(DirHandlers) : \E n \in DirHandlers[i].parts : p = Append(q, n)
      BY <1>12, <2>7, <2>9
    <3>4. q \in DOMAIN fs' /\ fs'[q] = "dir" /\ IsFiniteSet(j.processed)
      BY <1>2, <1>12, <2>7, <2>9
    <3> QED BY <2>7, <3>1, <3>2, <3>3, <3>4 DEF DirNext
  <2>14. Local(w)'
    BY <2>12, <2>13, DirNextLocal
  <2>15. \A p : InRegion(w, p)' => InRegion(w, p)
    <3>1. work'[w].task = work[w].task /\ ~ Engaged(work'[w])
      BY <2>7, <2>12
    <3> QED BY <3>1, SameRegion
  <2>16. Goes(w, new)
    BY <1>2, <2>1, <2>6, <2>7, <2>9, <2>10, <2>14, <2>15 DEF Goes, q
  <2>17. Effect(w, new)
    BY <2>9, <2>11
  <2> QED BY <1>1, <2>16, <2>17 DEF StepOK
<1> QED BY <1>14, <1>15

\* A set of tasks, listed.
LEMMA ListFacts ==
  ASSUME NEW S, IsFiniteSet(S), S \subseteq Tasks, NEW s, s \in SetToSeqs(S) \/ s = SetToSeq(S)
  PROVE  /\ s \in Seq(Tasks)
         /\ \A i \in DOMAIN s : s[i] \in S
         /\ \A i, j \in DOMAIN s : s[i] = s[j] => i = j
         /\ \A t \in S : \E i \in DOMAIN s : s[i] = t
<1>1. PICK n \in Nat : n = Cardinality(S) /\ ExistsBijection(1..n, S)
  BY FS_CardinalityType
<1>2. s \in [1..n -> S] /\ \A i, j \in 1..n : s[i] = s[j] => i = j
  <2>1. CASE s \in SetToSeqs(S)
    BY <1>1, <2>1 DEF SetToSeqs
  <2>2. CASE s = SetToSeq(S)
    <3>1. PICK f \in [1..n -> S] : IsInjective(f)
      <4>1. PICK f : f \in Bijection(1..n, S)
        BY <1>1 DEF ExistsBijection
      <4>2. f \in [1..n -> S] /\ IsInjective(f)
        BY <4>1 DEF Bijection, Injection, IsInjective
      <4> QED BY <4>2
    <3>2. s = CHOOSE g \in [1..n -> S] : IsInjective(g)
      BY <1>1, <2>2 DEF SetToSeq
    <3>3. s \in [1..n -> S] /\ IsInjective(s)
      BY <3>1, <3>2
    <3> QED BY <3>3 DEF IsInjective
  <2> QED BY <2>1, <2>2
<1>3. s \in Seq(Tasks) /\ DOMAIN s = 1..n
  <2>1. s \in [1..n -> Tasks]
    BY <1>2
  <2> QED BY <1>1, <2>1
<1>4. \A t \in S : \E i \in 1..n : s[i] = t
  <2>1. s \in Injection(1..n, S)
    BY <1>2 DEF Injection, IsInjective
  <2>2. Cardinality(1..n) = n
    BY <1>1, FS_Interval
  <2>3. s \in Surjection(1..n, S)
    BY <1>1, <2>1, <2>2, FS_Injection
  <2> QED BY <2>3 DEF Surjection
<1> QED BY <1>2, <1>3, <1>4

\* A list of tasks of distinct paths.
Distinct(s) == \A i, j \in DOMAIN s : s[i].path = s[j].path => i = j

LEMMA TwoLists ==
  ASSUME NEW a \in Seq(Tasks), NEW b \in Seq(Tasks), Distinct(a), Distinct(b),
         \A p : ~ (Of(a, p) /\ Of(b, p))
  PROVE  /\ a \o b \in Seq(Tasks) /\ Distinct(a \o b)
         /\ \A p : Of(a \o b, p) <=> Of(a, p) \/ Of(b, p)
<1> DEFINE u == a \o b  n == Len(a)
<1>1. /\ u \in Seq(Tasks) /\ n \in Nat
      /\ \A i \in DOMAIN u : \/ i \in DOMAIN a /\ u[i] = a[i]
                             \/ \E j \in DOMAIN b : i = n + j /\ u[i] = b[j] /\ i \notin DOMAIN a
      /\ \A i \in DOMAIN a : i \in DOMAIN u /\ u[i] = a[i]
      /\ \A j \in DOMAIN b : n + j \in DOMAIN u /\ u[n + j] = b[j]
  BY ConcatCases
<1> HIDE DEF u, n
<1>2. \A p : Of(u, p) <=> Of(a, p) \/ Of(b, p)
  BY <1>1 DEF Of
<1>3. ASSUME NEW i \in DOMAIN u, NEW j \in DOMAIN u, u[i].path = u[j].path PROVE i = j
  <2>1. CASE i \in DOMAIN a /\ j \in DOMAIN a
    BY <1>1, <1>3, <2>1 DEF Distinct
  <2>2. CASE i \in DOMAIN a /\ j \notin DOMAIN a
    BY <1>1, <1>3, <2>2 DEF Of
  <2>3. CASE i \notin DOMAIN a /\ j \in DOMAIN a
    BY <1>1, <1>3, <2>3 DEF Of
  <2>4. CASE i \notin DOMAIN a /\ j \notin DOMAIN a
    <3>1. PICK k \in DOMAIN b : i = n + k /\ u[i] = b[k]
      BY <1>1, <2>4
    <3>2. PICK l \in DOMAIN b : j = n + l /\ u[j] = b[l]
      BY <1>1, <2>4
    <3> QED BY <1>3, <3>1, <3>2 DEF Distinct
  <2> QED BY <2>1, <2>2, <2>3, <2>4
<1>4. Distinct(u)
  BY <1>3 DEF Distinct
<1> QED BY <1>1, <1>2, <1>4 DEF u

\* The tasks for a set of paths.
LEMMA TasksOf ==
  ASSUME NEW C, IsFiniteSet(C), C \subseteq Paths, NEW n \in Nat, NEW b \in BOOLEAN,
         NEW S, S = {[path |-> p, depth |-> n, multi |-> b] : p \in C},
         NEW s, s \in SetToSeqs(S) \/ s = SetToSeq(S)
  PROVE  /\ s \in Seq(Tasks) /\ Distinct(s)
         /\ \A p : Of(s, p) <=> p \in C
<1>1. S \subseteq Tasks
  BY DEF Tasks
<1>2. IsFiniteSet(S)
  <2>1. [p \in C |-> [path |-> p, depth |-> n, multi |-> b]] \in Surjection(C, S)
    BY DEF Surjection
  <2> QED BY <2>1, FS_Surjection
<1>3. /\ s \in Seq(Tasks)
      /\ \A i \in DOMAIN s : s[i] \in S
      /\ \A i, j \in DOMAIN s : s[i] = s[j] => i = j
      /\ \A t \in S : \E i \in DOMAIN s : s[i] = t
  BY <1>1, <1>2, ListFacts
<1>4. ASSUME NEW t \in S PROVE t.path \in C /\ t = [path |-> t.path, depth |-> n, multi |-> b]
  <2>1. PICK p \in C : t = [path |-> p, depth |-> n, multi |-> b]
    OBVIOUS
  <2> QED BY <2>1
<1>5. Distinct(s)
  BY <1>3, <1>4 DEF Distinct
<1>6. ASSUME NEW p, Of(s, p) PROVE p \in C
  BY <1>3, <1>4, <1>6 DEF Of
<1>7. ASSUME NEW p \in C PROVE Of(s, p)
  <2>1. PICK t \in S : t.path = p
    <3>1. [path |-> p, depth |-> n, multi |-> b] \in S /\ [path |-> p, depth |-> n, multi |-> b].path = p
      OBVIOUS
    <3> QED BY <3>1
  <2>2. PICK i \in DOMAIN s : s[i] = t
    BY <1>3
  <2> QED BY <2>1, <2>2 DEF Of
<1> QED BY <1>3, <1>5, <1>6, <1>7

LEMMA IterateOK ==
  ASSUME IInv, PartsApart, NEW w \in Workers, Iterate(w)
  PROVE  StepOK(w) /\ \A p \in DOMAIN fs : Child(p, Path(w)) => Tasked(p)'
<1> DEFINE job == work[w]  q == Path(w)  n == job.task.depth
           C == {p \in DOMAIN fs : Child(p, q)} \ (job.extract_dirs \cup job.processed)
           P == job.processed
           tasks == {[path |-> p, depth |-> n, multi |-> FALSE] : p \in C}
           multi == {[path |-> p, depth |-> n, multi |-> TRUE] : p \in P}
<1>1. /\ Busy(w) /\ job.pc = "dir_handler" /\ UNCHANGED <<queue, results, host>> /\ fs' = fs
  BY DEF Iterate, Busy
<1>2. /\ TypeOK /\ FsOK(fs) /\ Local(w) /\ DirLocal(w) /\ job \in Jobs /\ job.task.path = q /\ q \in Paths
      /\ NoPiece(fs, q) /\ q \in DOMAIN fs /\ DOMAIN fs \subseteq Paths /\ IsFiniteSet(DOMAIN fs)
      /\ InRegion(w, q)
  BY <1>1, OwnDir DEF FsOK, FileTree
<1>3. PICK order : order \in SetToSeqs(tasks) /\ Return(w, Spawn(job, order \o SetToSeq(multi)))
  BY <1>2 DEF Iterate, SubTask, MultiTask
<1>4. n \in Nat
  BY <1>2 DEF Jobs, Tasks
<1>5. /\ \A x : Sub(w, x) <=> x \in job.extract_dirs
      /\ IsFiniteSet(P)
      /\ \A p \in P : p \in DOMAIN fs
  BY <1>2 DEF DirLocal
<1>6. /\ \A p \in job.extract_dirs : p \in Paths /\ Child(p, q)
      /\ \A p \in P : p \in Paths /\ Child(p, q)
  BY <1>1, <1>2, OwnDir, RegionMembers DEF InRegion
<1>7. \A p \in P : p \notin job.extract_dirs
  <2> SUFFICES ASSUME NEW p \in P, p \in job.extract_dirs PROVE FALSE
    OBVIOUS
  <2>1. PICK i \in 1..Len(DirHandlers) : p = Append(q, Suffixed(DirHandlers[i].name))
    BY <1>2 DEF DirLocal
  <2>2. PICK j \in 1..Len(DirHandlers) : \E k \in DirHandlers[j].parts : p = Append(q, k)
    BY <1>2 DEF DirLocal
  <2>3. PICK k \in DirHandlers[j].parts : p = Append(q, k)
    BY <2>2
  <2>4. k \in Names /\ Suffixed(DirHandlers[i].name) \in Names
    BY HandlerFacts
  <2> HIDE DEF q
  <2>5. k = Suffixed(DirHandlers[i].name)
    BY <1>2, <2>1, <2>3, <2>4, AppendFacts
  <2> QED BY <2>5 DEF PartsApart
<1>8. IsFiniteSet(C) /\ C \subseteq Paths /\ P \subseteq Paths
  <2>1. C \in SUBSET DOMAIN fs
    OBVIOUS
  <2>2. IsFiniteSet(C)
    BY <1>2, <2>1, FS_Subset
  <2> QED BY <1>2, <1>6, <2>2
<1>9. /\ \A p \in C : p \in DOMAIN fs /\ Child(p, q) /\ p \notin job.extract_dirs /\ p \notin P
      /\ \A p \in DOMAIN fs : Child(p, q) => p \in C \/ p \in P \/ p \in job.extract_dirs
  OBVIOUS
<1> DEFINE rest == SetToSeq(multi)
<1>10. /\ order \in Seq(Tasks) /\ Distinct(order) /\ \A p : Of(order, p) <=> p \in C
  <2> HIDE DEF C, n
  <2>1. \A s : s \in SetToSeqs(tasks) => s \in Seq(Tasks) /\ Distinct(s) /\ \A p : Of(s, p) <=> p \in C
    BY <1>4, <1>8, TasksOf
  <2> QED BY <1>3, <2>1
<1>11. /\ rest \in Seq(Tasks) /\ Distinct(rest) /\ \A p : Of(rest, p) <=> p \in P
  <2> HIDE DEF P, n
  <2>1. \A s : s = SetToSeq(multi) => s \in Seq(Tasks) /\ Distinct(s) /\ \A p : Of(s, p) <=> p \in P
    BY <1>4, <1>5, <1>8, TasksOf
  <2> QED BY <2>1
<1> HIDE DEF C, P, n, tasks, multi, rest
<1> DEFINE new == order \o rest
<1>12. new \in Seq(Tasks) /\ Distinct(new) /\ \A p : Of(new, p) <=> p \in C \/ p \in P
  <2>1. \A p : ~ (Of(order, p) /\ Of(rest, p))
    BY <1>9, <1>10, <1>11
  <2> QED BY <1>10, <1>11, <2>1, TwoLists
<1> HIDE DEF new
<1>13. \A d : Of(new, d) => d \in Paths /\ d \in DOMAIN fs /\ Child(d, q) /\ ~ Sub(w, d)
  BY <1>2, <1>5, <1>6, <1>7, <1>9, <1>12
<1> HIDE DEF q
<1>14. NewTasks(w, new)
  <2>1. ASSUME NEW d, Of(new, d)
        PROVE  /\ InRegion(w, d) /\ d \in DOMAIN fs' /\ ~ Under(Path(w), d) /\ ~ Sub(w, d)
               /\ \A p : Sub(w, p) \/ Of(new, p) => (Under(p, d) => p = d)
               /\ \A p : Sub(w, p) => ~ Under(d, p)
               /\ NoPiece(fs', d)
    <3>1. d \in Paths /\ d \in DOMAIN fs /\ Child(d, q) /\ ~ Sub(w, d) /\ q \in Paths
      BY <1>2, <1>13, <2>1
    <3>2. Under(d, q) /\ ~ Under(q, d)
      BY <3>1, ChildFacts
    <3>3. InRegion(w, d)
      BY <1>1, <1>2, <3>1, <3>2, RegionDown
    <3>4. NoPiece(fs', d)
      BY <1>1, <1>2, <3>1, <3>2, UnderOrder DEF NoPiece
    <3>5. \A p : Sub(w, p) \/ Of(new, p) => p \in Paths /\ Child(p, q)
      BY <1>5, <1>6, <1>13
    <3>6. \A p : Sub(w, p) \/ Of(new, p) => (Under(p, d) => p = d)
      BY <3>1, <3>5, ChildFacts
    <3>7. \A p : Sub(w, p) => ~ Under(d, p)
      BY <3>1, <3>5, ChildFacts
    <3> QED BY <1>1, <3>1, <3>2, <3>3, <3>4, <3>6, <3>7 DEF q
  <2> QED BY <1>12, <2>1 DEF NewTasks, Distinct
<1>15. Effect(w, new)
  BY <1>1, <1>14 DEF Effect, IInv, Same
<1> DEFINE j == Spawn(job, new)
<1>16. Return(w, j)
  BY <1>3 DEF new, rest
<1>17. LET s == Spawn(job, new) IN s \in Jobs /\ s.task = job.task /\ s.subtasks = job.subtasks \o new
  BY <1>2, <1>12, JobSpawn
<1>18. j \in Jobs /\ j.task = job.task /\ j.subtasks = job.subtasks \o new
  BY <1>17, Zenon
<1> HIDE DEF j
<1>19. Returns(w, new)
  BY <1>1, <1>2, <1>16, <1>18, JobResult DEF Returns, q
<1>20. Moved(new)
  BY <1>1, <1>15, <1>19, StepMoves
<1>21. ASSUME NEW p \in DOMAIN fs, Child(p, Path(w)) PROVE Tasked(p)'
  <2>1. Of(new, p) \/ Sub(w, p)
    BY <1>5, <1>9, <1>12, <1>21 DEF q
  <2>2. Sub(w, p) => Tasked(p)
    BY DEF Sub, Tasked
  <2> QED BY <1>20, <2>1, <2>2 DEF Moved
<1> QED BY <1>1, <1>15, <1>19, <1>21 DEF StepOK

-----------------------------------------------------------------------------
(* Tasks are taken and results registered                                  *)

\* A step that moves tasks about and leaves the file system alone.
LEMMA MoveInv ==
  ASSUME IInv, TypeOK', fs' = fs, config' = config, Quiet', Moved(<<>>),
         \A v \in Workers : Busy(v)' =>
           \/ work'[v] = work[v] /\ \A p : Sub(v, p)' <=> Sub(v, p)
           \/ /\ \A p : Tasked(p) /\ InRegion(v, p)' => p = Path(v)' \/ Sub(v, p)'
              /\ NoPiece(fs, Path(v)') /\ Local(v)'
  PROVE  IInv'
<1>1. /\ TypeOK /\ FsOK(fs) /\ Unique /\ PendingInv /\ RegionInv /\ CleanInv /\ ExistInv /\ LocalInv
      /\ DOMAIN fs \subseteq Paths
  BY DEF IInv, FsOK, FileTree
<1>2. /\ Unique' /\ \A p : Tasked(p)' => Tasked(p)
      /\ \A p : Pending(p)' => Pending(p)
      /\ \A p : Done(p) => Done(p)'
  BY DEF Moved, Of
<1>3. ASSUME NEW v \in Workers, Busy(v)', work'[v] = work[v]
      PROVE  Busy(v) /\ Path(v)' = Path(v) /\ \A p : InRegion(v, p)' <=> InRegion(v, p)
  BY <1>3 DEF Busy, Path, InRegion
<1>4. PendingInv'
  BY <1>1, <1>2 DEF PendingInv
<1>5. ASSUME NEW v \in Workers, Busy(v)'
      PROVE  /\ \A p : Tasked(p) /\ InRegion(v, p)' => p = Path(v)' \/ Sub(v, p)'
             /\ NoPiece(fs, Path(v)') /\ Local(v)'
  <2>1. CASE work'[v] = work[v] /\ \A p : Sub(v, p)' <=> Sub(v, p)
    <3>1. Busy(v) /\ Path(v)' = Path(v) /\ \A p : InRegion(v, p)' <=> InRegion(v, p)
      BY <1>3, <1>5, <2>1
    <3>2. Local(v) /\ \A p : InRegion(v, p) => Same(fs, fs', p)
      BY <1>1, <3>1 DEF LocalInv, Same
    <3>3. Local(v)'
      BY <1>1, <2>1, <3>1, <3>2, LocalFrame
    <3> QED BY <1>1, <2>1, <3>1, <3>3 DEF RegionInv, CleanInv
  <2> QED BY <1>5, <2>1
<1>6. RegionInv' /\ LocalInv'
  BY <1>2, <1>5 DEF RegionInv, LocalInv
<1>7. CleanInv'
  BY <1>1, <1>2, <1>5 DEF CleanInv
<1>8. ExistInv'
  <2> SUFFICES ASSUME NEW p, Tasked(p)' PROVE p \in DOMAIN fs' \/ Gone(fs, p)'
    BY DEF ExistInv
  <2>1. Tasked(p)
    BY <1>2
  <2>2. p \in DOMAIN fs \/ (Done(p)' /\ Last(p).ext = 0 /\ Room(fs, p))
    BY <1>1, <1>2, <2>1 DEF ExistInv, Gone
  <2> QED BY <2>2 DEF Gone
<1>9. FsOK(fs)' /\ Plain(fs)'
  BY DEF IInv, FsOK, FileTree, Closed, Plain, Deleting
<1> QED BY <1>2, <1>4, <1>6, <1>7, <1>8, <1>9 DEF IInv

LEMMA MoveRoot ==
  ASSUME RootInv, fs' = fs, Moved(<<>>),
         \A k, x, i, p : k \in {"sub", "outsub"} /\ At(k, x, i, p)' => \E y : At(k, y, i, p),
         \A i \in DOMAIN queue' : queue'[i].path = InputPath => queue'[i].depth = 0,
         \A w \in Workers : Busy(w)' /\ Path(w)' = InputPath => work'[w].task.depth = 0
  PROVE  RootInv'
<1>1. \A p : Tasked(p)' => p = InputPath \/ Under(p, Beside(InputPath))
  BY DEF RootInv, Moved, Of
<1>2. \A x, i : ~ At("sub", x, i, InputPath)' /\ ~ At("outsub", x, i, InputPath)'
  BY DEF RootInv
<1>3. RootFs(fs')
  BY DEF RootInv
<1> QED BY <1>1, <1>2, <1>3 DEF RootInv, RootFs

\* The job of a worker that carves a file.
Starting(t, c) == [Job(t, c, "unknown") EXCEPT !.carve_dir = Beside(t.path)]

LEMMA JobNew ==
  ASSUME NEW t \in Tasks, NEW c \in Nodes, NEW pc
  PROVE  LET new == Job(t, c, pc) IN
         /\ pc \in Pcs => new \in Jobs
         /\ ResultOfJob(new) \in TaskResults
         /\ new.task = t /\ new.content = c /\ new.pc = pc /\ new.todo = 1 /\ new.src = t.path
         /\ new.subtasks = <<>> /\ new.processed = {} /\ new.extract_dirs = {}
<1>1. t.path \in Paths
  BY DEF Tasks
<1>2. <<>> \in Seq(Tasks)
  OBVIOUS
<1> DEFINE e == <<>>
<1>3. e \in Seq(Tasks) /\ Job(t, c, pc) =
        [task |-> t, content |-> c, pc |-> pc, todo |-> 1, src |-> t.path, carve_dir |-> t.path,
         extract_dir |-> t.path, outcome |-> "ok", subtasks |-> e, reports |-> {}, processed |-> {}, extract_dirs |-> {}]
  BY <1>2 DEF Job
<1> HIDE DEF e
<1>4. LET new == Job(t, c, pc) IN
      /\ pc \in Pcs => new \in Jobs
      /\ ResultOfJob(new) \in TaskResults
      /\ new.task = t /\ new.content = c /\ new.pc = pc /\ new.todo = 1 /\ new.src = t.path
      /\ new.subtasks = e /\ new.processed = {} /\ new.extract_dirs = {}
  BY <1>1, <1>3 DEF Jobs, TaskResults, ResultOfJob
<1> QED BY <1>4 DEF e

\* A file in which something was found has a chunk.
LEMMA SomeChunk ==
  ASSUME NEW c \in Files, Pieces(c) # 0
  PROVE  1 \in 1..Len(Chunks(c))
<1>1. Len(Chunks(c)) \in Nat /\ (Chunks(c) = <<>> => Content[c].unknown = {})
  BY ContentFacts
<1>2. CASE Len(Chunks(c)) = 0
  <2>1. Chunks(c) = <<>>
    <3>1. Chunks(c) \in Seq(Range(Chunks(c)))
      BY ProcessingAssumption DEF ContentOK, Chunks
    <3> QED BY <1>2, <3>1
  <2>2. Cardinality(Content[c].unknown) = 0
    BY <1>1, <2>1, FS_EmptySet
  <2> QED BY <1>2, <2>2 DEF Pieces
<1> QED BY <1>1, <1>2

\* The first task of the queue waits on something that is there.
LEMMA FirstTask ==
  ASSUME IInv, queue # <<>>
  PROVE  LET t == Head(queue) IN
         /\ t \in Tasks /\ t.path \in Paths /\ Pending(t.path) /\ Tasked(t.path)
         /\ t.path \in DOMAIN fs /\ fs[t.path] \in Nodes /\ NoPiece(fs, t.path) /\ fs[t.path] # "piece"
<1> DEFINE t == Head(queue)
<1>1. TypeOK /\ Unique /\ ExistInv /\ CleanInv /\ FsOK(fs)
  BY DEF IInv
<1>2. t \in Tasks /\ t = queue[1] /\ 1 \in DOMAIN queue
  BY <1>1, TailCases DEF TypeOK
<1> HIDE DEF t
<1>3. At("queue", 0, 1, t.path) /\ t.path \in Paths
  BY <1>2 DEF At, Tasks
<1>4. Pending(t.path) /\ Tasked(t.path)
  BY <1>3 DEF Pending, Tasked
<1>5. ~ Done(t.path)
  BY <1>1, <1>3 DEF Unique, Done
<1>6. t.path \in DOMAIN fs /\ NoPiece(fs, t.path)
  BY <1>1, <1>4, <1>5 DEF ExistInv, Gone, CleanInv
<1>7. fs[t.path] \in Nodes /\ fs[t.path] # "piece"
  BY <1>1, <1>3, <1>6, UnderOrder DEF FsOK, FileTree, NoPiece
<1> QED BY <1>2, <1>3, <1>4, <1>6, <1>7 DEF t

\* What a worker takes was in the queue; it is extracted where there is nothing yet, or after
\* the check, or is a directory.
Taken(w) ==
  /\ \A p : Tasked(p)' <=> Tasked(p)
  /\ \A v \in Workers : v # w => work'[v] = work[v]
  /\ Busy(w)' => /\ \A p : p = Path(w)' => Tasked(p)
                 /\ work'[w].pc \in {"check", "unknown", "dir_handler"}
                 /\ work'[w].pc = "check" => Whole(work'[w])
                 /\ work'[w].pc = "unknown" => \A p : p = Path(w)' => Beside(p) \notin DOMAIN fs
                 /\ work'[w].pc = "dir_handler" => \A p : p = Path(w)' => fs[p] = "dir"

\* A file is carved or extracted when nothing speaks against it.
LEMMA NotIgnored ==
  ASSUME NEW t, t.path \in DOMAIN fs, fs[t.path] \in Nodes, fs[t.path] \notin {"piece", "dir"}, ~ Ignored(t)
  PROVE  fs[t.path] \in Files
BY DEF Ignored, IsLink, Nodes

LEMMA TakeTaskInv ==
  ASSUME IInv, RootInv, NEW w \in Workers, TakeTaskHere(w)
  PROVE  IInv' /\ RootInv' /\ Taken(w)
<1> DEFINE t == Head(queue)
           c == fs[t.path]
<1>1. /\ phase = "run" /\ work[w] = Idle /\ queue # <<>> /\ queue' = Tail(queue) /\ fs' = fs /\ results' = results
      /\ config' = config /\ phase' = phase /\ report' = report /\ runs' = runs /\ old' = old
  BY DEF TakeTaskHere, host
<1>2. /\ t \in Tasks /\ t.path \in Paths /\ Pending(t.path) /\ Tasked(t.path)
      /\ t.path \in DOMAIN fs /\ c \in Nodes /\ NoPiece(fs, t.path) /\ c # "piece"
  BY <1>1, FirstTask
<1>3. /\ TypeOK /\ Unique /\ PendingInv /\ queue' \in Seq(Tasks) /\ work \in [Workers -> Jobs \cup {Idle}]
      /\ FsOK(fs)
  BY <1>1, TailCases DEF IInv, TypeOK
<1>4. IF Ignored(t) THEN Return(w, Job(t, c, "none"))
      ELSE IF c = "dir" THEN Continue(w, Job(t, c, "dir_handler"))
      ELSE IF Pieces(c) = 1 THEN Continue(w, Job(t, c, "check"))
      ELSE IF Exists(Beside(t.path))
      THEN Return(w, Report(Report(Job(t, c, "none"), "CarveDirectory"), "OutputExists"))
      ELSE Continue(w, Report(Starting(t, c), "CarveDirectory"))
  BY <1>2 DEF TakeTaskHere, Exists, Starting
<1>5. Quiet'
  BY <1>1 DEF Quiet
<1>6. /\ \A i \in DOMAIN queue' : queue'[i].path = InputPath => queue'[i].depth = 0
      /\ t.path = InputPath => t.depth = 0
  <2>1. /\ 1 \in DOMAIN queue /\ t = queue[1]
        /\ \A i \in DOMAIN queue' : i + 1 \in DOMAIN queue /\ queue'[i] = queue[i + 1]
    BY <1>1, <1>3, TailCases DEF TypeOK
  <2> QED BY <2>1 DEF RootInv
<1> HIDE DEF t, c
<1>7. ASSUME NEW job, ResultOfJob(job) \in TaskResults, job.task = t, job.subtasks = <<>>, Return(w, job)
      PROVE  IInv' /\ RootInv' /\ Taken(w)
  <2>1. /\ Moved(<<>>) /\ work'[w] = Idle
        /\ \A v \in Workers : v # w => work'[v] = work[v] /\ \A p : Sub(v, p)' <=> Sub(v, p)
        /\ \A k, x, i, p : k \in {"sub", "outsub"} /\ At(k, x, i, p)' => At(k, x, i, p)
    BY <1>1, <1>3, <1>7, SkipMoves DEF t
  <2>2. work' \in [Workers -> Jobs \cup {Idle}] /\ outbox' \in Seq(TaskResults)
    BY <1>3, <1>7, ReturnFacts
  <2>3. TypeOK'
    BY <1>1, <1>3, <2>2 DEF TypeOK
  <2>4. IInv'
    BY <1>1, <1>5, <2>1, <2>3, MoveInv DEF Busy
  <2>5. \A v \in Workers : Busy(v)' /\ Path(v)' = InputPath => work'[v].task.depth = 0
    BY <2>1 DEF Busy, Path, RootInv
  <2>6. \A k, x, i, p : k \in {"sub", "outsub"} /\ At(k, x, i, p)' => \E y : At(k, y, i, p)
    BY <2>1
  <2>7. RootInv'
    BY <1>1, <1>6, <2>1, <2>5, <2>6, MoveRoot
  <2>8. Taken(w)
    <3>1. \A p : Tasked(p)' <=> Tasked(p)
      BY <2>1 DEF Moved, Of
    <3>2. ~ Busy(w)'
      BY <2>1 DEF Busy
    <3> QED BY <2>1, <3>1, <3>2 DEF Taken
  <2> QED BY <2>4, <2>7, <2>8
<1>8. ASSUME NEW job \in Jobs, job.task = t, job.subtasks = <<>>, Continue(w, job),
             Engaged(job) => Beside(t.path) \notin DOMAIN fs,
             \/ job.pc = "check" /\ Whole(job)
             \/ job.pc = "unknown"
             \/ job.pc = "dir_handler" /\ c = "dir",
             (\A p : ~ Sub(w, p)') => FileNext(w, job) \/ DirNext(w, job)
      PROVE  IInv' /\ RootInv' /\ Taken(w)
  <2>1. /\ Moved(<<>>) /\ work'[w] = job /\ \A p : ~ Sub(w, p)'
        /\ \A v \in Workers : v # w => work'[v] = work[v] /\ \A p : Sub(v, p)' <=> Sub(v, p)
        /\ \A k, x, i, p : k \in {"sub", "outsub"} /\ At(k, x, i, p)' => At(k, x, i, p)
    BY <1>1, <1>3, <1>8, TakeMoves DEF t
  <2>2. work' \in [Workers -> Jobs \cup {Idle}] /\ outbox' \in Seq(TaskResults)
    BY <1>3, <1>8 DEF Continue, TypeOK
  <2>3. TypeOK'
    BY <1>1, <1>3, <2>2 DEF TypeOK
  <2>4. Path(w)' = t.path /\ CarveDir(job) = Beside(t.path)
    BY <1>8, <2>1 DEF Path, CarveDir
  <2>5. ASSUME NEW p, Tasked(p), InRegion(w, p)' PROVE p = Path(w)'
    <3>1. CASE Under(p, t.path)
      BY <1>2, <1>3, <2>4, <2>5, <3>1 DEF PendingInv
    <3>2. CASE Engaged(job) /\ Under(p, Beside(t.path))
      BY <1>2, <1>8, <2>5, <3>2, NothingThere
    <3>3. Engaged(work[w])' = Engaged(job) /\ CarveDir(work[w])' = CarveDir(job)
      BY <2>1 DEF Engaged, CarveDir, Whole
    <3> QED BY <2>4, <2>5, <3>1, <3>2, <3>3 DEF InRegion
  <2>6. Local(w)'
    BY <1>8, <2>1, FileNextLocal, DirNextLocal
  <2>7. NoPiece(fs, Path(w)')
    BY <1>2, <2>4
  <2>8. IInv'
    BY <1>1, <1>5, <2>1, <2>3, <2>5, <2>6, <2>7, MoveInv
  <2>9. \A v \in Workers : Busy(v)' /\ Path(v)' = InputPath => work'[v].task.depth = 0
    <3>1. \A v \in Workers : v # w /\ Busy(v)' /\ Path(v)' = InputPath => work'[v].task.depth = 0
      BY <2>1 DEF Busy, Path, RootInv
    <3>2. Path(w)' = InputPath => work'[w].task.depth = 0
      BY <1>8, <1>6, <2>1, <2>4
    <3> QED BY <3>1, <3>2
  <2>10. \A k, x, i, p : k \in {"sub", "outsub"} /\ At(k, x, i, p)' => \E y : At(k, y, i, p)
    BY <2>1
  <2>11. RootInv'
    BY <1>1, <1>6, <2>1, <2>9, <2>10, MoveRoot
  <2>12. \A p : Tasked(p)' <=> Tasked(p)
    BY <2>1 DEF Moved, Of
  <2>13. \A p : p = Path(w)' => Tasked(p)
    BY <1>2, <2>4
  <2>14. job.pc = "unknown" => Beside(t.path) \notin DOMAIN fs
    BY <1>8 DEF Engaged
  <2>15. Taken(w)
    BY <1>8, <2>1, <2>4, <2>12, <2>13, <2>14 DEF Taken, c
  <2> QED BY <2>8, <2>11, <2>15
<1>9. CASE Ignored(t)
  <2>1. Return(w, Job(t, c, "none"))
    BY <1>4, <1>9
  <2>2. /\ ResultOfJob(Job(t, c, "none")) \in TaskResults /\ Job(t, c, "none").task = t
        /\ Job(t, c, "none").subtasks = <<>>
    BY <1>2, JobNew
  <2> QED BY <1>7, <2>1, <2>2
<1>10. CASE ~ Ignored(t) /\ c = "dir"
  <2> DEFINE job == Job(t, c, "dir_handler")
  <2>1. Continue(w, job)
    BY <1>4, <1>10
  <2>2. /\ job \in Jobs /\ job.task = t /\ job.pc = "dir_handler" /\ job.subtasks = <<>>
        /\ job.processed = {} /\ job.extract_dirs = {}
    <3>1. "dir_handler" \in Pcs
      BY DEF Pcs
    <3> QED BY <1>2, <3>1, JobNew
  <2> HIDE DEF job
  <2>3. ~ Engaged(job)
    BY <2>2 DEF Engaged
  <2>4. (\A p : ~ Sub(w, p)') => DirNext(w, job)
    BY <1>1, <1>2, <1>10, <2>2, FS_EmptySet DEF DirNext, FilePcs, c
  <2> QED BY <1>8, <1>10, <2>1, <2>2, <2>3, <2>4
<1>11. ASSUME ~ Ignored(t), c # "dir" PROVE c \in Files /\ 1 \in 1..Len(Chunks(c))
  <2>1. c \in Files
    BY <1>2, <1>11, NotIgnored DEF c
  <2>2. Pieces(c) # 0
    BY <1>11, <2>1 DEF Ignored, c
  <2> QED BY <2>1, <2>2, SomeChunk
<1>12. CASE ~ Ignored(t) /\ c # "dir" /\ Pieces(c) = 1
  <2> DEFINE job == Job(t, c, "check")
  <2>1. Continue(w, job)
    BY <1>4, <1>12
  <2>2. /\ job \in Jobs /\ job.task = t /\ job.content = c /\ job.pc = "check" /\ job.todo = 1 /\ job.src = t.path
        /\ job.subtasks = <<>>
    <3>1. "check" \in Pcs
      BY DEF Pcs
    <3> QED BY <1>2, <3>1, JobNew
  <2> HIDE DEF job
  <2>3. Whole(job) /\ ~ Engaged(job)
    BY <2>2 DEF Engaged, Whole
  <2>4. (\A p : ~ Sub(w, p)') => FileNext(w, job)
    BY <1>1, <1>2, <1>11, <1>12, <2>2, <2>3 DEF FileNext, FilePcs, c
  <2> QED BY <1>8, <2>1, <2>2, <2>3, <2>4
<1>13. CASE ~ Ignored(t) /\ c # "dir" /\ Pieces(c) # 1 /\ Exists(Beside(t.path))
  <2> DEFINE a == Job(t, c, "none")
             b == Report(Report(a, "CarveDirectory"), "OutputExists")
  <2>1. Return(w, b)
    BY <1>4, <1>13
  <2>2. b.task = t /\ b.subtasks = <<>> /\ ResultOfJob(b) \in TaskResults
    <3>1. b = [a EXCEPT !.reports = {"CarveDirectory", "OutputExists"}]
      BY DEF Report, Job
    <3>2. a.task = t /\ a.content = c /\ a.subtasks = <<>>
      BY <1>2, JobNew
    <3>3. b.task = t /\ b.content = c /\ b.subtasks = <<>> /\ b.reports = {"CarveDirectory", "OutputExists"}
      BY DEF Report, Job
    <3> HIDE DEF a, b
    <3>4. b.reports \subseteq Reports
      BY <3>3 DEF Reports
    <3>5. <<>> \in Seq(Tasks)
      OBVIOUS
    <3> QED BY <1>2, <3>3, <3>4, <3>5 DEF ResultOfJob, TaskResults
  <2> HIDE DEF b
  <2> QED BY <1>7, <2>1, <2>2
<1>14. CASE ~ Ignored(t) /\ c # "dir" /\ Pieces(c) # 1 /\ ~ Exists(Beside(t.path))
  <2> DEFINE a == Starting(t, c)
             job == Report(a, "CarveDirectory")
  <2>1. Continue(w, job)
    BY <1>4, <1>14
  <2>2. /\ a \in Jobs /\ a.task = t /\ a.content = c /\ a.pc = "unknown" /\ a.todo = 1 /\ a.subtasks = <<>>
    <3> DEFINE b == Job(t, c, "unknown")
    <3>1. "unknown" \in Pcs
      BY DEF Pcs
    <3>2. /\ b \in Jobs /\ b.task = t /\ b.content = c /\ b.pc = "unknown" /\ b.todo = 1
          /\ b.subtasks = <<>>
      BY <1>2, <3>1, JobNew
    <3>3. Beside(t.path) \in Paths
      BY <1>2, BesideFacts
    <3> HIDE DEF b
    <3> QED BY <3>2, <3>3, JobCarve DEF Starting, Kin, b
  <2> HIDE DEF a
  <2>3. job \in Jobs /\ Kin(job, a) /\ job.pc = a.pc /\ job.todo = a.todo
    <3>1. "CarveDirectory" \in Reports
      BY DEF Reports
    <3> QED BY <2>2, <3>1, JobReport
  <2> HIDE DEF job
  <2>4. /\ job.task = t /\ job.content = c /\ job.pc = "unknown" /\ job.todo = 1 /\ job.subtasks = <<>>
    BY <2>2, <2>3 DEF Kin
  <2>5. (\A p : ~ Sub(w, p)') => FileNext(w, job)
    BY <1>1, <1>2, <1>11, <1>14, <2>4 DEF FileNext, FilePcs, c, CarveDir, Exists
  <2>6. Beside(t.path) \notin DOMAIN fs
    BY <1>14 DEF Exists
  <2> QED BY <1>8, <2>1, <2>3, <2>4, <2>5, <2>6
<1> QED BY <1>9, <1>10, <1>12, <1>13, <1>14

-----------------------------------------------------------------------------
(* The input stays, and the rest is in its extraction directory            *)

LEMMA InputFacts ==
  /\ InputPath \in Paths /\ Beside(InputPath) \in Paths /\ Beside(InputPath) # InputPath
  /\ Len(InputPath) = 1 /\ Len(Beside(InputPath)) = 1
  /\ \A d \in Paths : Under(InputPath, d) => d = InputPath
  /\ \A d \in Paths : Under(Beside(InputPath), d) => d = Beside(InputPath)
<1>1. InputPath \in Paths /\ Len(InputPath) = 1
  BY ProcessingAssumption DEF InputPath, Paths
<1> DEFINE e == Beside(InputPath)
<1>2. e \in Paths /\ Len(e) = 1 /\ e # InputPath
  BY <1>1, BesideFacts
<1> HIDE DEF e
<1>3. ASSUME NEW p \in Paths, Len(p) = 1, NEW d \in Paths, Under(p, d) PROVE d = p
  <2>1. Len(d) <= 1 /\ Len(d) \in Nat \ {0} /\ \A i \in 1..Len(d) : p[i] = d[i]
    BY <1>3, UnderNames DEF Paths
  <2>2. Len(d) = Len(p) /\ \A i \in 1..Len(p) : d[i] = p[i]
    BY <1>3, <2>1
  <2> QED BY <2>2, SamePath
<1> QED BY <1>1, <1>2, <1>3 DEF e

\* A worker that is engaged does not work on the extraction directory of the input.
LEMMA RootRegion ==
  ASSUME IInv, RootInv, NEW w \in Workers, Busy(w)
  PROVE  /\ InRegion(w, InputPath) => Path(w) = InputPath
         /\ \A p : InRegion(w, p) /\ ~ Under(p, InputPath) => Under(p, Beside(InputPath))
         /\ Path(w) = InputPath => work[w].task.depth = 0
<1> DEFINE e == Beside(InputPath)
<1>1. /\ Path(w) \in Paths /\ Tasked(Path(w)) /\ Path(w) \in DOMAIN fs
      /\ Path(w) = InputPath \/ Under(Path(w), e)
  BY OwnExists DEF RootInv
<1>2. e \in Paths /\ InputPath \in Paths /\ e # InputPath
  BY InputFacts
<1>3. ASSUME Engaged(work[w]) PROVE Path(w) # e /\ CarveDir(work[w]) = Beside(Path(w)) /\ CarveDir(work[w]) \in Paths
  <2>1. work[w].pc \in FilePcs
    BY <1>3 DEF Engaged, FilePcs
  <2>2. fs[Path(w)] \in Files /\ CarveDir(work[w]) = Beside(Path(w)) /\ CarveDir(work[w]) \in Paths
    BY <2>1, OwnFile DEF FileLocal
  <2>3. "dir" \notin Files
    BY ProcessingAssumption
  <2> QED BY <1>1, <2>2, <2>3 DEF RootInv, RootFs
<1> HIDE DEF e
<1>4. ASSUME Engaged(work[w]), Path(w) # InputPath PROVE Under(CarveDir(work[w]), e)
  BY <1>1, <1>2, <1>3, <1>4, BesideIn
<1>5. ASSUME InRegion(w, InputPath), Path(w) # InputPath PROVE FALSE
  <2>1. CASE Under(InputPath, Path(w))
    BY <1>1, <1>5, <2>1, InputFacts
  <2>2. CASE Engaged(work[w]) /\ Under(InputPath, CarveDir(work[w]))
    <3>1. CarveDir(work[w]) = InputPath
      BY <1>3, <2>2, InputFacts
    <3>2. Under(InputPath, e)
      BY <1>4, <1>5, <2>2, <3>1
    <3> QED BY <1>2, <3>2, InputFacts
  <2> QED BY <1>5, <2>1, <2>2 DEF InRegion
<1>6. ASSUME NEW p, InRegion(w, p), ~ Under(p, InputPath) PROVE Under(p, e)
  <2>1. p \in Paths
    BY <1>6 DEF InRegion
  <2>2. CASE Under(p, Path(w))
    BY <1>1, <1>2, <1>6, <2>1, <2>2, UnderOrder
  <2>3. CASE Engaged(work[w]) /\ Under(p, CarveDir(work[w])) /\ Path(w) = InputPath
    BY <1>3, <2>3 DEF e
  <2>4. CASE Engaged(work[w]) /\ Under(p, CarveDir(work[w])) /\ Path(w) # InputPath
    BY <1>2, <1>3, <1>4, <2>1, <2>4, UnderOrder
  <2> QED BY <1>6, <2>2, <2>3, <2>4 DEF InRegion
<1>7. Path(w) = InputPath => work[w].task.depth = 0
  BY DEF RootInv
<1> QED BY <1>5, <1>6, <1>7 DEF e

LEMMA StepRoot ==
  ASSUME IInv, RootInv, NEW w \in Workers, StepOK(w)
  PROVE  IInv' /\ RootInv' /\ fs'[InputPath] = fs[InputPath]
<1>1. PICK new : Effect(w, new) /\ (Goes(w, new) \/ Returns(w, new))
  BY DEF StepOK
<1>2. Busy(w) /\ UNCHANGED <<queue, results, host>>
  BY DEF StepOK
<1>3. IInv'
  BY <1>1, <1>2, StepInv
<1>4. /\ Moved(new)
      /\ \A v \in Workers : v # w => work'[v] = work[v]
      /\ Goes(w, new) => work'[w].task = work[w].task
      /\ ~ Goes(w, new) => work'[w] = Idle
      /\ \A p : Of(new, p) => InRegion(w, p)
  BY <1>1, <1>2, StepMoves
<1> DEFINE e == Beside(InputPath)
<1>5. /\ InRegion(w, InputPath) => Path(w) = InputPath
      /\ \A p : InRegion(w, p) /\ ~ Under(p, InputPath) => Under(p, e)
      /\ Path(w) = InputPath => work[w].task.depth = 0
  BY <1>2, RootRegion
<1>6. /\ InputPath \in Paths /\ e \in Paths /\ Len(e) = 1
  BY InputFacts
<1> HIDE DEF e
<1>7. /\ FsOK(fs') /\ \A p : ~ InRegion(w, p) => Same(fs, fs', p)
      /\ \A p \in DOMAIN fs \cap DOMAIN fs' : fs'[p] = fs[p]
      /\ \A p \in DOMAIN fs' \ DOMAIN fs : Len(p) = 1 => fs'[p] = "dir"
      /\ NewTasks(w, new)
  BY <1>1 DEF Effect
<1>8. InputPath \in DOMAIN fs' /\ fs'[InputPath] = fs[InputPath]
  <2>1. InputPath \in DOMAIN fs
    BY DEF RootInv, RootFs
  <2>2. InputPath \in DOMAIN fs'
    <3>1. CASE ~ InRegion(w, InputPath)
      BY <1>7, <2>1, <3>1 DEF Same
    <3>2. CASE InRegion(w, InputPath)
      BY <1>1, <1>5, <3>2 DEF Goes, Returns
    <3> QED BY <3>1, <3>2
  <2> QED BY <1>7, <2>1, <2>2
<1>9. e \in DOMAIN fs' => fs'[e] = "dir"
  BY <1>6, <1>7 DEF RootInv, RootFs, e
<1>10. \A p \in DOMAIN fs' : p = InputPath \/ Under(p, e)
  <2> SUFFICES ASSUME NEW p \in DOMAIN fs', p # InputPath PROVE Under(p, e)
    OBVIOUS
  <2>1. CASE p \in DOMAIN fs
    BY <2>1 DEF RootInv, RootFs, e
  <2>2. CASE p \notin DOMAIN fs
    <3>1. InRegion(w, p)
      BY <1>7, <2>2 DEF Same
    <3>2. ~ Under(p, InputPath)
      <4>1. Under(p, InputPath) => fs'[InputPath] = "dir"
        BY <1>6, <1>7 DEF FsOK, Closed
      <4>2. fs'[InputPath] \in Files /\ "dir" \notin Files
        BY <1>8, ProcessingAssumption DEF RootInv, RootFs
      <4> QED BY <4>1, <4>2
    <3> QED BY <1>5, <3>1, <3>2
  <2> QED BY <2>1, <2>2
<1>11. RootFs(fs')
  BY <1>8, <1>9, <1>10 DEF RootFs, e, RootInv
<1>12. \A p : Of(new, p) => p \in DOMAIN fs' /\ p # InputPath
  <2> SUFFICES ASSUME NEW p, Of(new, p) PROVE p \in DOMAIN fs' /\ p # InputPath
    OBVIOUS
  <2>1. p \in DOMAIN fs' /\ ~ Under(Path(w), p)
    BY <1>7 DEF NewTasks
  <2>2. CASE p = InputPath
    BY <1>4, <1>5, <1>6, <2>1, <2>2, UnderOrder
  <2> QED BY <2>1, <2>2
<1>13. \A p : Tasked(p)' => p = InputPath \/ Under(p, e)
  BY <1>4, <1>10, <1>12 DEF Moved, RootInv, e
<1>14. ASSUME NEW k \in {"sub", "outsub"}, NEW x, NEW i, At(k, x, i, InputPath)' PROVE FALSE
  <2>1. Pending(InputPath)'
    BY <1>14 DEF Pending
  <2>2. Pending(InputPath)
    <3>1. \A p : Pending(p)' => Pending(p) \/ Of(new, p)
      BY <1>4 DEF Moved
    <3>2. \A p : p = InputPath => Pending(p)'
      BY <2>1
    <3> QED BY <1>12, <3>1, <3>2
  <2>3. PICK j : At("queue", 0, j, InputPath)
    BY <2>2 DEF Pending, RootInv, At
  <2>4. At("queue", 0, j, InputPath)'
    BY <1>2, <2>3 DEF At
  <2>5. Unique'
    BY <1>4 DEF Moved
  <2> QED BY <1>14, <2>4, <2>5 DEF Unique
<1>15. \A i \in DOMAIN queue' : queue'[i].path = InputPath => queue'[i].depth = 0
  BY <1>2 DEF RootInv
<1>16. \A v \in Workers : Busy(v)' /\ Path(v)' = InputPath => work'[v].task.depth = 0
  BY <1>1, <1>2, <1>4 DEF RootInv, Busy, Path
<1>17. RootInv'
  <2>1. \A x, i : ~ At("sub", x, i, InputPath)' /\ ~ At("outsub", x, i, InputPath)'
    BY <1>14
  <2> QED BY <1>11, <1>13, <1>15, <1>16, <2>1 DEF RootInv, RootFs, e
<1> QED BY <1>3, <1>8, <1>17

-----------------------------------------------------------------------------
(* The host                                                                *)

\* Nothing is submitted.
Rest == queue = <<>> /\ outbox = <<>> /\ results = <<>> /\ \A w \in Workers : work[w] = Idle

LEMMA NoTask ==
  ASSUME Rest
  PROVE  \A k, x, i, p : ~ At(k, x, i, p)
BY DEF Rest, At

LEMMA RestInv ==
  TypeOK /\ FsOK(fs) /\ Plain(fs) /\ RootFs(fs) /\ Rest => Inv
<1> SUFFICES ASSUME TypeOK, FsOK(fs), Plain(fs), RootFs(fs), Rest PROVE Inv
  OBVIOUS
<1>1. \A k, x, i, p : ~ At(k, x, i, p)
  BY NoTask
<1>2. \A p : ~ Tasked(p) /\ ~ Pending(p)
  BY <1>1 DEF Tasked, Pending
<1>3. \A w \in Workers : ~ Busy(w)
  BY DEF Rest, Busy
<1>4. Unique /\ PendingInv /\ RegionInv /\ CleanInv /\ ExistInv /\ LocalInv /\ Quiet
  BY <1>1, <1>2, <1>3 DEF Unique, PendingInv, RegionInv, CleanInv, ExistInv, LocalInv, Quiet, Rest
<1>5. DOMAIN queue = {}
  BY DEF Rest
<1>6. RootInv
  BY <1>1, <1>2, <1>3, <1>5 DEF RootInv
<1> QED BY <1>4, <1>6 DEF Inv, IInv

LEMMA Unmoved ==
  ASSUME Unique, UNCHANGED <<queue, work, outbox, results>>
  PROVE  /\ Moved(<<>>) /\ \A k, x, i, p : At(k, x, i, p)' <=> At(k, x, i, p)
         /\ \A v, p : Sub(v, p)' <=> Sub(v, p)
<1>1. \A k, x, i, p : At(k, x, i, p)' <=> At(k, x, i, p)
  BY DEF At
<1>2. Unique'
  BY <1>1 DEF Unique
<1>3. \A p : (Tasked(p)' <=> Tasked(p)) /\ (Pending(p)' <=> Pending(p)) /\ (Done(p)' <=> Done(p))
  BY <1>1 DEF Tasked, Pending, Done
<1>4. \A v, p : Sub(v, p)' <=> Sub(v, p)
  BY <1>1 DEF Sub
<1>5. \A p : ~ Of(<<>>, p)
  BY DEF Of
<1> QED BY <1>1, <1>2, <1>3, <1>4, <1>5 DEF Moved

LEMMA InitInv ==
  Init => Inv
<1> SUFFICES ASSUME Init PROVE Inv
  OBVIOUS
<1>1. PICK c \in Files : fs = [p \in {InputPath} |-> c]
  BY DEF Init
<1>2. DOMAIN fs = {InputPath} /\ fs[InputPath] = c /\ c \in Nodes
  BY <1>1, ContentFacts
<1>3. FileTree(fs)
  <2>1. fs \in [DOMAIN fs -> Nodes]
    BY <1>1, <1>2
  <2> QED BY <1>2, <2>1, InputFacts, FS_Singleton DEF FileTree
<1>4. TypeOK
  BY <1>3, ProcessingAssumption DEF Init, TypeOK
<1>5. FsOK(fs)
  BY <1>2, <1>3, InputFacts DEF FsOK, Closed
<1>6. Plain(fs)
  BY <1>2 DEF Plain
<1>7. RootFs(fs)
  BY <1>2, InputFacts DEF RootFs
<1>8. Rest
  BY DEF Init, Rest
<1> QED BY <1>4, <1>5, <1>6, <1>7, <1>8, RestInv

LEMMA RestInvNext ==
  TypeOK' /\ FsOK(fs)' /\ Plain(fs)' /\ RootFs(fs)' /\ Rest' => Inv'
BY RestInv, PTL

LEMMA RemoveOldInv ==
  ASSUME Inv, RemoveOldHere
  PROVE  Inv' /\ fs'[InputPath] = fs[InputPath]
<1> DEFINE e == Beside(InputPath)
           S == {p \in DOMAIN fs : Under(p, e)}
<1>1. TypeOK /\ FsOK(fs) /\ Plain(fs) /\ RootFs(fs) /\ Rest /\ DOMAIN fs \subseteq Paths
  BY DEF Inv, IInv, RootInv, Quiet, RemoveOldHere, Rest, FsOK, FileTree
<1>2. Rest' /\ (fs' = fs \/ fs' = Without(fs, S))
  BY <1>1 DEF RemoveOldHere, Rest
<1>3. e \in Paths /\ InputPath \in Paths /\ ~ Under(InputPath, e)
  BY InputFacts
<1> HIDE DEF e
<1>4. FsOK(fs') /\ Plain(fs') /\ RootFs(fs') /\ fs'[InputPath] = fs[InputPath]
  <2>1. CASE fs' = fs
    BY <1>1, <2>1
  <2>2. CASE fs' = Without(fs, S)
    <3>1. \A d \in S : \A p \in DOMAIN fs \ S : ~ Under(p, d)
      BY <1>1, <1>3, UnderOrder
    <3>2. FsOK(fs')
      BY <1>1, <2>2, <3>1, WithoutFacts
    <3>3. DOMAIN fs' = DOMAIN fs \ S /\ \A p \in DOMAIN fs' : fs'[p] = fs[p]
      BY <2>2 DEF Without
    <3>4. Plain(fs')
      BY <1>1, <3>3 DEF Plain
    <3>5. InputPath \in DOMAIN fs'
      BY <1>1, <1>3, <3>3 DEF RootFs
    <3> QED BY <1>1, <3>2, <3>3, <3>4, <3>5 DEF RootFs
  <2> QED BY <1>2, <2>1, <2>2
<1>5. TypeOK'
  BY <1>1, <1>4 DEF TypeOK, FsOK, RemoveOldHere
<1>6. FsOK(fs)' /\ Plain(fs)' /\ RootFs(fs)'
  BY <1>4 DEF Plain, Deleting
<1> QED BY <1>2, <1>4, <1>5, <1>6, RestInvNext

LEMMA PrepareReportInv ==
  ASSUME Inv, PrepareReport
  PROVE  Inv'
<1>1. TypeOK /\ FsOK(fs) /\ Plain(fs) /\ RootFs(fs) /\ Rest
  BY DEF Inv, IInv, RootInv, Quiet, PrepareReport, Rest
<1>2. /\ fs' = fs /\ config' = config /\ work' = work /\ outbox' = outbox /\ results' = results
      /\ runs' = runs /\ old' = old /\ report' \in {"none", "blank", "written"}
      /\ (queue' = <<>> /\ phase' = "refused") \/ (queue' = <<RootTask>> /\ phase' = "run")
  BY <1>1 DEF PrepareReport, TypeOK
<1>3. FsOK(fs)' /\ Plain(fs)' /\ RootFs(fs)'
  BY <1>1, <1>2 DEF Plain, Deleting
<1>4. CASE queue' = <<>> /\ phase' = "refused"
  <2>1. TypeOK'
    <3>1. queue' \in Seq(Tasks)
      BY <1>4
    <3> QED BY <1>1, <1>2, <1>4, <3>1 DEF TypeOK
  <2>2. Rest'
    BY <1>1, <1>2, <1>4 DEF Rest
  <2> QED BY <1>3, <2>1, <2>2, RestInvNext
<1>5. CASE queue' = <<RootTask>> /\ phase' = "run"
  <2>1. RootTask \in Tasks /\ RootTask.path = InputPath /\ RootTask.depth = 0
    BY InputFacts DEF RootTask, Tasks
  <2>2. queue' \in Seq(Tasks) /\ DOMAIN queue' = {1} /\ queue'[1] = RootTask
    BY <1>5, <2>1
  <2>3. TypeOK'
    BY <1>1, <1>2, <1>5, <2>2 DEF TypeOK
  <2>4. \A k, x, i, p : At(k, x, i, p)' <=> k = "queue" /\ x = 0 /\ i = 1 /\ p = InputPath
    BY <1>1, <1>2, <2>1, <2>2 DEF At, Rest
  <2>5. /\ \A p : Tasked(p)' <=> p = InputPath
        /\ \A p : Pending(p)' <=> p = InputPath
    BY <2>4 DEF Tasked, Pending
  <2>6. \A w \in Workers : ~ Busy(w)'
    BY <1>1, <1>2 DEF Rest, Busy
  <2>7. Unique' /\ PendingInv' /\ RegionInv' /\ LocalInv'
    BY <2>4, <2>5, <2>6 DEF Unique, PendingInv, RegionInv, LocalInv
  <2>8. NoPiece(fs, InputPath)
    <3>1. \A p \in DOMAIN fs : Under(p, InputPath) => p = InputPath
      BY <1>1, InputFacts, BesideFacts DEF RootFs, FsOK, FileTree
    <3>2. fs[InputPath] # "piece"
      BY <1>1, ContentFacts DEF RootFs
    <3> QED BY <3>1, <3>2 DEF NoPiece
  <2>9. CleanInv'
    BY <1>2, <2>5, <2>6, <2>8 DEF CleanInv
  <2>10. ExistInv'
    BY <1>1, <1>2, <2>5 DEF ExistInv, RootFs
  <2>11. Quiet'
    BY <1>5 DEF Quiet
  <2>12. RootInv'
    <3>1. \A x, i : ~ At("sub", x, i, InputPath)' /\ ~ At("outsub", x, i, InputPath)'
      BY <2>4
    <3>2. \A i \in DOMAIN queue' : queue'[i].path = InputPath => queue'[i].depth = 0
      BY <2>1, <2>2
    <3> QED BY <1>3, <2>5, <2>6, <3>1, <3>2 DEF RootInv
  <2> QED BY <1>3, <2>3, <2>7, <2>9, <2>10, <2>11, <2>12 DEF Inv, IInv
<1> QED BY <1>2, <1>4, <1>5

LEMMA RegisterInv ==
  ASSUME Inv, Register
  PROVE  Inv'
<1>1. TypeOK /\ Unique /\ IInv /\ RootInv
  BY DEF Inv, IInv
<1>2. /\ phase = "run" /\ fs' = fs /\ work' = work /\ config' = config /\ phase' = phase /\ report' = report
      /\ runs' = runs /\ old' = old
  BY DEF Register, host
<1>3. /\ Moved(<<>>)
      /\ \A v \in Workers : work'[v] = work[v] /\ \A p : Sub(v, p)' <=> Sub(v, p)
      /\ queue' \in Seq(Tasks) /\ outbox' \in Seq(TaskResults) /\ results' \in Seq(TaskResults)
      /\ \A k, x, i, p : k \in {"sub", "outsub"} /\ At(k, x, i, p)' => \E y : At(k, y, i, p)
      /\ \A i \in DOMAIN queue' :
           \/ i \in DOMAIN queue /\ queue'[i] = queue[i]
           \/ \E x, j : At("outsub", x, j, queue'[i].path)
  BY <1>1, RegisterMoves
<1>4. TypeOK'
  BY <1>1, <1>2, <1>3 DEF TypeOK
<1>5. Quiet'
  BY <1>2 DEF Quiet
<1>6. IInv'
  BY <1>1, <1>2, <1>3, <1>4, <1>5, MoveInv
<1>7. \A i \in DOMAIN queue' : queue'[i].path = InputPath => queue'[i].depth = 0
  BY <1>1, <1>3 DEF RootInv
<1>8. \A w \in Workers : Busy(w)' /\ Path(w)' = InputPath => work'[w].task.depth = 0
  BY <1>1, <1>2 DEF RootInv, Busy, Path
<1>9. RootInv'
  BY <1>1, <1>2, <1>3, <1>7, <1>8, MoveRoot
<1> QED BY <1>6, <1>9 DEF Inv

LEMMA UnmovedInv ==
  ASSUME Inv, TypeOK', Quiet', UNCHANGED <<fs, config, queue, work, outbox, results>>
  PROVE  Inv'
<1>1. IInv /\ RootInv /\ Unique
  BY DEF Inv, IInv
<1>2. /\ Moved(<<>>) /\ \A k, x, i, p : At(k, x, i, p)' <=> At(k, x, i, p)
      /\ \A v, p : Sub(v, p)' <=> Sub(v, p)
  BY <1>1, Unmoved
<1>3. IInv'
  BY <1>1, <1>2, MoveInv
<1>4. \A k, x, i, p : k \in {"sub", "outsub"} /\ At(k, x, i, p)' => \E y : At(k, y, i, p)
  BY <1>2
<1>5. /\ \A i \in DOMAIN queue' : queue'[i].path = InputPath => queue'[i].depth = 0
      /\ \A w \in Workers : Busy(w)' /\ Path(w)' = InputPath => work'[w].task.depth = 0
  BY <1>1 DEF RootInv, Busy, Path
<1>6. RootInv'
  BY <1>1, <1>2, <1>4, <1>5, MoveRoot
<1> QED BY <1>3, <1>6 DEF Inv

LEMMA WriteReportInv ==
  ASSUME Inv, WriteReport
  PROVE  Inv'
<1>1. TypeOK' /\ Quiet'
  BY DEF Inv, IInv, TypeOK, Quiet, WriteReport
<1> QED BY <1>1, UnmovedInv DEF WriteReport

LEMMA StutterInv ==
  ASSUME Inv, UNCHANGED vars
  PROVE  Inv'
<1>1. TypeOK' /\ Quiet'
  BY DEF Inv, IInv, TypeOK, Quiet, vars
<1> QED BY <1>1, UnmovedInv DEF vars

LEMMA CrashInv ==
  ASSUME Inv, Crash
  PROVE  Inv'
<1>1. TypeOK /\ FsOK(fs) /\ Plain(fs) /\ RootFs(fs)
  BY DEF Inv, IInv, RootInv
<1>2. FsOK(fs)' /\ Plain(fs)' /\ RootFs(fs)' /\ Rest'
  BY <1>1 DEF Crash, Plain, Deleting, Rest
<1>3. TypeOK'
  BY <1>1 DEF Crash, TypeOK
<1> QED BY <1>2, <1>3, RestInvNext

LEMMA RerunInv ==
  ASSUME Inv, Rerun
  PROVE  Inv'
<1>1. TypeOK /\ FsOK(fs) /\ Plain(fs) /\ RootFs(fs) /\ Quiet
  BY DEF Inv, IInv, RootInv
<1>2. FsOK(fs)' /\ Plain(fs)' /\ RootFs(fs)' /\ Rest'
  BY <1>1 DEF Rerun, Plain, Deleting, Rest, Quiet
<1>3. TypeOK'
  <2>1. runs' \in 1..MaxRuns
    BY <1>1, ProcessingAssumption DEF Rerun, TypeOK
  <2>2. results' \in Seq(TaskResults)
    BY DEF Rerun
  <2> QED BY <1>1, <2>1, <2>2 DEF Rerun, TypeOK
<1> QED BY <1>2, <1>3, RestInvNext

-----------------------------------------------------------------------------
(* Every step keeps the invariant                                          *)

LEMMA WorkOK ==
  ASSUME NamesApart, Inv, NEW w \in Workers, WorkHere(w), ~ TakeTaskHere(w)
  PROVE  StepOK(w)
<1>1. IInv /\ RootInv /\ DeletesApart /\ PartsApart
  BY DEF Inv, NamesApart
<1>2. CASE CarveUnknownHere(w)
  BY <1>1, <1>2, CarveUnknownOK
<1>3. CASE CarveChunkHere(w)
  BY <1>1, <1>3, CarveChunkOK
<1>4. CASE CheckDirHere(w)
  BY <1>1, <1>4, CheckDirOK
<1>5. CASE MakeDirHere(w)
  BY <1>1, <1>5, MakeDirOK
<1>6. CASE ExtractHere(w)
  BY <1>1, <1>6, ExtractOK
<1>7. CASE SettleHere(w)
  BY <1>1, <1>7, SettleOK
<1>8. CASE DeleteExtracted(w)
  BY <1>1, <1>8, DeleteExtractedOK
<1>9. CASE DirHandlerHere(w)
  BY <1>1, <1>9, DirHandlerOK
<1>10. CASE ExtractMultiHere(w)
  BY <1>1, <1>10, ExtractMultiOK
<1>11. CASE Iterate(w)
  BY <1>1, <1>11, IterateOK
<1> QED BY <1>2, <1>3, <1>4, <1>5, <1>6, <1>7, <1>8, <1>9, <1>10, <1>11 DEF WorkHere

LEMMA NextInv ==
  ASSUME NamesApart, Inv, [NextHere]_vars
  PROVE  Inv'
<1>1. IInv /\ RootInv
  BY DEF Inv
<1>2. CASE UNCHANGED vars
  BY <1>2, StutterInv
<1>3. CASE RemoveOldHere
  BY <1>3, RemoveOldInv
<1>4. CASE PrepareReport
  BY <1>4, PrepareReportInv
<1>5. CASE Register
  BY <1>5, RegisterInv
<1>6. CASE WriteReport
  BY <1>6, WriteReportInv
<1>7. ASSUME NEW w \in Workers, WorkHere(w) PROVE Inv'
  <2>1. CASE TakeTaskHere(w)
    BY <1>1, <2>1, TakeTaskInv DEF Inv
  <2>2. CASE ~ TakeTaskHere(w)
    <3>1. StepOK(w)
      BY <1>7, <2>2, WorkOK
    <3> QED BY <1>1, <3>1, StepRoot DEF Inv
  <2> QED BY <2>1, <2>2
<1>8. CASE Crash
  BY <1>8, CrashInv
<1>9. CASE Rerun
  BY <1>9, RerunInv
<1>10. CASE Over
  BY <1>10, StutterInv DEF Over
<1> QED BY <1>2, <1>3, <1>4, <1>5, <1>6, <1>7, <1>8, <1>9, <1>10 DEF NextHere, HostHere

\* The invariant holds in every run of the program, however often it is killed and run
\* again, whatever the files hold, provided that no name of an extracted file clashes with
\* the directories of process_task (NamesApart).
LEMMA HereInvariance ==
  ASSUME NamesApart
  PROVE  HereSpec => []Inv
<1>1. Inv /\ [NextHere]_vars => Inv'
  BY NextInv
<1> QED BY <1>1, InitInv, PTL DEF HereSpec

-----------------------------------------------------------------------------
(* Tasks and workers do not get in each other's way                        *)

LEMMA InjectiveConcat ==
  ASSUME NEW a \in Seq(Paths), NEW b \in Seq(Paths), IsInjective(a), IsInjective(b),
         \A i \in DOMAIN a : \A j \in DOMAIN b : a[i] # b[j]
  PROVE  /\ a \o b \in Seq(Paths) /\ IsInjective(a \o b)
         /\ \A i \in DOMAIN (a \o b) : \/ \E j \in DOMAIN a : (a \o b)[i] = a[j]
                                       \/ \E j \in DOMAIN b : (a \o b)[i] = b[j]
<1>1. PICK n \in Nat : n = Len(a)
  OBVIOUS
<1>2. PICK m \in Nat : m = Len(b)
  OBVIOUS
<1> DEFINE u == a \o b
<1>3. /\ u \in Seq(Paths) /\ DOMAIN a = 1..n /\ DOMAIN b = 1..m /\ DOMAIN u = 1..(n + m)
      /\ \A i \in 1..n : u[i] = a[i]
      /\ \A j \in 1..m : u[n + j] = b[j]
  BY <1>1, <1>2
<1> HIDE DEF u
<1>4. \A i \in 1..(n + m) : i \in 1..n \/ \E j \in 1..m : i = n + j
  <2> SUFFICES ASSUME NEW i \in 1..(n + m), i \notin 1..n PROVE \E j \in 1..m : i = n + j
    OBVIOUS
  <2>1. i - n \in 1..m /\ i = n + (i - n)
    OBVIOUS
  <2> QED BY <2>1
<1>5. \A i \in DOMAIN u : \/ \E j \in DOMAIN a : u[i] = a[j]
                          \/ \E j \in DOMAIN b : u[i] = b[j]
  <2> SUFFICES ASSUME NEW i \in 1..(n + m)
               PROVE  (\E j \in 1..n : u[i] = a[j]) \/ \E j \in 1..m : u[i] = b[j]
    BY <1>3
  <2>1. CASE i \in 1..n
    BY <1>3, <2>1
  <2>2. CASE i \notin 1..n
    <3>1. PICK j \in 1..m : i = n + j
      BY <1>4, <2>2
    <3> QED BY <1>3, <3>1
  <2> QED BY <2>1, <2>2
<1>6. ASSUME NEW i \in DOMAIN u, NEW j \in DOMAIN u, u[i] = u[j] PROVE i = j
  <2>1. CASE i \in 1..n /\ j \in 1..n
    BY <1>3, <1>6, <2>1 DEF IsInjective
  <2>2. CASE i \in 1..n /\ j \notin 1..n
    <3>1. PICK l \in 1..m : j = n + l
      BY <1>3, <1>4, <2>2
    <3> QED BY <1>3, <1>6, <2>2, <3>1
  <2>3. CASE i \notin 1..n /\ j \in 1..n
    <3>1. PICK k \in 1..m : i = n + k
      BY <1>3, <1>4, <2>3
    <3> QED BY <1>3, <1>6, <2>3, <3>1
  <2>4. CASE i \notin 1..n /\ j \notin 1..n
    <3>1. PICK k \in 1..m : i = n + k
      BY <1>3, <1>4, <2>4
    <3>2. PICK l \in 1..m : j = n + l
      BY <1>3, <1>4, <2>4
    <3>3. b[k] = b[l]
      BY <1>3, <1>6, <3>1, <3>2
    <3>4. k = l
      BY <1>3, <3>3 DEF IsInjective
    <3> QED BY <3>1, <3>2, <3>4
  <2> QED BY <2>1, <2>2, <2>3, <2>4
<1>7. IsInjective(u)
  BY <1>6 DEF IsInjective
<1> QED BY <1>3, <1>5, <1>7 DEF u

LEMMA RanFacts ==
  ASSUME NEW s \in Seq(TaskResults)
  PROVE  Ran(s) \in Seq(Paths) /\ DOMAIN Ran(s) = DOMAIN s /\ \A i \in DOMAIN s : Ran(s)[i] = s[i].task.path
<1>1. ASSUME NEW i \in DOMAIN s PROVE s[i].task.path \in Paths
  <2>1. s[i] \in TaskResults
    OBVIOUS
  <2> QED BY <2>1 DEF TaskResults, Tasks
<1>2. DOMAIN s = 1..Len(s) /\ Len(s) \in Nat
  OBVIOUS
<1>3. Ran(s) = [i \in 1..Len(s) |-> s[i].task.path]
  BY DEF Ran
<1>4. Ran(s) \in [1..Len(s) -> Paths]
  BY <1>1, <1>2, <1>3
<1> QED BY <1>2, <1>3, <1>4

\* No path gets two tasks.
LEMMA HereEachPathOnce ==
  ASSUME NamesApart
  PROVE  HereSpec => []OneTaskPerPath
<1>1. ASSUME Inv PROVE OneTaskPerPath
  <2>1. TypeOK /\ Unique
    BY <1>1 DEF Inv, IInv
  <2>2. queue \in Seq(Tasks) /\ outbox \in Seq(TaskResults) /\ results \in Seq(TaskResults)
    BY <2>1 DEF TypeOK
  <2> DEFINE q == [j \in 1..Len(queue) |-> queue[j].path]
             o == Ran(outbox)  r == Ran(results)
  <2>3. q \in Seq(Paths) /\ DOMAIN q = DOMAIN queue /\ \A i \in DOMAIN queue : q[i] = queue[i].path
    <3>1. \A i \in DOMAIN queue : queue[i].path \in Paths
      BY <2>2, TaskPath
    <3>2. DOMAIN queue = 1..Len(queue) /\ Len(queue) \in Nat
      BY <2>2
    <3>3. q \in [1..Len(queue) -> Paths]
      BY <3>1, <3>2
    <3> QED BY <3>2, <3>3
  <2>4. o \in Seq(Paths) /\ DOMAIN o = DOMAIN outbox /\ \A i \in DOMAIN outbox : o[i] = outbox[i].task.path
    BY <2>2, RanFacts
  <2>5. r \in Seq(Paths) /\ DOMAIN r = DOMAIN results /\ \A i \in DOMAIN results : r[i] = results[i].task.path
    BY <2>2, RanFacts
  <2> HIDE DEF q, o, r
  <2>6. /\ \A i \in DOMAIN q : At("queue", 0, i, q[i])
        /\ \A i \in DOMAIN o : At("out", i, 0, o[i])
        /\ \A i \in DOMAIN r : At("res", i, 0, r[i])
    BY <2>3, <2>4, <2>5 DEF At
  <2>7. /\ IsInjective(q) /\ IsInjective(o) /\ IsInjective(r)
        /\ \A i \in DOMAIN q : \A j \in DOMAIN o : q[i] # o[j]
        /\ \A i \in DOMAIN q : \A j \in DOMAIN r : q[i] # r[j]
        /\ \A i \in DOMAIN o : \A j \in DOMAIN r : o[i] # r[j]
    BY <2>1, <2>6 DEF Unique, IsInjective
  <2> DEFINE qo == q \o o  all == qo \o r
  <2>8. /\ qo \in Seq(Paths) /\ IsInjective(qo)
        /\ \A i \in DOMAIN qo : (\E j \in DOMAIN q : qo[i] = q[j]) \/ (\E j \in DOMAIN o : qo[i] = o[j])
    BY <2>3, <2>4, <2>7, InjectiveConcat
  <2> HIDE DEF qo
  <2>9. \A i \in DOMAIN qo : \A j \in DOMAIN r : qo[i] # r[j]
    BY <2>7, <2>8
  <2>10. /\ IsInjective(all)
         /\ \A i \in DOMAIN all : (\E j \in DOMAIN qo : all[i] = qo[j]) \/ (\E j \in DOMAIN r : all[i] = r[j])
    BY <2>5, <2>7, <2>8, <2>9, InjectiveConcat
  <2> HIDE DEF all
  <2>11. \A p \in Range(all) : \E k, x, i : k \in {"queue", "out", "res"} /\ At(k, x, i, p)
    BY <2>6, <2>8, <2>10 DEF Range
  <2>12. \A w \in Workers : Busy(w) => At("work", w, 0, work[w].task.path)
    BY DEF At, Busy
  <2>13. \A w \in Workers : Busy(w) => work[w].task.path \notin Range(all)
    BY <2>1, <2>11, <2>12 DEF Unique
  <2>14. \A v, w \in Workers : v # w /\ Busy(v) /\ Busy(w) => work[v].task.path # work[w].task.path
    BY <2>1, <2>12 DEF Unique
  <2>15. all = [j \in 1..Len(queue) |-> queue[j].path] \o Ran(outbox) \o Ran(results)
    BY DEF all, qo, q, o, r
  <2> QED BY <2>10, <2>13, <2>14, <2>15 DEF OneTaskPerPath
<1> QED BY <1>1, HereInvariance, PTL

-----------------------------------------------------------------------------
(* Without --force, what a run finds stays                                 *)

LEMMA RestOld ==
  ASSUME FsOK(old)', RootFs(old)', Rest',
         ~ config'.force => \/ fs' = old'
                            \/ Beside(InputPath) \notin DOMAIN old' /\ fs'[InputPath] = old'[InputPath]
  PROVE  OldInv'
<1>1. \A k, x, i, p : ~ At(k, x, i, p)'
  BY DEF Rest, At
<1>2. \A p : ~ Tasked(p)'
  BY <1>1 DEF Tasked
<1>3. \A w \in Workers : ~ Busy(w)'
  BY DEF Rest, Busy
<1> QED BY <1>2, <1>3 DEF OldInv

\* Tasks that move about, with the workers where they were.
LEMMA MovedOld ==
  ASSUME OldInv, fs' = fs, config' = config, old' = old,
         \A p : Tasked(p)' => Tasked(p),
         \A v \in Workers : Busy(v)' /\ ~ config.force /\ Beside(InputPath) \in DOMAIN old
                            => work'[v].pc = "check" /\ Whole(work'[v])
  PROVE  OldInv'
BY DEF OldInv

LEMMA TakeTaskOld ==
  ASSUME Inv, OldInv, NEW w \in Workers, TakeTaskHere(w)
  PROVE  OldInv'
<1>1. Taken(w) /\ fs' = fs /\ config' = config /\ old' = old
  BY TakeTaskInv DEF Inv, TakeTaskHere, host
<1>2. ASSUME NEW v \in Workers, Busy(v)', ~ config.force, Beside(InputPath) \in DOMAIN old
      PROVE  work'[v].pc = "check" /\ Whole(work'[v])
  <2>1. /\ fs = old /\ \A p : Tasked(p) => p = InputPath
        /\ \A u \in Workers : Busy(u) => work[u].pc = "check" /\ Whole(work[u])
    BY <1>2 DEF OldInv
  <2>2. CASE v # w
    BY <1>1, <1>2, <2>1, <2>2 DEF Taken, Busy
  <2>3. CASE v = w
    <3>1. Path(w)' = InputPath
      BY <1>1, <1>2, <2>1, <2>3 DEF Taken
    <3>2. fs[InputPath] # "dir"
      BY ProcessingAssumption DEF Inv, RootInv, RootFs
    <3>3. work'[w].pc # "unknown" /\ work'[w].pc # "dir_handler"
      BY <1>1, <1>2, <2>1, <2>3, <3>1, <3>2 DEF Taken
    <3> QED BY <1>1, <1>2, <2>3, <3>3 DEF Taken
  <2> QED BY <2>2, <2>3
<1>3. \A p : Tasked(p)' => Tasked(p)
  BY <1>1 DEF Taken
<1> QED BY <1>1, <1>2, <1>3, MovedOld

LEMMA StepOld ==
  ASSUME Inv, OldInv, NEW w \in Workers, StepOK(w), WorkHere(w)
  PROVE  OldInv'
<1>1. IInv /\ RootInv /\ fs'[InputPath] = fs[InputPath] /\ Busy(w) /\ config' = config /\ old' = old
  BY StepRoot DEF Inv, StepOK, host
<1>2. CASE config.force \/ Beside(InputPath) \notin DOMAIN old
  BY <1>1, <1>2 DEF OldInv
<1>3. CASE ~ config.force /\ Beside(InputPath) \in DOMAIN old
  <2> DEFINE e == Beside(InputPath)
  <2>1. /\ fs = old /\ \A p : Tasked(p) => p = InputPath
        /\ \A u \in Workers : Busy(u) => work[u].pc = "check" /\ Whole(work[u])
    BY <1>3 DEF OldInv
  <2>2. CheckDirHere(w) /\ Whole(work[w]) /\ work[w].pc = "check" /\ fs' = fs
    BY <1>1, <2>1 DEF WorkHere, TakeTaskHere, CarveUnknownHere, CarveChunkHere, CheckDirHere, MakeDirHere, ExtractHere, SettleHere,
                      DeleteExtracted, DirHandlerHere, ExtractMultiHere, Iterate, Busy
  <2>3. Path(w) = InputPath /\ work[w].src = InputPath
    BY <1>1, <2>1, <2>2, OwnExists DEF Whole, Path
  <2>4. work'[w] = Idle
    <3> DEFINE j == Report(work[w], "OutputExists")
    <3>1. Advance(w, j)
      BY <1>3, <2>1, <2>2, <2>3 DEF CheckDirHere, Exists
    <3>2. Whole(j)
      <4>1. "OutputExists" \in Reports /\ work[w] \in Jobs
        BY <1>1, OwnExists DEF Reports
      <4>2. j.src = work[w].src /\ j.task = work[w].task
        BY <4>1, JobReport DEF Kin
      <4> QED BY <2>2, <4>2 DEF Whole
    <3>3. Return(w, j)
      BY <3>1, <3>2 DEF Advance
    <3>4. work \in [Workers -> Jobs \cup {Idle}]
      BY <1>1 DEF IInv, TypeOK
    <3> QED BY <3>3, <3>4 DEF Return
  <2>5. PICK new : Effect(w, new) /\ (Goes(w, new) \/ Returns(w, new))
    BY DEF StepOK
  <2>6. Moved(new) /\ \A v \in Workers : v # w => work'[v] = work[v]
    BY <1>1, <2>5, StepMoves DEF StepOK
  <2>7. \A p : ~ Of(new, p)
    <3> SUFFICES ASSUME NEW p, Of(new, p) PROVE FALSE
      OBVIOUS
    <3>1. InRegion(w, p) /\ p \in DOMAIN fs /\ ~ Under(Path(w), p)
      BY <2>2, <2>5 DEF Effect, NewTasks
    <3>2. ~ Engaged(work[w])
      BY <2>2 DEF Engaged
    <3>3. p \in Paths /\ Under(p, InputPath)
      BY <2>3, <3>1, <3>2 DEF InRegion
    <3>4. p = InputPath
      BY <1>1, <3>1, <3>3, InputFacts, BesideFacts DEF RootInv, RootFs
    <3> QED BY <2>3, <3>1, <3>3, <3>4, UnderOrder
  <2>8. \A p : Tasked(p)' => Tasked(p)
    BY <2>6, <2>7 DEF Moved
  <2>9. \A v \in Workers : Busy(v)' => work'[v].pc = "check" /\ Whole(work'[v])
    BY <2>1, <2>4, <2>6 DEF Busy
  <2> QED BY <1>1, <2>2, <2>8, <2>9, MovedOld
<1> QED BY <1>2, <1>3

LEMMA NextOld ==
  ASSUME NamesApart, Inv, OldInv, [NextHere]_vars
  PROVE  OldInv'
<1>1. IInv /\ RootInv /\ Unique /\ Quiet /\ FsOK(old) /\ RootFs(old)
  BY DEF Inv, IInv, OldInv
<1>2. ASSUME UNCHANGED <<fs, config, old, queue, work, outbox, results>> PROVE OldInv'
  <2>1. \A p : Tasked(p)' => Tasked(p)
    BY <1>1, <1>2, Unmoved DEF Moved, Of
  <2>2. \A v \in Workers : Busy(v)' /\ ~ config.force /\ Beside(InputPath) \in DOMAIN old
                           => work'[v].pc = "check" /\ Whole(work'[v])
    BY <1>2 DEF OldInv, Busy
  <2> QED BY <1>2, <2>1, <2>2, MovedOld
<1>3. CASE RemoveOldHere
  <2>1. Rest' /\ FsOK(old)' /\ RootFs(old)'
    BY <1>1, <1>3 DEF RemoveOldHere, Quiet, Rest
  <2>2. ~ config.force => fs' = fs /\ config' = config /\ old' = old
    BY <1>3 DEF RemoveOldHere
  <2>3. config' = config
    BY <1>3 DEF RemoveOldHere
  <2> QED BY <2>1, <2>2, <2>3, RestOld DEF OldInv
<1>4. CASE PrepareReport
  <2>1. fs' = fs /\ config' = config /\ old' = old /\ work' = work /\ outbox' = outbox /\ results' = results /\ Rest
    BY <1>1, <1>4 DEF PrepareReport, Quiet, Rest
  <2>2. queue' = <<>> \/ queue' = <<RootTask>>
    BY <1>4 DEF PrepareReport
  <2>3. \A k, x, i, p : At(k, x, i, p)' => p = InputPath
    BY <2>1, <2>2 DEF At, Rest, RootTask
  <2>4. \A p : Tasked(p)' => p = InputPath
    BY <2>3 DEF Tasked
  <2>5. \A v \in Workers : ~ Busy(v)'
    BY <2>1 DEF Rest, Busy
  <2> QED BY <2>1, <2>4, <2>5 DEF OldInv
<1>5. CASE Register
  <2>1. fs' = fs /\ config' = config /\ old' = old /\ work' = work
    BY <1>5 DEF Register, host
  <2>2. \A p : Tasked(p)' => Tasked(p)
    BY <1>1, <1>5, RegisterMoves DEF IInv, Moved, Of
  <2>3. \A v \in Workers : Busy(v)' /\ ~ config.force /\ Beside(InputPath) \in DOMAIN old
                           => work'[v].pc = "check" /\ Whole(work'[v])
    BY <2>1 DEF OldInv, Busy
  <2> QED BY <2>1, <2>2, <2>3, MovedOld
<1>6. ASSUME NEW w \in Workers, WorkHere(w) PROVE OldInv'
  <2>1. CASE TakeTaskHere(w)
    BY <2>1, TakeTaskOld
  <2>2. CASE ~ TakeTaskHere(w)
    BY <1>6, <2>2, WorkOK, StepOld
  <2> QED BY <2>1, <2>2
<1>7. CASE Crash
  <2>1. Rest' /\ FsOK(old)' /\ RootFs(old)' /\ fs' = fs /\ config' = config /\ old' = old
    BY <1>1, <1>7 DEF Crash, Rest
  <2> QED BY <2>1, RestOld DEF OldInv
<1>8. CASE Rerun
  <2>1. Rest' /\ FsOK(old)' /\ RootFs(old)' /\ fs' = old'
    BY <1>1, <1>8 DEF Rerun, Quiet, Rest, IInv, RootInv
  <2> QED BY <2>1, RestOld
<1>9. CASE WriteReport
  BY <1>2, <1>9 DEF WriteReport
<1>10. CASE UNCHANGED vars \/ Over
  BY <1>2, <1>10 DEF Over, vars
<1> QED BY <1>3, <1>4, <1>5, <1>6, <1>7, <1>8, <1>9, <1>10 DEF NextHere, HostHere

\* A run without --force leaves every file and directory that it finds as it was, however
\* earlier runs ended (process_file, carve and Handler.extract never write over anything).
LEMMA HereOldStays ==
  ASSUME NamesApart
  PROVE  HereSpec => []OldUntouched
<1>1. Init => OldInv
  <2> SUFFICES ASSUME Init PROVE OldInv
    OBVIOUS
  <2>1. Inv /\ old = fs /\ Rest
    BY InitInv DEF Init, Rest
  <2>2. \A p : ~ Tasked(p)
    BY <2>1, NoTask DEF Tasked
  <2>3. \A w \in Workers : ~ Busy(w)
    BY <2>1 DEF Rest, Busy
  <2> QED BY <2>1, <2>2, <2>3 DEF OldInv, Inv, IInv, RootInv
<1>2. Inv /\ OldInv /\ [NextHere]_vars => OldInv'
  BY NextOld
<1>3. Inv /\ OldInv => OldUntouched
  <2> SUFFICES ASSUME Inv, OldInv, ~ config.force, NEW p \in DOMAIN old PROVE Exists(p) /\ fs[p] = old[p]
    BY DEF OldUntouched
  <2>1. CASE Beside(InputPath) \in DOMAIN old
    BY <2>1 DEF OldInv, Exists
  <2>2. CASE Beside(InputPath) \notin DOMAIN old
    <3>1. p = InputPath
      BY <2>2, InputFacts DEF OldInv, RootFs, FsOK, Closed
    <3>2. fs[InputPath] = old[InputPath]
      BY <2>2 DEF OldInv
    <3> QED BY <3>1, <3>2 DEF Inv, RootInv, RootFs, Exists
  <2> QED BY <2>1, <2>2
<1> QED BY <1>1, <1>2, <1>3, HereInvariance, PTL DEF HereSpec

-----------------------------------------------------------------------------
(* What is removed has been extracted                                      *)

LEMMA NoOutcome ==
  ASSUME NEW job, NEW f, job.pc \notin {"mkdir", "extract", "settle", "delete"}
  PROVE  OutcomeFor(job, f)
BY DEF OutcomeFor

LEMMA TheTree ==
  ASSUME IInv, NEW w \in Workers, Busy(w), work[w].pc \in FilePcs
  PROVE  /\ TreeOK(TheChunk(work[w]).tree) /\ DOMAIN TheChunk(work[w]).tree \subseteq Paths
         /\ TheChunk(work[w]).result \in {"ok", "error", "silent"}
         /\ Beside(work[w].src) \in Paths
<1>1. work[w] \in Jobs /\ work[w].content \in Files /\ work[w].todo \in 1..Len(Chunks(work[w].content))
  BY OwnFile DEF FileLocal
<1>2. work[w].src \in Paths
  BY <1>1 DEF Jobs
<1> QED BY <1>1, <1>2, ContentFacts, BesideFacts DEF TheChunk, TreeOK

\* Other workers leave alone what a worker extracts.
LEMMA OutcomeFrame ==
  ASSUME IInv, NEW v \in Workers, Busy(v), OutcomeFor(work[v], fs),
         \A p : InRegion(v, p) => Same(fs, fs', p)
  PROVE  OutcomeFor(work[v], fs')
<1>1. CASE work[v].pc \notin {"settle", "delete"}
  BY <1>1 DEF OutcomeFor
<1>2. CASE work[v].pc \in {"settle", "delete"}
  <2> DEFINE d == Beside(work[v].src)
             T == DOMAIN TheChunk(work[v]).tree
  <2>1. work[v].pc \in FilePcs
    BY <1>2 DEF FilePcs
  <2>2. T \subseteq Paths /\ d \in Paths
    BY <2>1, TheTree
  <2>3. TypeOK /\ Local(v) /\ FileLocal(v) /\ CarveDir(work[v]) \in Paths
    BY <2>1, OwnFile
  <2>4. Under(d, CarveDir(work[v]))
    <3>1. CASE work[v].pc = "settle"
      BY <2>3, <3>1, RegionMembers
    <3>2. CASE work[v].pc = "delete"
      <4>1. d = CarveDir(work[v])
        BY <2>3, <3>2 DEF FileLocal, Whole, CarveDir
      <4> QED BY <2>2, <4>1, UnderOrder
    <3> QED BY <1>2, <3>1, <3>2
  <2>5. Engaged(work[v])
    BY <1>2 DEF Engaged
  <2> HIDE DEF d, T
  <2>6. ASSUME NEW p \in Paths, Under(p, d) PROVE Same(fs, fs', p)
    <3>1. Under(p, CarveDir(work[v]))
      BY <2>2, <2>3, <2>4, <2>6, UnderOrder
    <3> QED BY <2>5, <3>1 DEF InRegion
  <2>7. Same(fs, fs', d)
    BY <2>2, <2>6, UnderOrder
  <2>8. \A r \in T : Same(fs, fs', d \o r)
    <3>1. \A r \in T : d \o r \in Paths /\ Under(d \o r, d)
      BY <2>2, ConcatFacts
    <3> QED BY <2>6, <3>1
  <2>9. \A r \in T : d \o r \in DOMAIN fs => d \o r \in DOMAIN fs'
    BY <2>8 DEF Same
  <2>10. d \in DOMAIN fs' => d \in DOMAIN fs /\ fs'[d] = fs[d]
    BY <2>7 DEF Same
  <2> QED BY <2>9, <2>10 DEF OutcomeFor, d, T
<1> QED BY <1>1, <1>2

LEMMA AdvancePc ==
  ASSUME TypeOK, NEW w \in Workers, NEW j \in Jobs, Advance(w, j)
  PROVE  work'[w] = Idle \/ work'[w].pc = "carve"
<1>1. work \in [Workers -> Jobs \cup {Idle}]
  BY DEF TypeOK
<1>2. CASE ~ Whole(j) /\ j.todo < Len(Chunks(j.content))
  <2> DEFINE next == [j EXCEPT !.pc = "carve", !.todo = @ + 1]
  <2>1. Continue(w, next)
    BY <1>2 DEF Advance
  <2>2. next.pc = "carve"
    <3>1. "carve" \in Pcs
      BY DEF Pcs
    <3> QED BY <3>1, JobNext
  <2> HIDE DEF next
  <2> QED BY <1>1, <2>1, <2>2 DEF Continue
<1>3. CASE ~ (~ Whole(j) /\ j.todo < Len(Chunks(j.content)))
  <2>1. Return(w, j)
    BY <1>3 DEF Advance
  <2> QED BY <1>1, <2>1 DEF Return
<1> QED BY <1>2, <1>3

\* A worker on a directory stays one.
LEMMA DirStays ==
  ASSUME IInv, IInv', NEW w \in Workers, StepOK(w), work[w].pc \notin FilePcs, Busy(w)'
  PROVE  work'[w].pc \notin FilePcs
<1>1. PICK new : Effect(w, new) /\ (Goes(w, new) \/ Returns(w, new))
  BY DEF StepOK
<1>2. Busy(w) /\ (Goes(w, new) => work'[w].task = work[w].task) /\ (~ Goes(w, new) => work'[w] = Idle)
  BY <1>1, StepMoves DEF StepOK
<1>3. Goes(w, new) /\ Path(w)' = Path(w)
  BY <1>2 DEF Busy, Path
<1>4. Path(w) \in DOMAIN fs /\ fs[Path(w)] = "dir"
  BY <1>2 DEF IInv, LocalInv, Local, DirLocal
<1>5. Path(w) \in DOMAIN fs' /\ fs'[Path(w)] = "dir"
  BY <1>1, <1>3, <1>4 DEF Goes, Effect
<1>6. Local(w)'
  BY DEF IInv, LocalInv
<1>7. work'[w].pc \in FilePcs => fs'[Path(w)'] \in Files
  BY <1>6 DEF Local, FileLocal
<1> QED BY <1>3, <1>5, <1>7, ProcessingAssumption

LEMMA CheckDirOutcome ==
  ASSUME IInv, NEW w \in Workers, CheckDirHere(w)
  PROVE  Busy(w)' => OutcomeFor(work'[w], fs')
<1> DEFINE job == work[w]  d == Beside(job.src)
<1>1. Busy(w) /\ job.pc = "check" /\ job.pc \in FilePcs /\ fs' = fs
  BY DEF CheckDirHere, Busy, FilePcs
<1>2. TypeOK /\ job \in Jobs /\ work \in [Workers -> Jobs \cup {Idle}]
  BY <1>1, OwnFile DEF TypeOK
<1>3. CASE Exists(d)
  <2> DEFINE j == Report(job, "OutputExists")
  <2>1. Advance(w, j)
    BY <1>3 DEF CheckDirHere
  <2>2. j \in Jobs
    <3>1. "OutputExists" \in Reports
      BY DEF Reports
    <3> QED BY <1>2, <3>1, JobReport
  <2> HIDE DEF j
  <2>3. work'[w] = Idle \/ work'[w].pc = "carve"
    BY <1>2, <2>1, <2>2, AdvancePc
  <2> QED BY <2>3, NoOutcome DEF Busy
<1>4. CASE ~ Exists(d)
  <2> DEFINE r == TheChunk(job).result
             pc == IF r = "silent" THEN "settle" ELSE "mkdir"
             new == [job EXCEPT !.outcome = r, !.extract_dir = Beside(job.src), !.pc = pc]
  <2>1. Continue(w, new)
    BY <1>4 DEF CheckDirHere
  <2>2. pc \in {"settle", "mkdir"} /\ (pc = "settle" => r = "silent")
    OBVIOUS
  <2> HIDE DEF pc, r
  <2>3. new.outcome = r /\ new.pc = pc /\ new.src = job.src /\ new.content = job.content /\ new.todo = job.todo
    <3>1. job \in Jobs
      BY <1>2
    <3> HIDE DEF job
    <3> QED BY <3>1, Zenon DEF Jobs
  <2> HIDE DEF new
  <2>4. work'[w] = new
    BY <1>2, <2>1 DEF Continue
  <2>5. TheChunk(new) = TheChunk(job)
    BY <2>3 DEF TheChunk
  <2>6. OutcomeFor(new, fs)
    BY <1>4, <2>2, <2>3, <2>5 DEF OutcomeFor, Exists, r
  <2> QED BY <1>1, <2>4, <2>6
<1> QED BY <1>3, <1>4

LEMMA MakeDirOutcome ==
  ASSUME IInv, OutcomeInv, NEW w \in Workers, MakeDirHere(w)
  PROVE  Busy(w)' => OutcomeFor(work'[w], fs')
<1> DEFINE job == work[w]  d == Beside(job.src)  new == [job EXCEPT !.pc = "extract"]
<1>1. Busy(w) /\ job.pc = "mkdir" /\ job.pc \in FilePcs
  BY DEF MakeDirHere, Busy, FilePcs
<1>2. TypeOK /\ job \in Jobs /\ work \in [Workers -> Jobs \cup {Idle}] /\ d \notin DOMAIN fs
  BY <1>1, OwnFile DEF TypeOK, FileLocal
<1>3. Continue(w, new)
  BY <1>2 DEF MakeDirHere, Exists
<1>4. new.outcome = job.outcome /\ new.pc = "extract" /\ new.src = job.src /\ TheChunk(new) = TheChunk(job)
  BY <1>2 DEF Jobs, TheChunk
<1> HIDE DEF new
<1>5. work'[w] = new
  BY <1>2, <1>3 DEF Continue
<1>6. job.outcome = TheChunk(job).result
  BY <1>1 DEF OutcomeInv, OutcomeFor
<1> QED BY <1>4, <1>5, <1>6 DEF OutcomeFor

LEMMA ExtractOutcome ==
  ASSUME IInv, OutcomeInv, NEW w \in Workers, ExtractHere(w)
  PROVE  Busy(w)' => OutcomeFor(work'[w], fs')
<1> DEFINE job == work[w]  d == Beside(job.src)  new == [job EXCEPT !.pc = "settle"]
           tree == TheChunk(job).tree
<1>1. /\ Busy(w) /\ job.pc = "extract" /\ job.pc \in FilePcs /\ Continue(w, new)
      /\ fs' = WithTree(fs, d, tree)
  BY DEF ExtractHere, Busy, FilePcs
<1>2. /\ TypeOK /\ FsOK(fs) /\ job \in Jobs /\ work \in [Workers -> Jobs \cup {Idle}]
      /\ d \in DOMAIN fs /\ fs[d] = "dir" /\ Bare(fs, d)
  BY <1>1, OwnFile DEF TypeOK, FileLocal
<1>3. TreeOK(tree)
  BY <1>1, TheTree
<1>4. new.outcome = job.outcome /\ new.pc = "settle" /\ new.src = job.src /\ TheChunk(new) = TheChunk(job)
  BY <1>2 DEF Jobs, TheChunk
<1> HIDE DEF new
<1>5. work'[w] = new
  BY <1>1, <1>2 DEF Continue
<1>6. job.outcome = TheChunk(job).result
  BY <1>1 DEF OutcomeInv, OutcomeFor
<1> HIDE DEF d, tree
<1>7. fs'[d] = "dir" /\ \A r \in DOMAIN tree : d \o r \in DOMAIN fs'
  <2> DEFINE g == WithTree(fs, d, tree)
  <2>1. /\ DOMAIN g = DOMAIN fs \cup {d \o r : r \in DOMAIN tree}
        /\ \A p \in DOMAIN fs : g[p] = fs[p]
    BY <1>2, <1>3, WithTreeFacts, Zenon
  <2> HIDE DEF g
  <2>2. g[d] = "dir" /\ \A r \in DOMAIN tree : d \o r \in DOMAIN g
    BY <1>2, <2>1, Zenon
  <2> QED BY <1>1, <2>2 DEF g
<1> QED BY <1>4, <1>5, <1>6, <1>7 DEF OutcomeFor, d, tree

\* Reports and tasks do not change what else a worker knows.
LEMMA SettledJob ==
  ASSUME NEW job \in Jobs, NEW d \in Paths
  PROVE  LET reported == IF job.outcome = "error" THEN Report(job, "ExtractError") ELSE job
             ts == <<SubTask(d, job.task.depth + 1)>>
         IN \A j \in {reported, Spawn(reported, ts)} :
              /\ j \in Jobs /\ j.outcome = job.outcome /\ j.src = job.src /\ j.todo = job.todo
              /\ j.content = job.content
<1> DEFINE reported == IF job.outcome = "error" THEN Report(job, "ExtractError") ELSE job
           ts == <<SubTask(d, job.task.depth + 1)>>
<1>1. "ExtractError" \in Reports
  BY DEF Reports
<1>2. /\ reported \in Jobs /\ reported.outcome = job.outcome /\ reported.src = job.src
      /\ reported.todo = job.todo /\ reported.content = job.content
  BY <1>1 DEF Report, Jobs
<1>3. ts \in Seq(Tasks)
  <2>1. job.task.depth \in Nat
    BY DEF Jobs, Tasks
  <2> QED BY <2>1, OneTask
<1> HIDE DEF reported, ts
<1>4. LET s == Spawn(reported, ts) IN
      /\ s \in Jobs /\ s.src = reported.src /\ s.todo = reported.todo /\ s.content = reported.content
  BY <1>2, <1>3, JobSpawn
<1>5. Spawn(reported, ts).outcome = reported.outcome
  BY <1>2, Zenon DEF Spawn, Jobs
<1>6. \A j \in {reported, Spawn(reported, ts)} :
        /\ j \in Jobs /\ j.outcome = job.outcome /\ j.src = job.src /\ j.todo = job.todo
        /\ j.content = job.content
  <2> DEFINE s == Spawn(reported, ts)
  <2>1. /\ s \in Jobs /\ s.src = reported.src /\ s.todo = reported.todo /\ s.content = reported.content
        /\ s.outcome = reported.outcome
    BY <1>4, <1>5, Zenon
  <2> HIDE DEF s
  <2>2. \A j \in {reported, s} :
        /\ j \in Jobs /\ j.outcome = job.outcome /\ j.src = job.src /\ j.todo = job.todo
        /\ j.content = job.content
    BY <1>2, <2>1
  <2> QED BY <2>2 DEF s
<1> QED BY <1>6 DEF reported, ts

LEMMA SettleOutcome ==
  ASSUME IInv, OutcomeInv, NEW w \in Workers, SettleHere(w)
  PROVE  Busy(w)' => OutcomeFor(work'[w], fs')
<1> DEFINE job == work[w]  d == Beside(job.src)
           empty == Exists(d) /\ \A p \in DOMAIN fs : ~ Child(p, d)
           reported == IF job.outcome = "error" THEN Report(job, "ExtractError") ELSE job
           ts == <<SubTask(d, job.task.depth + 1)>>
           j == IF Exists(d) /\ ~ empty THEN Spawn(reported, ts) ELSE reported
           R == (IF empty THEN {d} ELSE {})
                \cup (IF ~ Whole(job) /\ job.outcome = "ok" /\ ~ config.keep THEN {job.src} ELSE {})
<1>1. /\ Busy(w) /\ job.pc = "settle" /\ job.pc \in FilePcs /\ fs' = Without(fs, R)
      /\ IF ShouldDelete(job) THEN Continue(w, [j EXCEPT !.pc = "delete"]) ELSE Advance(w, j)
  BY DEF SettleHere, Busy, FilePcs
<1>2. TypeOK /\ job \in Jobs /\ work \in [Workers -> Jobs \cup {Idle}]
  BY <1>1, OwnFile DEF TypeOK
<1>3. d \in Paths /\ DOMAIN TheChunk(job).tree \subseteq Paths
  BY <1>1, TheTree
<1>4. \A x \in {reported, Spawn(reported, ts)} :
        /\ x \in Jobs /\ x.outcome = job.outcome /\ x.src = job.src /\ x.todo = job.todo
        /\ x.content = job.content
  BY <1>2, <1>3, SettledJob
<1>5. j \in {reported, Spawn(reported, ts)}
  OBVIOUS
<1>6. Whole(job) => R \subseteq {d}
  OBVIOUS
<1> HIDE DEF reported, ts, j, R
<1>7. j \in Jobs /\ j.outcome = job.outcome /\ j.src = job.src /\ TheChunk(j) = TheChunk(job)
  BY <1>4, <1>5 DEF TheChunk
<1>8. CASE ~ ShouldDelete(job)
  <2>1. work'[w] = Idle \/ work'[w].pc = "carve"
    BY <1>1, <1>2, <1>7, <1>8, AdvancePc
  <2> QED BY <2>1, NoOutcome DEF Busy
<1>9. CASE ShouldDelete(job)
  <2> DEFINE next == [j EXCEPT !.pc = "delete"]
  <2>1. Continue(w, next)
    BY <1>1, <1>9
  <2>2. next.outcome = job.outcome /\ next.pc = "delete" /\ next.src = job.src /\ TheChunk(next) = TheChunk(job)
    <3>1. /\ next.outcome = j.outcome /\ next.pc = "delete" /\ next.src = j.src
          /\ next.content = j.content /\ next.todo = j.todo
      BY <1>7, Zenon DEF Jobs
    <3> HIDE DEF next
    <3> QED BY <1>7, <3>1 DEF TheChunk
  <2> HIDE DEF next
  <2>3. work'[w] = next
    BY <1>2, <2>1 DEF Continue
  <2>4. Whole(job) /\ job.outcome # "error"
    BY <1>9 DEF ShouldDelete
  <2>5. /\ job.outcome = TheChunk(job).result
        /\ job.outcome # "silent" => \A r \in DOMAIN TheChunk(job).tree : d \o r \in DOMAIN fs
    BY <1>1 DEF OutcomeInv, OutcomeFor
  <2>6. \A r \in DOMAIN TheChunk(job).tree : d \o r # d
    BY <1>3, ConcatFacts
  <2>7. DOMAIN fs' = DOMAIN fs \ R
    BY <1>1 DEF Without
  <2> HIDE DEF d
  <2>8. job.outcome # "silent" => \A r \in DOMAIN TheChunk(job).tree : d \o r \in DOMAIN fs'
    BY <1>6, <2>4, <2>5, <2>6, <2>7
  <2> QED BY <2>2, <2>3, <2>4, <2>5, <2>8 DEF OutcomeFor, d
<1> QED BY <1>8, <1>9

LEMMA CarveOutcome ==
  ASSUME IInv, NEW w \in Workers, CarveUnknownHere(w) \/ CarveChunkHere(w)
  PROVE  Busy(w)' => OutcomeFor(work'[w], fs')
<1> DEFINE job == work[w]
<1>1. Busy(w) /\ job.pc \in FilePcs
  BY DEF CarveUnknownHere, CarveChunkHere, Busy, FilePcs
<1>2. job \in Jobs /\ work \in [Workers -> Jobs \cup {Idle}]
  BY <1>1, OwnFile DEF TypeOK
<1>3. ASSUME NEW next, NEW files, CarveHere(w, job, files, next), next.pc \in {"carve", "check"}
      PROVE  work'[w] = Idle \/ work'[w].pc \in {"carve", "check"}
  BY <1>2, <1>3 DEF CarveHere, Return, Continue
<1>4. CASE CarveUnknownHere(w)
  <2> DEFINE next == [job EXCEPT !.pc = "carve"]
  <2>1. CarveHere(w, job, UnknownPaths(job), next)
    BY <1>4 DEF CarveUnknownHere
  <2>2. next.pc \in {"carve", "check"}
    BY <1>2 DEF Jobs
  <2> HIDE DEF next
  <2>3. work'[w] = Idle \/ work'[w].pc \in {"carve", "check"}
    BY <1>3, <2>1, <2>2
  <2> QED BY <2>3, NoOutcome DEF Busy
<1>5. CASE CarveChunkHere(w)
  <2> DEFINE p == ChunkPath(job, job.todo)
             next == [job EXCEPT !.pc = "check", !.src = p]
  <2>1. CarveHere(w, job, {p}, next)
    BY <1>5 DEF CarveChunkHere
  <2>2. next.pc \in {"carve", "check"}
    <3>1. next.pc = "check"
      BY <1>2, Zenon DEF Jobs
    <3> QED BY <3>1
  <2> HIDE DEF next, p
  <2>3. work'[w] = Idle \/ work'[w].pc \in {"carve", "check"}
    BY <1>3, <2>1, <2>2
  <2> QED BY <2>3, NoOutcome DEF Busy
<1> QED BY <1>4, <1>5

LEMMA StepOutcome ==
  ASSUME Inv, IInv', OutcomeInv, NEW w \in Workers, WorkHere(w), ~ TakeTaskHere(w), StepOK(w)
  PROVE  OutcomeInv'
<1>1. IInv /\ TypeOK /\ Unique /\ RegionInv /\ Busy(w)
  BY DEF Inv, IInv, StepOK
<1>2. PICK new : Effect(w, new) /\ (Goes(w, new) \/ Returns(w, new))
  BY DEF StepOK
<1>3. ASSUME NEW v \in Workers, v # w, Busy(v)' PROVE OutcomeFor(work'[v], fs')
  <2>1. work'[v] = work[v] /\ Busy(v)
    BY <1>1, <1>2, <1>3, StepMoves DEF StepOK, Busy
  <2>2. \A p : InRegion(v, p) => Same(fs, fs', p)
    BY <1>1, <1>2, <1>3, <2>1, WorkersApart DEF Effect
  <2>3. OutcomeFor(work[v], fs)
    BY <2>1 DEF OutcomeInv
  <2>4. OutcomeFor(work[v], fs')
    BY <1>1, <2>1, <2>2, <2>3, OutcomeFrame
  <2> QED BY <2>1, <2>4
<1>4. Busy(w)' => OutcomeFor(work'[w], fs')
  <2>1. CASE CarveUnknownHere(w) \/ CarveChunkHere(w)
    BY <1>1, <2>1, CarveOutcome
  <2>2. CASE CheckDirHere(w)
    BY <1>1, <2>2, CheckDirOutcome
  <2>3. CASE MakeDirHere(w)
    BY <1>1, <2>3, MakeDirOutcome
  <2>4. CASE ExtractHere(w)
    BY <1>1, <2>4, ExtractOutcome
  <2>5. CASE SettleHere(w)
    BY <1>1, <2>5, SettleOutcome
  <2>6. CASE DeleteExtracted(w)
    <3>1. work'[w] = Idle
      BY <1>1, <2>6 DEF DeleteExtracted, Return, TypeOK
    <3> QED BY <3>1 DEF Busy
  <2>7. CASE DirHandlerHere(w) \/ ExtractMultiHere(w) \/ Iterate(w)
    <3>1. work[w].pc \notin FilePcs
      BY <2>7 DEF DirHandlerHere, ExtractMultiHere, Iterate, FilePcs
    <3>2. Busy(w)' => work'[w].pc \notin FilePcs
      BY <1>1, <3>1, DirStays
    <3> QED BY <3>2, NoOutcome DEF FilePcs
  <2> QED BY <2>1, <2>2, <2>3, <2>4, <2>5, <2>6, <2>7 DEF WorkHere
<1> QED BY <1>3, <1>4 DEF OutcomeInv

\* A silent failure, of an encrypted chunk or one without an extractor, is not told from a
\* success when --delete-extracted is set.
NothingSilent ==
  Deleting => \A c \in Files : \A j \in 1..Len(Chunks(c)) : Chunks(c)[j].result # "silent"

\* What the steps of a worker remove.
LEMMA WorkRemoves ==
  ASSUME NothingSilent, Inv, OutcomeInv, LinkInv, NEW w \in Workers, WorkHere(w), NEW p \in DOMAIN fs \ DOMAIN fs', fs[p] # "dir"
  PROVE  /\ Under(p, Beside(InputPath))
         /\ Busy(w) /\ work[w].src = p /\ FullyExtracted(work[w])
<1> DEFINE job == work[w]  d == Beside(job.src)
<1>1. IInv /\ RootInv /\ TypeOK
  BY DEF Inv, IInv
<1>2. ASSUME p # InputPath PROVE Under(p, Beside(InputPath))
  BY <1>1, <1>2 DEF RootInv, RootFs
<1>3. CASE SettleHere(w)
  <2> DEFINE empty == Exists(d) /\ \A x \in DOMAIN fs : ~ Child(x, d)
  <2>1. Busy(w) /\ job.pc = "settle" /\ job.pc \in FilePcs
    BY <1>3 DEF SettleHere, Busy, FilePcs
  <2>2. OutcomeFor(job, fs)
    BY <2>1 DEF OutcomeInv
  <2>3. \/ empty /\ p = d
        \/ ~ Whole(job) /\ job.outcome = "ok" /\ p = job.src
    BY <1>3 DEF SettleHere, Without
  <2>4. ~ (empty /\ p = d)
    BY <2>1, <2>2 DEF OutcomeFor, Exists
  <2>5. ~ Whole(job) /\ job.outcome = "ok" /\ p = job.src
    BY <2>3, <2>4
  <2>6. FullyExtracted(job)
    BY <2>1, <2>2, <2>5 DEF OutcomeFor, FullyExtracted, Exists, LinkInv, Remembers
  <2>7. fs[p] = "piece"
    BY <1>1, <2>1, <2>5, CarvedIn
  <2>8. p # InputPath
    BY <1>1, <2>7, ContentFacts DEF RootInv, RootFs
  <2> QED BY <1>2, <2>1, <2>5, <2>6, <2>8
<1>4. CASE DeleteExtracted(w)
  <2>1. Busy(w) /\ job.pc = "delete" /\ job.pc \in FilePcs /\ p = job.src
    BY <1>4 DEF DeleteExtracted, Busy, FilePcs, Without
  <2>2. OutcomeFor(job, fs)
    BY <2>1 DEF OutcomeInv
  <2>3. /\ Whole(job) /\ config.delete # "none" /\ job.task.depth # 0 /\ job.content \in Files
        /\ job.todo \in 1..Len(Chunks(job.content))
    BY <1>1, <2>1, OwnFile DEF FileLocal
  <2>4. p # InputPath
    BY <1>1, <2>1, <2>3 DEF Whole, RootInv, Path
  <2>5. TheChunk(job).result # "silent"
    <3>1. Deleting
      BY <1>1, <2>3 DEF TypeOK, Deleting
    <3> QED BY <2>3, <3>1 DEF NothingSilent, TheChunk
  <2>6. TheChunk(job).result \in {"ok", "error", "silent"}
    BY <1>1, <2>1, TheTree
  <2>7. FullyExtracted(job)
    BY <2>1, <2>2, <2>5, <2>6 DEF OutcomeFor, FullyExtracted, Exists, LinkInv, Remembers
  <2> QED BY <1>2, <2>1, <2>4, <2>7
<1>5. ASSUME NEW S, NEW node, fs' = With(fs, S, node) PROVE FALSE
  BY <1>5 DEF With
<1>6. ASSUME NEW x, NEW tree, fs' = WithTree(fs, x, tree) PROVE FALSE
  BY <1>6 DEF WithTree
<1>7. CASE CarveUnknownHere(w) \/ CarveChunkHere(w)
  <2>1. PICK files, next : CarveHere(w, job, files, next)
    BY <1>7 DEF CarveUnknownHere, CarveChunkHere
  <2> DEFINE g == With(fs, IF files = {} THEN {} ELSE {CarveDir(job)}, "dir")
  <2>2. fs' = fs \/ fs' = With(g, files, "piece")
    BY <2>1 DEF CarveHere
  <2>3. DOMAIN fs \subseteq DOMAIN g
    BY DEF With
  <2> HIDE DEF g
  <2>4. fs' = With(g, files, "piece") => DOMAIN g \subseteq DOMAIN fs'
    BY DEF With
  <2> QED BY <2>2, <2>3, <2>4
<1>8. CASE MakeDirHere(w) \/ DirHandlerHere(w)
  <2>1. fs' = fs \/ \E S, node : fs' = With(fs, S, node)
    BY <1>8 DEF MakeDirHere, DirHandlerHere
  <2> QED BY <1>5, <2>1
<1>9. CASE ExtractHere(w) \/ ExtractMultiHere(w)
  <2>1. fs' = fs \/ \E x, tree : fs' = WithTree(fs, x, tree)
    BY <1>9 DEF ExtractHere, ExtractMultiHere
  <2> QED BY <1>6, <2>1
<1>10. CASE TakeTaskHere(w) \/ CheckDirHere(w) \/ Iterate(w)
  <2>1. fs' = fs
    BY <1>10 DEF TakeTaskHere, CheckDirHere, Iterate
  <2> QED BY <2>1
<1> QED BY <1>3, <1>4, <1>7, <1>8, <1>9, <1>10 DEF WorkHere

LEMMA NextOutcome ==
  ASSUME NamesApart, Inv, Inv', OutcomeInv, [NextHere]_vars
  PROVE  OutcomeInv'
<1>1. IInv /\ RootInv /\ IInv' /\ TypeOK
  BY DEF Inv, IInv
<1>2. ASSUME NEW w \in Workers, WorkHere(w) PROVE OutcomeInv'
  <2>1. CASE TakeTaskHere(w)
    <3>1. Taken(w) /\ fs' = fs
      BY <1>1, <2>1, TakeTaskInv DEF TakeTaskHere
    <3>2. Busy(w)' => OutcomeFor(work'[w], fs')
      BY <3>1, NoOutcome DEF Taken
    <3>3. \A v \in Workers : v # w => work'[v] = work[v]
      BY <3>1 DEF Taken
    <3> QED BY <3>1, <3>2, <3>3 DEF OutcomeInv, Busy
  <2>2. CASE ~ TakeTaskHere(w)
    <3>1. StepOK(w)
      BY <1>2, <2>2, WorkOK
    <3> QED BY <1>1, <1>2, <2>2, <3>1, StepOutcome
  <2> QED BY <2>1, <2>2
<1>3. CASE UNCHANGED <<fs, work>>
  BY <1>3 DEF OutcomeInv, Busy
<1>4. CASE Crash \/ RemoveOldHere
  <2>1. \A w \in Workers : work'[w] = Idle
    BY <1>1, <1>4 DEF Crash, RemoveOldHere, IInv, Quiet
  <2> QED BY <2>1 DEF OutcomeInv, Busy
<1>5. CASE PrepareReport \/ Register \/ WriteReport \/ Rerun \/ Over \/ UNCHANGED vars
  BY <1>3, <1>5 DEF PrepareReport, Register, WriteReport, Rerun, Over, vars
<1> QED BY <1>2, <1>4, <1>5 DEF NextHere, HostHere

-----------------------------------------------------------------------------
(* Everything is visited                                                   *)

\* A worker gives its result, or goes on to the next chunk.
Ends(w, j) == Return(w, j) \/ Continue(w, j)

LEMMA CarriesOn ==
  ASSUME NEW job \in Jobs, NEW pc, NEW x, NEW r
  PROVE  /\ Carries(job, job)
         /\ LET j == [job EXCEPT !.pc = pc] IN Carries(j, job) /\ j.pc = pc /\ j.src = job.src
         /\ LET j == [job EXCEPT !.todo = x] IN Carries(j, job) /\ j.pc = job.pc
         /\ LET j == Report(job, r) IN Carries(j, job) /\ j.pc = job.pc /\ j.src = job.src /\ r \in j.reports
         /\ LET j == Spawn(job, x) IN Carries(j, job) /\ j.pc = job.pc /\ j.src = job.src
BY DEF Jobs, Carries, Report, Spawn

LEMMA CarriesOn2 ==
  ASSUME NEW job \in Jobs, NEW pc, NEW x, NEW d
  PROVE  /\ LET j == [job EXCEPT !.pc = pc, !.todo = x] IN Carries(j, job) /\ j.pc = pc /\ j.src = job.src
         /\ LET j == [job EXCEPT !.pc = pc, !.src = x] IN Carries(j, job) /\ j.pc = pc
<1>1. \A y : y = job.reports => y \subseteq job.reports
  OBVIOUS
<1> QED BY <1>1, Zenon DEF Jobs, Carries

WithOutcome(job, x, d, pc) == [job EXCEPT !.outcome = x, !.extract_dir = d, !.pc = pc]

LEMMA CarriesOutcome ==
  ASSUME NEW job \in Jobs, NEW pc, NEW x, NEW d
  PROVE  LET j == WithOutcome(job, x, d, pc) IN Carries(j, job) /\ j.pc = pc /\ j.src = job.src
<1>1. \A y : y = job.reports => y \subseteq job.reports
  OBVIOUS
<1> QED BY <1>1, Zenon DEF Jobs, Carries, WithOutcome

LEMMA AdvanceEnds ==
  ASSUME NEW w, NEW job, NEW j \in Jobs, Carries(j, job), Advance(w, j)
  PROVE  \E k : Ends(w, k) /\ Carries(k, job) /\ (Whole(j) => Return(w, k))
<1>1. CASE ~ Whole(j) /\ j.todo < Len(Chunks(j.content))
  <2> DEFINE t == j.todo + 1
             k == [j EXCEPT !.pc = "carve", !.todo = t]
  <2>1. Continue(w, [j EXCEPT !.pc = "carve", !.todo = @ + 1])
    BY <1>1 DEF Advance
  <2>2. [j EXCEPT !.pc = "carve", !.todo = @ + 1] = [j EXCEPT !.pc = "carve", !.todo = t]
    BY Zenon
  <2> HIDE DEF t
  <2>3. LET x == [j EXCEPT !.pc = "carve", !.todo = t] IN Carries(x, j)
    BY CarriesOn2
  <2>4. Continue(w, k) /\ Carries(k, j)
    BY <2>1, <2>2, <2>3, Zenon
  <2> HIDE DEF k
  <2>5. Carries(k, job)
    BY <2>4 DEF Carries
  <2> QED BY <1>1, <2>4, <2>5 DEF Ends
<1>2. CASE ~ (~ Whole(j) /\ j.todo < Len(Chunks(j.content)))
  <2>1. Return(w, j)
    BY <1>2 DEF Advance
  <2> QED BY <2>1 DEF Ends
<1> QED BY <1>1, <1>2

\* What a step of a worker on a file does to its job.
FileStep(w, j) ==
  LET job == work[w] IN
  /\ Ends(w, j) /\ Carries(j, job)
  /\ Single(job) =>
       IF job.pc \in {"mkdir", "extract"}
       THEN Continue(w, j) /\ Single(j) /\ j.pc \in {"extract", "settle"}
       ELSE Return(w, j) \/ Single(j)

LEMMA CarveStep ==
  ASSUME IInv, NEW w \in Workers, CarveUnknownHere(w) \/ CarveChunkHere(w)
  PROVE  \E j : FileStep(w, j)
<1> DEFINE job == work[w]
<1>1. Busy(w) /\ job.pc \in FilePcs /\ ~ Single(job)
  BY DEF CarveUnknownHere, CarveChunkHere, Busy, FilePcs, Single
<1>2. job \in Jobs
  BY <1>1, OwnFile
<1>3. ASSUME NEW files, NEW next, CarveHere(w, job, files, next), Carries(next, job) PROVE \E j : FileStep(w, j)
  <2> DEFINE k == Report(job, "UnknownError")
  <2>1. Carries(k, job)
    BY <1>2, CarriesOn
  <2> HIDE DEF k
  <2>2. Return(w, k) \/ Continue(w, next)
    BY <1>3 DEF CarveHere, k
  <2> QED BY <1>1, <1>3, <2>1, <2>2 DEF FileStep, Ends
<1>4. CASE CarveUnknownHere(w)
  <2> DEFINE next == [job EXCEPT !.pc = "carve"]
  <2>1. CarveHere(w, job, UnknownPaths(job), next)
    BY <1>4 DEF CarveUnknownHere
  <2>2. Carries(next, job)
    BY <1>2, CarriesOn
  <2> HIDE DEF next
  <2> QED BY <1>3, <2>1, <2>2
<1>5. CASE CarveChunkHere(w)
  <2> DEFINE p == ChunkPath(job, job.todo)
             next == [job EXCEPT !.pc = "check", !.src = p]
  <2>1. CarveHere(w, job, {p}, next)
    BY <1>5 DEF CarveChunkHere
  <2> HIDE DEF p
  <2>2. Carries(next, job)
    BY <1>2, CarriesOn2, Zenon
  <2> HIDE DEF next
  <2> QED BY <1>3, <2>1, <2>2
<1> QED BY <1>4, <1>5

LEMMA CheckDirStep ==
  ASSUME IInv, NEW w \in Workers, CheckDirHere(w)
  PROVE  \E j : FileStep(w, j)
<1> DEFINE job == work[w]
<1>1. Busy(w) /\ job.pc = "check" /\ job.pc \in FilePcs
  BY DEF CheckDirHere, Busy, FilePcs
<1>2. job \in Jobs
  BY <1>1, OwnFile
<1>3. CASE Exists(Beside(job.src))
  <2> DEFINE j == Report(job, "OutputExists")
  <2>1. Advance(w, j)
    BY <1>3 DEF CheckDirHere
  <2>2. "OutputExists" \in Reports
    BY DEF Reports
  <2>3. j \in Jobs /\ Carries(j, job) /\ j.src = job.src
    BY <1>2, <2>2, JobReport, CarriesOn
  <2> HIDE DEF j
  <2>4. Whole(job) => Whole(j)
    BY <2>3 DEF Whole, Carries
  <2> QED BY <1>1, <2>1, <2>3, <2>4, AdvanceEnds DEF FileStep, Single
<1>4. CASE ~ Exists(Beside(job.src))
  <2> DEFINE r == TheChunk(job).result
             pc == IF r = "silent" THEN "settle" ELSE "mkdir"
             e == Beside(job.src)
             j == [job EXCEPT !.outcome = r, !.extract_dir = e, !.pc = pc]
  <2>1. Continue(w, j)
    BY <1>4 DEF CheckDirHere
  <2>2. pc \in {"settle", "mkdir"}
    OBVIOUS
  <2> HIDE DEF r, pc, e
  <2>3. Carries(j, job) /\ j.pc = pc /\ j.src = job.src
    <3>1. j = WithOutcome(job, r, e, pc)
      BY DEF WithOutcome
    <3> HIDE DEF j
    <3> QED BY <1>2, <3>1, CarriesOutcome
  <2> HIDE DEF j
  <2> QED BY <1>1, <2>1, <2>2, <2>3 DEF FileStep, Ends, Single, Whole, Carries
<1> QED BY <1>3, <1>4

LEMMA MakeDirStep ==
  ASSUME IInv, NEW w \in Workers, MakeDirHere(w) \/ ExtractHere(w)
  PROVE  \E j : FileStep(w, j)
<1> DEFINE job == work[w]
<1>1. Busy(w) /\ job.pc \in FilePcs
  BY DEF MakeDirHere, ExtractHere, Busy, FilePcs
<1>2. job \in Jobs
  BY <1>1, OwnFile
<1>3. ASSUME NEW j, Continue(w, j), Carries(j, job), j.src = job.src, j.pc \in {"extract", "settle"}
      PROVE  \E k : FileStep(w, k)
  BY <1>3 DEF FileStep, Ends, Single, Whole, Carries
<1>4. ASSUME NEW pc \in {"extract", "settle"}, Continue(w, [job EXCEPT !.pc = pc])
      PROVE  \E k : FileStep(w, k)
  <2> DEFINE j == [job EXCEPT !.pc = pc]
  <2>1. Continue(w, j) /\ Carries(j, job) /\ j.src = job.src /\ j.pc = pc
    BY <1>2, <1>4, CarriesOn
  <2> HIDE DEF j
  <2> QED BY <1>3, <1>4, <2>1
<1>5. ASSUME Continue(w, [job EXCEPT !.outcome = "error", !.pc = "settle"])
      PROVE  \E k : FileStep(w, k)
  <2> DEFINE j == [job EXCEPT !.outcome = "error", !.pc = "settle"]
  <2>1. Carries(j, job) /\ j.src = job.src /\ j.pc = "settle"
    <3> HIDE DEF job
    <3>1. \A y : y = job.reports => y \subseteq job.reports
      OBVIOUS
    <3> QED BY <1>2, <3>1, Zenon DEF Jobs, Carries
  <2>2. Continue(w, j)
    BY <1>5
  <2> HIDE DEF j
  <2> QED BY <1>3, <2>1, <2>2
<1>6. \/ Continue(w, [job EXCEPT !.pc = "extract"])
      \/ Continue(w, [job EXCEPT !.pc = "settle"])
      \/ Continue(w, [job EXCEPT !.outcome = "error", !.pc = "settle"])
  BY DEF MakeDirHere, ExtractHere
<1> QED BY <1>4, <1>5, <1>6

LEMMA DeleteStep ==
  ASSUME IInv, NEW w \in Workers, DeleteExtracted(w)
  PROVE  \E j : FileStep(w, j)
<1> DEFINE job == work[w]
<1>1. Busy(w) /\ job.pc = "delete" /\ job.pc \in FilePcs
  BY DEF DeleteExtracted, Busy, FilePcs
<1>2. job \in Jobs
  BY <1>1, OwnFile
<1> DEFINE j == Report(job, "Deleted")
<1>3. Carries(j, job) /\ Carries(job, job)
  BY <1>2, CarriesOn
<1> HIDE DEF j
<1>4. Return(w, j) \/ Return(w, job)
  BY DEF DeleteExtracted, j
<1> QED BY <1>1, <1>3, <1>4 DEF FileStep, Ends

\* A task among the subtasks of a job stays one, with a worker or with its result.
LEMMA SubTasked ==
  ASSUME TypeOK, NEW w \in Workers, NEW j \in Jobs, Ends(w, j), NEW i \in DOMAIN j.subtasks
  PROVE  \A p : p = j.subtasks[i].path => Tasked(p)'
<1>1. CASE Continue(w, j)
  <2>1. work'[w] = j /\ j # Idle
    BY <1>1, IdleAssumption DEF Continue, TypeOK
  <2>2. \A p : p = j.subtasks[i].path => At("sub", w, i, p)'
    BY <2>1 DEF At
  <2> QED BY <2>2 DEF Tasked
<1>2. CASE Return(w, j)
  <2>1. ResultOfJob(j) \in TaskResults /\ ResultOfJob(j).subtasks = j.subtasks
    BY JobResult DEF ResultOfJob
  <2>2. PICK n : n \in DOMAIN outbox' /\ outbox'[n] = ResultOfJob(j)
    BY <1>2, <2>1, ReturnFacts
  <2>3. \A p : p = j.subtasks[i].path => At("outsub", n, i, p)'
    BY <2>1, <2>2 DEF At
  <2> QED BY <2>3 DEF Tasked
<1> QED BY <1>1, <1>2 DEF Ends

LEMMA SettleStep ==
  ASSUME IInv, NEW w \in Workers, SettleHere(w)
  PROVE  /\ \E j : FileStep(w, j)
         /\ Single(work[w]) => \A p : p = CarveDir(work[w]) /\ p \in DOMAIN fs' => Tasked(p)'
<1> DEFINE job == work[w]  d == Beside(job.src)
           empty == Exists(d) /\ \A p \in DOMAIN fs : ~ Child(p, d)
           reported == IF job.outcome = "error" THEN Report(job, "ExtractError") ELSE job
           t == SubTask(d, job.task.depth + 1)
           s == Spawn(reported, <<t>>)
           j == IF Exists(d) /\ ~ empty THEN s ELSE reported
           R == (IF empty THEN {d} ELSE {})
                \cup (IF ~ Whole(job) /\ job.outcome = "ok" /\ ~ config.keep THEN {job.src} ELSE {})
<1>1. /\ Busy(w) /\ job.pc = "settle" /\ job.pc \in FilePcs /\ fs' = Without(fs, R)
      /\ IF ShouldDelete(job) THEN Continue(w, [j EXCEPT !.pc = "delete"]) ELSE Advance(w, j)
  BY DEF SettleHere, Busy, FilePcs
<1>2. TypeOK /\ job \in Jobs /\ job.src \in Paths /\ job.task.depth \in Nat
  BY <1>1, OwnFile DEF Jobs, Tasks
<1>3. d \in Paths /\ <<t>> \in Seq(Tasks) /\ t.path = d
  BY <1>2, BesideFacts, OneTask DEF SubTask
<1>4. reported \in Jobs /\ Carries(reported, job) /\ reported.src = job.src /\ reported.subtasks = job.subtasks
  <2>1. "ExtractError" \in Reports
    BY DEF Reports
  <2>2. Report(job, "ExtractError").subtasks = job.subtasks
    BY <1>2 DEF Report, Jobs
  <2> QED BY <1>2, <2>1, <2>2, JobReport, CarriesOn
<1> HIDE DEF reported
<1>5. s \in Jobs /\ Carries(s, reported) /\ s.src = reported.src /\ s.subtasks = reported.subtasks \o <<t>>
  <2>1. LET x == Spawn(reported, <<t>>) IN x \in Jobs /\ x.src = reported.src /\ x.subtasks = reported.subtasks \o <<t>>
    BY <1>3, <1>4, JobSpawn
  <2>2. LET x == Spawn(reported, <<t>>) IN Carries(x, reported)
    BY <1>4, CarriesOn
  <2> QED BY <2>1, <2>2, Zenon
<1> HIDE DEF s, t
<1>6. j \in Jobs /\ Carries(j, job) /\ j.src = job.src
  BY <1>4, <1>5 DEF Carries
<1>7. (Exists(d) /\ ~ empty) => j = s
  OBVIOUS
<1>8. empty => d \in R
  OBVIOUS
<1> HIDE DEF j, R
<1>9. Whole(job) => Whole(j)
  BY <1>6 DEF Whole, Carries
<1>10. Exists(d) /\ ~ empty => \E i \in DOMAIN j.subtasks : j.subtasks[i].path = d
  <2>1. job.subtasks \in Seq(Tasks)
    BY <1>2 DEF Jobs
  <2>2. Len(job.subtasks) + 1 \in DOMAIN (job.subtasks \o <<t>>) /\ (job.subtasks \o <<t>>)[Len(job.subtasks) + 1] = t
    BY <1>3, <2>1
  <2> QED BY <1>3, <1>4, <1>5, <1>7, <2>2, Zenon
<1>11. PICK k : /\ Ends(w, k) /\ Carries(k, job) /\ (Whole(job) => Return(w, k) \/ Single(k))
                /\ Whole(job) => k \in Jobs /\ k.subtasks = j.subtasks
  <2>1. CASE ShouldDelete(job)
    <3> DEFINE k == [j EXCEPT !.pc = "delete"]
    <3>1. Carries(k, j) /\ k.pc = "delete" /\ k.src = j.src /\ k.subtasks = j.subtasks /\ k \in Jobs
      <4>1. "delete" \in Pcs
        BY DEF Pcs
      <4> QED BY <1>6, <4>1, JobPc, CarriesOn DEF Kin
    <3>2. Continue(w, k)
      BY <1>1, <2>1
    <3> HIDE DEF k
    <3> QED BY <1>6, <3>1, <3>2 DEF Carries, Ends, Single, Whole
  <2>2. CASE ~ ShouldDelete(job)
    <3>1. Advance(w, j)
      BY <1>1, <2>2
    <3>2. CASE Whole(job)
      <4>1. Return(w, j)
        BY <1>9, <3>1, <3>2 DEF Advance
      <4> QED BY <1>6, <4>1 DEF Ends
    <3>3. CASE ~ Whole(job)
      BY <1>6, <3>1, <3>3, AdvanceEnds
    <3> QED BY <3>2, <3>3
  <2> QED BY <2>1, <2>2
<1>12. FileStep(w, k)
  BY <1>1, <1>11 DEF FileStep, Single
<1>13. ASSUME Single(job), NEW p, p = CarveDir(job), p \in DOMAIN fs' PROVE Tasked(p)'
  <2>1. Whole(job) /\ p = d
    BY <1>13 DEF Single, Whole, CarveDir
  <2>2. p \in DOMAIN fs /\ p \notin R
    BY <1>1, <1>13 DEF Without
  <2>3. Exists(d) /\ ~ empty
    BY <1>8, <2>1, <2>2 DEF Exists
  <2>4. PICK i \in DOMAIN j.subtasks : j.subtasks[i].path = d
    BY <1>10, <2>3
  <2>5. i \in DOMAIN k.subtasks /\ p = k.subtasks[i].path /\ k \in Jobs
    BY <1>11, <2>1, <2>4
  <2> HIDE DEF d
  <2> QED BY <1>2, <1>11, <2>5, SubTasked
<1> QED BY <1>12, <1>13

\* A worker returns from a directory with a report, or with a task for everything in it.
LEMMA DirSteps ==
  ASSUME IInv, PartsApart, NEW w \in Workers, DirHandlerHere(w) \/ ExtractMultiHere(w) \/ Iterate(w)
  PROVE  \/ outbox' = outbox
         \/ \E j : /\ ResultOfJob(j) \in TaskResults /\ Return(w, j) /\ j.task = work[w].task
                   /\ j.reports # {} \/ \A p \in DOMAIN fs' : Child(p, Path(w)) => Tasked(p)'
<1> DEFINE job == work[w]
<1>1. Busy(w) /\ job.pc \in {"dir_handler", "multi"}
  BY DEF DirHandlerHere, ExtractMultiHere, Iterate, Busy
<1>2. TypeOK /\ job \in Jobs
  BY <1>1, OwnDir
<1>3. CASE Iterate(w)
  <2>1. fs' = fs /\ StepOK(w) /\ \A p \in DOMAIN fs : Child(p, Path(w)) => Tasked(p)'
    BY <1>3, IterateOK DEF Iterate
  <2>2. \/ \E j \in Jobs : Continue(w, j)
        \/ \E j : Return(w, j) /\ ResultOfJob(j) \in TaskResults /\ j.task = work[w].task
    BY <2>1 DEF StepOK, Goes, Returns
  <2> QED BY <2>1, <2>2 DEF Continue
<1>4. CASE DirHandlerHere(w) \/ ExtractMultiHere(w)
  <2>1. ASSUME NEW r \in {"MultiFileCollision", "MultiOutputExists"}, Return(w, Report(job, r))
        PROVE  \E j : ResultOfJob(j) \in TaskResults /\ Return(w, j) /\ j.task = job.task /\ j.reports # {}
    <3> DEFINE j == Report(job, r)
    <3>1. r \in Reports
      BY DEF Reports
    <3>2. Return(w, j) /\ j \in Jobs /\ Carries(j, job) /\ r \in j.reports
      BY <1>2, <2>1, <3>1, JobReport, CarriesOn
    <3> HIDE DEF j
    <3> QED BY <3>2, JobResult DEF Carries
  <2>2. ASSUME NEW j, Continue(w, j) PROVE outbox' = outbox
    BY <2>2 DEF Continue
  <2>3. \/ \E r \in {"MultiFileCollision", "MultiOutputExists"} : Return(w, Report(job, r))
        \/ \E j : Continue(w, j)
    BY <1>4 DEF DirHandlerHere, ExtractMultiHere
  <2> QED BY <2>1, <2>2, <2>3
<1> QED BY <1>3, <1>4

\* A worker on a file stays one.
LEMMA FileStays ==
  ASSUME IInv, IInv', NEW w \in Workers, StepOK(w), work[w].pc \in FilePcs, Busy(w)'
  PROVE  work'[w].pc \in FilePcs
<1>1. PICK new : Effect(w, new) /\ (Goes(w, new) \/ Returns(w, new))
  BY DEF StepOK
<1>2. Busy(w) /\ (Goes(w, new) => work'[w].task = work[w].task) /\ (~ Goes(w, new) => work'[w] = Idle)
  BY <1>1, StepMoves DEF StepOK
<1>3. Goes(w, new) /\ Path(w)' = Path(w)
  BY <1>2 DEF Busy, Path
<1>4. Path(w) \in DOMAIN fs /\ fs[Path(w)] \in Files
  BY <1>2 DEF IInv, LocalInv, Local, FileLocal
<1>5. Path(w) \in DOMAIN fs' /\ fs'[Path(w)] = fs[Path(w)]
  BY <1>1, <1>3, <1>4 DEF Goes, Effect
<1>6. Local(w)'
  BY DEF IInv, LocalInv
<1>7. work'[w].pc \notin FilePcs => fs'[Path(w)'] = "dir"
  BY <1>6 DEF Local, DirLocal
<1> QED BY <1>3, <1>4, <1>5, <1>7, ProcessingAssumption

LEMMA FinishedDone ==
  ASSUME TypeOK, NEW r, Finished(r)
  PROVE  r \in TaskResults /\ r.task.path \in Paths /\ Done(r.task.path)
<1>1. outbox \in Seq(TaskResults) /\ results \in Seq(TaskResults)
  BY DEF TypeOK
<1>2. r \in TaskResults
  BY <1>1 DEF Finished
<1>3. r.task.path \in Paths
  BY <1>2 DEF TaskResults, Tasks
<1>4. (\E i : At("out", i, 0, r.task.path)) \/ (\E i : At("res", i, 0, r.task.path))
  BY DEF Finished, At
<1> QED BY <1>2, <1>3, <1>4 DEF Done

\* Of the entries of a directory that is done, a worker touches just its own two.
LEMMA ChildOfDone ==
  ASSUME IInv, NEW w \in Workers, Busy(w), NEW d \in Paths, Done(d), NEW p, Child(p, d), InRegion(w, p)
  PROVE  p = Path(w) \/ (Engaged(work[w]) /\ p = CarveDir(work[w]))
<1>1. TypeOK /\ Unique /\ RegionInv
  BY DEF IInv
<1>2. p \in Paths /\ Path(w) \in Paths /\ Tasked(d)
  BY <1>1, TaskedTypes DEF InRegion
<1>3. ~ InRegion(w, d)
  <2> SUFFICES ASSUME InRegion(w, d) PROVE FALSE
    OBVIOUS
  <2>1. d = Path(w) \/ Sub(w, d)
    BY <1>1, <1>2 DEF RegionInv
  <2>2. PICK k, x, i : k \in {"out", "res"} /\ At(k, x, i, d)
    BY DEF Done
  <2>3. d = Path(w) => At("work", w, 0, d)
    BY DEF At, Path, Busy
  <2>4. \E l, y, j : l \in {"work", "sub"} /\ At(l, y, j, d)
    BY <2>1, <2>3 DEF Sub
  <2> QED BY <1>1, <2>2, <2>4 DEF Unique
<1>4. \A x \in Paths : Under(p, x) => p = x \/ Under(d, x)
  BY <1>2, ChildFacts
<1>5. CASE Under(p, Path(w))
  BY <1>2, <1>3, <1>4, <1>5 DEF InRegion
<1>6. CASE Engaged(work[w]) /\ Under(p, CarveDir(work[w]))
  <2>1. CarveDir(work[w]) \in Paths
    BY <1>2, BesideFacts DEF CarveDir, Path
  <2> QED BY <1>3, <1>4, <1>6, <2>1 DEF InRegion
<1> QED BY <1>5, <1>6 DEF InRegion

LEMMA StepFinished ==
  ASSUME TypeOK, NEW w \in Workers, results' = results
  PROVE  /\ outbox' = outbox => \A r : Finished(r)' <=> Finished(r)
         /\ \A j : Return(w, j) /\ ResultOfJob(j) \in TaskResults =>
              \A r : Finished(r)' <=> Finished(r) \/ r = ResultOfJob(j)
<1>1. outbox' = outbox => \A r : Finished(r)' <=> Finished(r)
  BY DEF Finished
<1>2. ASSUME NEW j, Return(w, j), ResultOfJob(j) \in TaskResults, NEW r
      PROVE  Finished(r)' <=> Finished(r) \/ r = ResultOfJob(j)
  <2>1. PICK n : /\ n \notin DOMAIN outbox
                 /\ DOMAIN outbox' = DOMAIN outbox \cup {n}
                 /\ outbox'[n] = ResultOfJob(j)
                 /\ \A i \in DOMAIN outbox : outbox'[i] = outbox[i]
    BY <1>2, ReturnFacts
  <2> QED BY <2>1 DEF Finished
<1> QED BY <1>1, <1>2

LEMMA LastAppended ==
  ASSUME NEW S, NEW s \in Seq(S), NEW x, Append(s, x) \in Seq(S)
  PROVE  x \in S
<1> DEFINE T == S \cup {x}
<1>1. s \in Seq(T) /\ x \in T
  OBVIOUS
<1>2. Len(s) + 1 \in DOMAIN Append(s, x) /\ Append(s, x)[Len(s) + 1] = x
  BY <1>1
<1> QED BY <1>2

\* Whatever ends a step, it is a job that goes on or the result of one.
LEMMA StepEnds ==
  ASSUME IInv, IInv', NEW w \in Workers, Busy(w), StepOK(w), NEW j, Ends(w, j)
  PROVE  /\ Return(w, j) => work'[w] = Idle /\ ResultOfJob(j) \in TaskResults
         /\ Continue(w, j) => work'[w] = j /\ Busy(w)' /\ outbox' = outbox
<1>1. /\ TypeOK /\ work \in [Workers -> Jobs \cup {Idle}] /\ outbox \in Seq(TaskResults)
      /\ outbox' \in Seq(TaskResults)
  BY DEF IInv, TypeOK
<1>2. ASSUME Return(w, j) PROVE work'[w] = Idle /\ ResultOfJob(j) \in TaskResults
  <2>1. outbox' = Append(outbox, ResultOfJob(j)) /\ work'[w] = Idle
    BY <1>1, <1>2 DEF Return, ResultOfJob
  <2> QED BY <1>1, <2>1, LastAppended
<1>3. ASSUME Continue(w, j) PROVE work'[w] = j /\ Busy(w)' /\ outbox' = outbox
  <2>1. work'[w] = j /\ outbox' = outbox
    BY <1>1, <1>3 DEF Continue
  <2>2. PICK new : Effect(w, new) /\ (Goes(w, new) \/ Returns(w, new))
    BY DEF StepOK
  <2>3. ~ Returns(w, new)
    <3> SUFFICES ASSUME Returns(w, new) PROVE FALSE
      OBVIOUS
    <3>1. PICK k : Return(w, k) /\ ResultOfJob(k) \in TaskResults
      BY DEF Returns
    <3>2. PICK n : n \notin DOMAIN outbox /\ DOMAIN outbox' = DOMAIN outbox \cup {n}
      BY <1>1, <3>1, ReturnFacts
    <3> QED BY <2>1, <3>2
  <2>4. work'[w] \in Jobs
    BY <2>2, <2>3, StepMoves DEF StepOK
  <2> QED BY <2>1, <2>4, IdleAssumption DEF Busy
<1> QED BY <1>2, <1>3

\* A step of a worker on a file: its result is not one of a directory, and what it carves
\* into or extracts to is known.
LEMMA FileVisits ==
  ASSUME IInv, IInv', ReportInv, NEW w \in Workers, Busy(w), StepOK(w), work[w].pc \in FilePcs,
         NEW j, FileStep(w, j)
  PROVE  /\ Return(w, j) => j.content \in Files
         /\ "CarveDirectory" \in work[w].reports => \A p : p = CarveDir(work[w]) => Carving(p)'
         /\ Busy(w)' => Single(work'[w]) \/ "CarveDirectory" \in work'[w].reports
         /\ Single(work[w]) /\ work[w].pc \in {"mkdir", "extract"} =>
              \A p : p = CarveDir(work[w]) => Carving(p)'
<1> DEFINE job == work[w]
<1>1. /\ TypeOK /\ job \in Jobs /\ job.content \in Files /\ Carries(j, job) /\ Ends(w, j)
      /\ work \in [Workers -> Jobs \cup {Idle}] /\ results' = results
  BY OwnFile DEF FileLocal, FileStep, TypeOK, StepOK
<1>2. \A p : p = CarveDir(job) => p = Beside(j.task.path) /\ p = CarveDir(j)
  BY <1>1 DEF CarveDir, Carries
<1>3. /\ Return(w, j) => work'[w] = Idle /\ ResultOfJob(j) \in TaskResults
      /\ Continue(w, j) => work'[w] = j /\ Busy(w)'
  BY <1>1, StepEnds
<1>4. Continue(w, j) => j.pc \in FilePcs
  BY <1>3, FileStays
<1>5. ASSUME "CarveDirectory" \in j.reports, NEW p, p = CarveDir(job) PROVE Carving(p)'
  <2>1. CASE Return(w, j)
    <3>1. Finished(ResultOfJob(j))'
      BY <1>1, <1>3, <2>1, StepFinished
    <3>2. ResultOfJob(j).reports = j.reports /\ ResultOfJob(j).task = j.task
      BY DEF ResultOfJob
    <3> HIDE DEF ResultOfJob
    <3> QED BY <1>2, <1>5, <3>1, <3>2 DEF Carving
  <2>2. CASE Continue(w, j)
    <3>1. Busy(w)' /\ Carves(work'[w]) /\ p = CarveDir(work'[w])
      BY <1>2, <1>3, <1>4, <1>5, <2>2 DEF Carves
    <3> QED BY <3>1 DEF Carving
  <2> QED BY <1>1, <2>1, <2>2 DEF Ends
<1>6. ASSUME Single(job), job.pc \in {"mkdir", "extract"}, NEW p, p = CarveDir(job) PROVE Carving(p)'
  <2>1. Continue(w, j) /\ Single(j) /\ j.pc \in {"extract", "settle"}
    BY <1>6 DEF FileStep
  <2>2. Busy(w)' /\ Carves(work'[w]) /\ p = CarveDir(work'[w])
    BY <1>2, <1>3, <1>4, <1>6, <2>1 DEF Carves
  <2> QED BY <2>2 DEF Carving
<1>7. "CarveDirectory" \in job.reports => "CarveDirectory" \in j.reports
  BY <1>1 DEF Carries
<1>8. ASSUME Busy(w)' PROVE Single(work'[w]) \/ "CarveDirectory" \in work'[w].reports
  <2>1. Continue(w, j) /\ work'[w] = j /\ ~ Return(w, j)
    BY <1>1, <1>3, <1>8 DEF Ends, Busy
  <2>2. Single(job) => Single(j)
    BY <2>1 DEF FileStep
  <2> QED BY <1>7, <2>1, <2>2 DEF ReportInv
<1>9. Return(w, j) => j.content \in Files
  BY <1>1 DEF Carries
<1> QED BY <1>5, <1>6, <1>7, <1>8, <1>9

\* What becomes of the directory beside a file that a worker is at.
LEMMA BesideVisited ==
  ASSUME IInv, IInv', ReportInv, NEW w \in Workers, WorkHere(w), ~ TakeTaskHere(w), StepOK(w), work[w].pc \in FilePcs
  PROVE  /\ \E j : FileStep(w, j)
         /\ \A p : /\ p = CarveDir(work[w]) /\ p \in DOMAIN fs'
                   /\ Carves(work[w]) \/ p \notin DOMAIN fs
                   => Tasked(p)' \/ Carving(p)'
<1> DEFINE job == work[w]
<1>1. Busy(w) /\ ~ DirHandlerHere(w) /\ ~ ExtractMultiHere(w) /\ ~ Iterate(w)
  BY DEF StepOK, DirHandlerHere, ExtractMultiHere, Iterate, FilePcs
<1>2. \/ CarveUnknownHere(w) \/ CarveChunkHere(w) \/ CheckDirHere(w) \/ MakeDirHere(w) \/ ExtractHere(w)
      \/ SettleHere(w) \/ DeleteExtracted(w)
  BY <1>1 DEF WorkHere
<1>3. PICK j : FileStep(w, j)
  BY <1>2, CarveStep, CheckDirStep, MakeDirStep, SettleStep, DeleteStep
<1>4. /\ "CarveDirectory" \in job.reports => \A p : p = CarveDir(job) => Carving(p)'
      /\ Single(job) /\ job.pc \in {"mkdir", "extract"} => \A p : p = CarveDir(job) => Carving(p)'
  BY <1>1, <1>3, FileVisits
<1>5. ASSUME NEW p, p = CarveDir(job), p \in DOMAIN fs', Carves(job) \/ p \notin DOMAIN fs,
             "CarveDirectory" \notin job.reports
      PROVE  Tasked(p)' \/ Carving(p)'
  <2>1. Single(job)
    BY <1>1, <1>5 DEF ReportInv
  <2>2. ~ CarveUnknownHere(w) /\ ~ CarveChunkHere(w)
    BY <2>1 DEF CarveUnknownHere, CarveChunkHere, Single
  <2>3. CASE MakeDirHere(w) \/ ExtractHere(w)
    <3>1. job.pc \in {"mkdir", "extract"}
      BY <2>3 DEF MakeDirHere, ExtractHere
    <3> QED BY <1>4, <1>5, <2>1, <3>1
  <2>4. CASE SettleHere(w)
    BY <1>5, <2>1, <2>4, SettleStep
  <2>5. CASE CheckDirHere(w) \/ DeleteExtracted(w)
    <3>1. job.pc \notin {"extract", "settle"} /\ DOMAIN fs' \subseteq DOMAIN fs
      BY <2>5 DEF CheckDirHere, DeleteExtracted, Without
    <3> QED BY <1>5, <3>1 DEF Carves
  <2> QED BY <1>2, <2>2, <2>3, <2>4, <2>5
<1> QED BY <1>3, <1>4, <1>5

\* What a worker that stays out of a directory leaves of it.
LEMMA StepVisited ==
  ASSUME NamesApart, IInv, IInv', VisitedInv, NEW w \in Workers, WorkHere(w), ~ TakeTaskHere(w), StepOK(w)
  PROVE  VisitedInv'
<1>1. PICK new : Effect(w, new) /\ (Goes(w, new) \/ Returns(w, new))
  BY DEF StepOK
<1>2. /\ TypeOK /\ Busy(w) /\ UNCHANGED <<queue, results, host>> /\ results' = results /\ config' = config
  BY DEF IInv, StepOK, host
<1>3. Moved(new) /\ \A v \in Workers : v # w => work'[v] = work[v]
  BY <1>1, <1>2, StepMoves
<1>4. /\ work[w].pc \in FilePcs =>
           \E j : FileStep(w, j) /\ Ends(w, j) /\ (Return(w, j) => j.content \in Files)
      /\ Busy(w)' /\ work[w].pc \in FilePcs => Single(work'[w]) \/ "CarveDirectory" \in work'[w].reports
  BY <1>2, BesideVisited, FileVisits DEF VisitedInv, FileStep
<1>5. work[w].pc \notin FilePcs =>
        \/ outbox' = outbox
        \/ \E j : /\ ResultOfJob(j) \in TaskResults /\ Return(w, j) /\ j.task = work[w].task
                  /\ j.reports # {} \/ \A p \in DOMAIN fs' : Child(p, Path(w)) => Tasked(p)'
  <2>1. work[w].pc \notin FilePcs => DirHandlerHere(w) \/ ExtractMultiHere(w) \/ Iterate(w)
    BY DEF WorkHere, CarveUnknownHere, CarveChunkHere, CheckDirHere, MakeDirHere, ExtractHere, SettleHere, DeleteExtracted, FilePcs
  <2> QED BY <2>1, DirSteps DEF NamesApart
<1>6. ReportInv'
  <2>1. ASSUME NEW v \in Workers, Busy(v)', work'[v].pc \in FilePcs
        PROVE  Single(work'[v]) \/ "CarveDirectory" \in work'[v].reports
    <3>1. CASE v # w
      BY <1>3, <2>1, <3>1 DEF VisitedInv, ReportInv, Busy
    <3>2. CASE v = w
      <4>1. work[w].pc \in FilePcs
        BY <2>1, <3>2, DirStays
      <4> QED BY <1>4, <2>1, <3>2, <4>1
    <3> QED BY <3>1, <3>2
  <2> QED BY <2>1 DEF ReportInv
<1>7. \A r : Finished(r) => Finished(r)'
  BY <1>2, <1>4, <1>5, StepEnds, StepFinished DEF Ends
<1>8. ASSUME NEW r, Finished(r)', ~ Finished(r), Listed(r)
      PROVE  \A p \in DOMAIN fs' : Child(p, r.task.path) => Tasked(p)'
  <2>1. CASE work[w].pc \in FilePcs
    <3>1. PICK j : FileStep(w, j) /\ Ends(w, j) /\ (Return(w, j) => j.content \in Files)
      BY <1>4, <2>1
    <3>2. r = ResultOfJob(j) /\ j.content \in Files
      BY <1>2, <1>8, <3>1, StepEnds, StepFinished DEF Ends
    <3>3. r.content \in Files
      BY <3>2 DEF ResultOfJob
    <3> QED BY <1>8, <3>3, ProcessingAssumption DEF Listed
  <2>2. CASE work[w].pc \notin FilePcs
    <3>1. PICK j : /\ ResultOfJob(j) \in TaskResults /\ Return(w, j) /\ j.task = work[w].task
                   /\ j.reports # {} \/ \A p \in DOMAIN fs' : Child(p, Path(w)) => Tasked(p)'
      BY <1>2, <1>5, <1>8, <2>2, StepFinished
    <3>2. r = ResultOfJob(j)
      BY <1>2, <1>8, <3>1, StepFinished
    <3>3. r.reports = j.reports /\ r.task.path = Path(w)
      BY <3>1, <3>2 DEF ResultOfJob, Path
    <3> QED BY <1>8, <3>1, <3>3 DEF Listed
  <2> QED BY <2>1, <2>2
<1>9. ASSUME NEW p, Carving(p), p \in DOMAIN fs' PROVE Tasked(p)' \/ Carving(p)'
  <2>1. CASE \E r : Finished(r) /\ "CarveDirectory" \in r.reports /\ p = Beside(r.task.path)
    BY <1>7, <2>1 DEF Carving
  <2>2. ASSUME NEW v \in Workers, Busy(v), Carves(work[v]), p = CarveDir(work[v])
        PROVE  Tasked(p)' \/ Carving(p)'
    <3>1. CASE v # w
      <4>1. work'[v] = work[v]
        BY <1>3, <3>1
      <4>2. Busy(v)' /\ Carves(work'[v]) /\ p = CarveDir(work'[v])
        BY <2>2, <4>1 DEF Busy
      <4> QED BY <4>2 DEF Carving
    <3>2. CASE v = w
      BY <1>9, <2>2, <3>2, BesideVisited DEF VisitedInv, Carves
    <3> QED BY <3>1, <3>2
  <2> QED BY <1>9, <2>1, <2>2 DEF Carving
<1>10. ASSUME NEW r, Finished(r), Listed(r), NEW p \in DOMAIN fs', Child(p, r.task.path)
       PROVE  Tasked(p)' \/ Carving(p)'
  <2>1. CASE p \in DOMAIN fs
    <3>1. Tasked(p) \/ Carving(p)
      BY <1>10, <2>1 DEF VisitedInv
    <3> QED BY <1>3, <1>9, <1>10, <3>1 DEF Moved
  <2>2. CASE p \notin DOMAIN fs
    <3>1. InRegion(w, p)
      BY <1>1, <1>10, <2>2 DEF Effect, Same
    <3>2. r.task.path \in Paths /\ Done(r.task.path)
      BY <1>2, <1>10, FinishedDone
    <3>3. p = Path(w) \/ (Engaged(work[w]) /\ p = CarveDir(work[w]))
      BY <1>2, <1>10, <3>1, <3>2, ChildOfDone
    <3>4. CASE p = Path(w)
      BY <1>2, <1>3, <3>4, TaskedTypes DEF Moved
    <3>5. CASE Engaged(work[w]) /\ p = CarveDir(work[w])
      <4>1. work[w].pc \in FilePcs
        BY <3>5 DEF Engaged, FilePcs
      <4> QED BY <1>10, <2>2, <3>5, <4>1, BesideVisited DEF VisitedInv
    <3> QED BY <3>3, <3>4, <3>5
  <2> QED BY <2>1, <2>2
<1>11. \A r : Listed(r)' <=> Listed(r)
  BY <1>2 DEF Listed
<1> QED BY <1>6, <1>8, <1>10, <1>11 DEF VisitedInv

\* A task that is not worked on leaves no directory without tasks.
LEMMA TakeTells ==
  ASSUME IInv, NEW w \in Workers, TakeTaskHere(w)
  PROVE  /\ \A r : Finished(r) => Finished(r)'
         /\ \A r : Finished(r)' /\ Listed(r) => Finished(r)
         /\ Busy(w)' /\ work'[w].pc = "unknown" => "CarveDirectory" \in work'[w].reports
<1> DEFINE t == Head(queue)
           c == fs[t.path]
           a == Job(t, c, "none")
           b == Report(Report(a, "CarveDirectory"), "OutputExists")
<1>1. phase = "run" /\ work[w] = Idle /\ queue # <<>> /\ results' = results /\ TypeOK
  BY DEF TakeTaskHere, IInv
<1>2. t \in Tasks /\ t.path \in DOMAIN fs /\ c \in Nodes
  BY <1>1, FirstTask
<1>3. /\ work \in [Workers -> Jobs \cup {Idle}] /\ "dir" \notin Files /\ "dir" \notin DOMAIN Links
  BY <1>1, ProcessingAssumption DEF TypeOK
<1>4. \/ Ignored(t) /\ Return(w, a)
      \/ Continue(w, Job(t, c, "dir_handler"))
      \/ Continue(w, Job(t, c, "check"))
      \/ Return(w, b)
      \/ Continue(w, Report(Starting(t, c), "CarveDirectory"))
  BY <1>2 DEF TakeTaskHere, Exists, Starting
<1>5. /\ a.task = t /\ a.content = c /\ a.subtasks = <<>> /\ a.reports = {}
      /\ b.task = t /\ b.content = c /\ b.subtasks = <<>> /\ b.reports = {"CarveDirectory", "OutputExists"}
  BY DEF Job, Report
<1>6. ResultOfJob(a) \in TaskResults /\ ResultOfJob(b) \in TaskResults
  <2>1. <<>> \in Seq(Tasks) /\ {} \subseteq Reports /\ {"CarveDirectory", "OutputExists"} \subseteq Reports
    BY DEF Reports
  <2> HIDE DEF a, b, t, c
  <2> QED BY <1>2, <1>5, <2>1 DEF ResultOfJob, TaskResults
<1>7. Ignored(t) => ~ Listed(ResultOfJob(a))
  <2>1. t.depth \in Nat /\ config.max_depth \in Nat
    BY <1>1, <1>2, ProcessingAssumption DEF Tasks, TypeOK, ConfigOK
  <2>2. ResultOfJob(a).task = t /\ ResultOfJob(a).content = c
    BY <1>5 DEF ResultOfJob
  <2> HIDE DEF a, t
  <2> QED BY <1>3, <2>1, <2>2 DEF Ignored, IsLink, Listed
<1>8. ~ Listed(ResultOfJob(b))
  BY <1>5 DEF Listed, ResultOfJob
<1>9. /\ Job(t, c, "dir_handler").pc = "dir_handler" /\ Job(t, c, "check").pc = "check"
      /\ "CarveDirectory" \in Report(Starting(t, c), "CarveDirectory").reports
  BY DEF Job, Starting, Report
<1> DEFINE j1 == Job(t, c, "dir_handler")  j2 == Job(t, c, "check")
           j3 == Report(Starting(t, c), "CarveDirectory")
<1>10. j1.pc = "dir_handler" /\ j2.pc = "check" /\ "CarveDirectory" \in j3.reports
  BY <1>9
<1> HIDE DEF a, b, t, c, j1, j2, j3
<1>11. \/ Ignored(t) /\ Return(w, a)
       \/ Return(w, b)
       \/ Continue(w, j1) \/ Continue(w, j2) \/ Continue(w, j3)
  BY <1>4 DEF j1, j2, j3
<1>12. CASE Ignored(t) /\ Return(w, a)
  <2>1. \A r : Finished(r)' <=> Finished(r) \/ r = ResultOfJob(a)
    BY <1>1, <1>6, <1>12, StepFinished
  <2>2. ~ Busy(w)'
    BY <1>3, <1>12 DEF Busy, Return
  <2> QED BY <1>7, <1>12, <2>1, <2>2
<1>13. CASE Return(w, b)
  <2>1. \A r : Finished(r)' <=> Finished(r) \/ r = ResultOfJob(b)
    BY <1>1, <1>6, <1>13, StepFinished
  <2>2. ~ Busy(w)'
    BY <1>3, <1>13 DEF Busy, Return
  <2> QED BY <1>8, <2>1, <2>2
<1>14. ASSUME NEW j \in {j1, j2, j3}, Continue(w, j)
       PROVE  /\ \A r : Finished(r)' <=> Finished(r)
              /\ work'[w].pc = "unknown" => "CarveDirectory" \in work'[w].reports
  <2>1. work'[w] = j /\ outbox' = outbox
    BY <1>3, <1>14 DEF Continue
  <2>2. \A r : Finished(r)' <=> Finished(r)
    BY <1>1, <2>1, StepFinished
  <2> QED BY <1>10, <2>1, <2>2
<1> QED BY <1>11, <1>12, <1>13, <1>14

LEMMA TakeVisited ==
  ASSUME Inv, VisitedInv, NEW w \in Workers, TakeTaskHere(w)
  PROVE  VisitedInv'
<1>1. IInv /\ RootInv /\ Taken(w) /\ fs' = fs /\ config' = config /\ work[w] = Idle
  BY TakeTaskInv DEF Inv, TakeTaskHere, host
<1>2. /\ \A r : Finished(r) => Finished(r)'
      /\ \A r : Finished(r)' /\ Listed(r) => Finished(r)
      /\ Busy(w)' /\ work'[w].pc = "unknown" => "CarveDirectory" \in work'[w].reports
  BY <1>1, TakeTells
<1>3. /\ \A p : Tasked(p) => Tasked(p)'
      /\ \A v \in Workers : v # w => work'[v] = work[v]
      /\ Busy(w)' => work'[w].pc \in {"check", "unknown", "dir_handler"} /\ (work'[w].pc = "check" => Whole(work'[w]))
  BY <1>1 DEF Taken
<1>4. ReportInv'
  <2>1. ASSUME NEW v \in Workers, Busy(v)', work'[v].pc \in FilePcs
        PROVE  Single(work'[v]) \/ "CarveDirectory" \in work'[v].reports
    <3>1. CASE v # w
      BY <1>3, <2>1, <3>1 DEF VisitedInv, ReportInv, Busy
    <3>2. CASE v = w
      BY <1>2, <1>3, <2>1, <3>2 DEF Single, FilePcs
    <3> QED BY <3>1, <3>2
  <2> QED BY <2>1 DEF ReportInv
<1>5. ASSUME NEW p, Carving(p) PROVE Carving(p)'
  <2>1. CASE \E r : Finished(r) /\ "CarveDirectory" \in r.reports /\ p = Beside(r.task.path)
    BY <1>2, <2>1 DEF Carving
  <2>2. ASSUME NEW v \in Workers, Busy(v), Carves(work[v]), p = CarveDir(work[v]) PROVE Carving(p)'
    <3>1. work'[v] = work[v]
      BY <1>1, <1>3, <2>2 DEF Busy
    <3>2. Busy(v)' /\ Carves(work'[v]) /\ p = CarveDir(work'[v])
      BY <2>2, <3>1 DEF Busy
    <3> QED BY <3>2 DEF Carving
  <2> QED BY <1>5, <2>1, <2>2 DEF Carving
<1>6. \A r : Listed(r)' <=> Listed(r)
  BY <1>1 DEF Listed
<1> QED BY <1>1, <1>2, <1>3, <1>4, <1>5, <1>6 DEF VisitedInv

\* Steps that leave workers and files alone and keep the results that there are.
LEMMA KeptVisited ==
  ASSUME VisitedInv, fs' = fs, config' = config, work' = work,
         \A r : Finished(r)' <=> Finished(r), \A p : Tasked(p) => Tasked(p)'
  PROVE  VisitedInv'
<1>1. \A p : Carving(p) => Carving(p)'
  BY DEF Carving, Busy
<1>2. ReportInv'
  BY DEF VisitedInv, ReportInv, Busy
<1>3. \A r : Listed(r)' <=> Listed(r)
  BY DEF Listed
<1> QED BY <1>1, <1>2, <1>3 DEF VisitedInv

\* A result that is registered stays a result.
LEMMA RegisterFinished ==
  ASSUME Inv, Register
  PROVE  \A r : Finished(r)' <=> Finished(r)
<1>1. /\ outbox # <<>> /\ results' = Append(results, Head(outbox)) /\ outbox' = Tail(outbox)
      /\ outbox \in Seq(TaskResults) /\ results \in Seq(TaskResults)
  BY DEF Inv, IInv, Register, TypeOK
<1> DEFINE h == Head(outbox)
<1>2. /\ h \in TaskResults /\ 1 \in DOMAIN outbox /\ h = outbox[1]
      /\ \A i \in DOMAIN outbox' : i + 1 \in DOMAIN outbox /\ outbox'[i] = outbox[i + 1]
      /\ \A i \in DOMAIN outbox : i = 1 \/ \E k \in DOMAIN outbox' : i = k + 1
  BY <1>1, TailCases
<1> HIDE DEF h
<1>3. /\ DOMAIN results' = DOMAIN results \cup {Len(results) + 1}
      /\ results'[Len(results) + 1] = h
      /\ \A i \in DOMAIN results : results'[i] = results[i]
  <2>1. results' = Append(results, h)
    BY <1>1 DEF h
  <2> QED BY <1>1, <1>2, <2>1, AppendCases
<1>4. ASSUME NEW r, Finished(r)' PROVE Finished(r)
  BY <1>2, <1>3, <1>4 DEF Finished
<1>5. ASSUME NEW r, Finished(r) PROVE Finished(r)'
  BY <1>2, <1>3, <1>5 DEF Finished
<1> QED BY <1>4, <1>5

LEMMA RegisterVisited ==
  ASSUME Inv, VisitedInv, Register
  PROVE  VisitedInv'
<1>1. /\ TypeOK /\ Unique /\ fs' = fs /\ config' = config /\ work' = work
  BY DEF Inv, IInv, Register, host
<1>2. \A p : Tasked(p) => Tasked(p)'
  BY <1>1, RegisterMoves DEF Moved
<1>3. \A r : Finished(r)' <=> Finished(r)
  BY RegisterFinished
<1> QED BY <1>1, <1>2, <1>3, KeptVisited

LEMMA NextVisited ==
  ASSUME NamesApart, Inv, Inv', VisitedInv, [NextHere]_vars
  PROVE  VisitedInv'
<1>1. IInv /\ IInv'
  BY DEF Inv
<1>2. ASSUME NEW w \in Workers, WorkHere(w) PROVE VisitedInv'
  <2>1. CASE TakeTaskHere(w)
    BY <2>1, TakeVisited
  <2>2. CASE ~ TakeTaskHere(w)
    <3>1. StepOK(w)
      BY <1>1, <1>2, <2>2, WorkOK
    <3> QED BY <1>1, <1>2, <2>2, <3>1, StepVisited
  <2> QED BY <2>1, <2>2
<1>3. CASE outbox' = <<>> /\ results' = <<>> /\ \A w \in Workers : work'[w] = Idle
  <2>1. \A r : ~ Finished(r)'
    BY <1>3 DEF Finished
  <2>2. ReportInv'
    BY <1>3 DEF ReportInv, Busy
  <2> QED BY <2>1, <2>2 DEF VisitedInv
<1>4. CASE Crash \/ Rerun \/ RemoveOldHere
  <2>1. outbox' = <<>> /\ results' = <<>> /\ \A w \in Workers : work'[w] = Idle
    BY <1>1, <1>4 DEF Crash, Rerun, RemoveOldHere, IInv, Quiet
  <2> QED BY <1>3, <2>1
<1>5. CASE PrepareReport
  <2>1. outbox' = <<>> /\ results' = <<>> /\ \A w \in Workers : work'[w] = Idle
    BY <1>1, <1>5 DEF PrepareReport, IInv, Quiet
  <2> QED BY <1>3, <2>1
<1>6. CASE Register
  BY <1>6, RegisterVisited
<1>7. CASE WriteReport \/ Over \/ UNCHANGED vars
  <2>1. fs' = fs /\ config' = config /\ work' = work /\ outbox' = outbox /\ results' = results /\ queue' = queue
    BY <1>7 DEF WriteReport, Over, vars
  <2>2. \A r : Finished(r)' <=> Finished(r)
    BY <2>1 DEF Finished
  <2>3. \A p : Tasked(p) => Tasked(p)'
    BY <2>1 DEF Tasked, At
  <2> QED BY <2>1, <2>2, <2>3, KeptVisited
<1> QED BY <1>2, <1>4, <1>5, <1>6, <1>7 DEF NextHere, HostHere

\* When a run is over, every entry of every directory that was listed has its result or is a
\* carve directory, also an entry that another worker made after the directory was listed
\* (_iterate_directory runs while the siblings are extracted).
LEMMA HereEntriesVisited ==
  ASSUME NamesApart
  PROVE  HereSpec => []AllVisited
<1>1. Init => VisitedInv
  <2> SUFFICES ASSUME Init PROVE VisitedInv
    OBVIOUS
  <2>1. \A r : ~ Finished(r)
    BY DEF Init, Finished
  <2> QED BY <2>1 DEF Init, VisitedInv, ReportInv, Busy
<1>2. Inv /\ Inv' /\ VisitedInv /\ [NextHere]_vars => VisitedInv'
  BY NextVisited
<1>3. ASSUME Inv, VisitedInv PROVE AllVisited
  <2> SUFFICES ASSUME phase = "done", NEW r \in Range(results), Listed(r), NEW p \in DOMAIN fs, Child(p, r.task.path)
               PROVE  ResultOf(p) # {} \/ IsCarveDir(p)
    BY DEF AllVisited
  <2>1. queue = <<>> /\ outbox = <<>> /\ (\A w \in Workers : work[w] = Idle) /\ results \in Seq(TaskResults)
    BY <1>3 DEF Inv, IInv, Quiet, TypeOK
  <2>2. Range(results) = {results[i] : i \in DOMAIN results}
    BY DEF Range
  <2>3. Finished(r)
    BY <2>2 DEF Finished
  <2>4. Tasked(p) \/ Carving(p)
    BY <1>3, <2>3 DEF VisitedInv
  <2>5. CASE Tasked(p)
    <3>1. \E i \in DOMAIN results : p = results[i].task.path
      BY <2>1, <2>5 DEF Tasked, At
    <3> QED BY <2>2, <3>1 DEF ResultOf
  <2>6. CASE Carving(p)
    <3>1. \E i \in DOMAIN results : "CarveDirectory" \in results[i].reports /\ p = Beside(results[i].task.path)
      BY <2>1, <2>6 DEF Carving, Finished, Busy
    <3> QED BY <2>2, <3>1 DEF IsCarveDir
  <2> QED BY <2>4, <2>5, <2>6
<1> QED BY <1>1, <1>2, <1>3, HereInvariance, PTL DEF HereSpec

-----------------------------------------------------------------------------
(* Nothing is lost                                                         *)

\* The names of the pieces of a file (PieceNames).
LEMMA NameFacts ==
  ASSUME NEW c \in Files
  PROVE  /\ \A j \in 1..Len(Chunks(c)) : Chunks(c)[j].name.ext = 0 /\ Chunks(c)[j].name \notin Content[c].unknown
         /\ \A j, k \in 1..Len(Chunks(c)) : Chunks(c)[j].name = Chunks(c)[k].name => j = k
         /\ \A n \in Content[c].unknown : n.ext = 0
<1>1. ContentOK(Content[c])
  BY ProcessingAssumption
<1> QED BY <1>1 DEF ContentOK, PieceNames, Chunks

\* The places of the pieces of a file are apart.
LEMMA PieceFacts ==
  ASSUME NEW x, x.task.path \in Paths, x.content \in Files
  PROVE  /\ CarveDir(x) \in Paths /\ Len(Chunks(x.content)) \in Nat
         /\ \A i \in 1..Len(Chunks(x.content)) :
              /\ ChunkPath(x, i) \in Paths /\ Child(ChunkPath(x, i), CarveDir(x))
              /\ Beside(ChunkPath(x, i)) \in Paths /\ Child(Beside(ChunkPath(x, i)), CarveDir(x))
              /\ ChunkPath(x, i) # x.task.path
              /\ ChunkPath(x, i) \notin UnknownPaths(x)
              /\ Beside(ChunkPath(x, i)) \notin UnknownPaths(x)
         /\ \A i, k \in 1..Len(Chunks(x.content)) :
              /\ ChunkPath(x, i) = ChunkPath(x, k) => i = k
              /\ Beside(ChunkPath(x, i)) = Beside(ChunkPath(x, k)) => i = k
              /\ Beside(ChunkPath(x, i)) # ChunkPath(x, k)
         /\ \A p \in UnknownPaths(x) : p \in Paths /\ Child(p, CarveDir(x))
<1> DEFINE c == CarveDir(x)
           n == Len(Chunks(x.content))
           name(i) == Chunks(x.content)[i].name
           U == Content[x.content].unknown
<1>1. c \in Paths /\ n \in Nat
  BY BesideFacts, ContentFacts DEF CarveDir
<1>2. /\ \A i \in 1..n : name(i) \in Names /\ name(i).ext = 0 /\ name(i) \notin U
      /\ \A i, k \in 1..n : name(i) = name(k) => i = k
      /\ U \subseteq Names /\ \A m \in U : m.ext = 0
  BY ContentFacts, NameFacts
<1>3. /\ \A i : ChunkPath(x, i) = Append(c, name(i))
      /\ UnknownPaths(x) = {Append(c, m) : m \in U}
  BY DEF ChunkPath, UnknownPaths
<1>4. ~ Under(x.task.path, c)
  BY <1>1, BesideFacts, UnderOrder DEF CarveDir
<1> HIDE DEF c, n, name, U
<1>5. \A m \in Names : /\ Append(c, m) \in Paths /\ Child(Append(c, m), c) /\ Under(Append(c, m), c)
                       /\ \A k \in Names : Append(c, m) = Append(c, k) => m = k
  BY <1>1, AppendFacts DEF Child
<1>6. \A m \in Names : /\ Beside(Append(c, m)) = Append(c, Suffixed(m))
                       /\ Suffixed(m) \in Names /\ Suffixed(m).ext # 0
                       /\ \A k \in Names : Suffixed(m) = Suffixed(k) => m = k
  BY <1>1, BesideAppend, SuffixedFacts
<1>7. \A i \in 1..n : /\ ChunkPath(x, i) \in Paths /\ Child(ChunkPath(x, i), c) /\ Under(ChunkPath(x, i), c)
                      /\ Beside(ChunkPath(x, i)) \in Paths /\ Child(Beside(ChunkPath(x, i)), c)
  <2> TAKE i \in 1..n
  <2>1. name(i) \in Names /\ ChunkPath(x, i) = Append(c, name(i))
    BY <1>2, <1>3
  <2>2. Beside(ChunkPath(x, i)) = Append(c, Suffixed(name(i))) /\ Suffixed(name(i)) \in Names
    BY <1>6, <2>1
  <2>3. /\ Append(c, name(i)) \in Paths /\ Child(Append(c, name(i)), c) /\ Under(Append(c, name(i)), c)
        /\ Append(c, Suffixed(name(i))) \in Paths /\ Child(Append(c, Suffixed(name(i))), c)
    BY <1>5, <2>1, <2>2
  <2> QED BY <2>1, <2>2, <2>3
<1>8. \A i \in 1..n : ChunkPath(x, i) # x.task.path
  BY <1>4, <1>7
<1>9. \A i \in 1..n : ChunkPath(x, i) \notin UnknownPaths(x) /\ Beside(ChunkPath(x, i)) \notin UnknownPaths(x)
  <2> TAKE i \in 1..n
  <2>1. name(i) \in Names /\ ChunkPath(x, i) = Append(c, name(i)) /\ name(i) \notin U
    BY <1>2, <1>3
  <2>2. \A m \in U : m \in Names /\ m # name(i) /\ m # Suffixed(name(i))
    BY <1>2, <1>6, <2>1
  <2> QED BY <1>3, <1>5, <1>6, <2>1, <2>2
<1>10. \A i, k \in 1..n :
              /\ ChunkPath(x, i) = ChunkPath(x, k) => i = k
              /\ Beside(ChunkPath(x, i)) = Beside(ChunkPath(x, k)) => i = k
              /\ Beside(ChunkPath(x, i)) # ChunkPath(x, k)
  <2> TAKE i, k \in 1..n
  <2>1. /\ name(i) \in Names /\ ChunkPath(x, i) = Append(c, name(i))
        /\ name(k) \in Names /\ ChunkPath(x, k) = Append(c, name(k)) /\ name(k).ext = 0
        /\ name(i) = name(k) => i = k
    BY <1>2, <1>3
  <2>2. Suffixed(name(i)) # name(k)
    BY <1>6, <2>1
  <2> QED BY <1>5, <1>6, <2>1, <2>2
<1>11. \A p \in UnknownPaths(x) : p \in Paths /\ Child(p, c)
  BY <1>2, <1>3, <1>5
<1> QED BY <1>1, <1>7, <1>8, <1>9, <1>10, <1>11 DEF c, n

\* What is extracted is under the directory of the file, and below that of its chunk.
LEMMA ExtractsFacts ==
  ASSUME NEW x, x.task.path \in Paths, x.content \in Files, NEW i \in 1..Len(Chunks(x.content)),
         NEW p \in Extracts(x, i)
  PROVE  /\ p \in Paths /\ Under(p, CarveDir(x)) /\ p # CarveDir(x)
         /\ Pieces(x.content) # 1 =>
              /\ Under(p, Beside(ChunkPath(x, i))) /\ p # Beside(ChunkPath(x, i))
              /\ \A k \in 1..Len(Chunks(x.content)) : p # ChunkPath(x, k) /\ p # Beside(ChunkPath(x, k))
<1> DEFINE c == CarveDir(x)
           d == Beside(From(x, i))
<1>1. c \in Paths /\ c = Beside(x.task.path)
  BY PieceFacts DEF CarveDir
<1>2. d \in Paths /\ (Pieces(x.content) = 1 => d = c)
      /\ (Pieces(x.content) # 1 => d = Beside(ChunkPath(x, i)) /\ Child(d, c))
  <2>1. CASE Pieces(x.content) = 1
    BY <1>1, <2>1 DEF From
  <2>2. CASE Pieces(x.content) # 1
    BY <2>2, PieceFacts DEF From
  <2> QED BY <2>1, <2>2
<1>3. PICK q \in Paths : p = d \o q
  <2>1. TreeOK(Chunks(x.content)[i].tree)
    BY ContentFacts
  <2> QED BY <2>1 DEF Extracts, TreeOK
<1> HIDE DEF c, d
<1>4. p \in Paths /\ Under(p, d) /\ p # d
  BY <1>2, <1>3, ConcatFacts
<1>5. CASE Pieces(x.content) = 1
  BY <1>2, <1>4, <1>5 DEF c
<1>6. CASE Pieces(x.content) # 1
  <2>1. Under(d, c) /\ d # c /\ ~ Under(c, d) /\ Child(d, c)
    BY <1>1, <1>2, <1>6, ChildFacts
  <2>2. Under(p, c) /\ p # c
    BY <1>1, <1>2, <1>4, <2>1, UnderOrder
  <2>3. \A y \in Paths : Child(y, c) => p # y
    <3> SUFFICES ASSUME Child(p, c) PROVE FALSE
      BY <1>4
    <3> QED BY <1>1, <1>2, <1>4, <2>1, ChildFacts
  <2>4. \A k \in 1..Len(Chunks(x.content)) : p # ChunkPath(x, k) /\ p # Beside(ChunkPath(x, k))
    BY <2>3, PieceFacts DEF c
  <2> QED BY <1>2, <1>4, <1>6, <2>2, <2>4 DEF c
<1> QED BY <1>5, <1>6

\* A job and its result speak of the same paths.
LEMMA Alike ==
  ASSUME NEW x, NEW y, x.task = y.task, x.content = y.content
  PROVE  /\ CarveDir(x) = CarveDir(y) /\ Gaps(x) = Gaps(y)
         /\ \A i : /\ ChunkPath(x, i) = ChunkPath(y, i)
                   /\ Extracts(x, i) = Extracts(y, i) /\ Lefts(x, i) = Lefts(y, i)
         /\ \A n, f : (Held(x, n, f) <=> Held(y, n, f)) /\ (Ahead(x, n, f) <=> Ahead(y, n, f))
<1>1. CarveDir(x) = CarveDir(y)
  BY DEF CarveDir
<1>2. \A i : ChunkPath(x, i) = ChunkPath(y, i)
  BY <1>1 DEF ChunkPath
<1>3. UnknownPaths(x) = UnknownPaths(y)
  BY <1>1 DEF UnknownPaths
<1>4. \A i : From(x, i) = From(y, i)
  BY <1>2 DEF From
<1>5. Gaps(x) = Gaps(y)
  BY <1>3 DEF Gaps
<1>6. ASSUME NEW i PROVE Extracts(x, i) = Extracts(y, i)
  <2>1. From(x, i) = From(y, i) /\ x.content = y.content
    BY <1>4
  <2> QED BY <2>1, Zenon DEF Extracts
<1>7. \A i : Lefts(x, i) = Lefts(y, i)
  BY <1>2 DEF Lefts
<1>8. \A n, f : Held(x, n, f) <=> Held(y, n, f)
  BY <1>5, <1>6, <1>7 DEF Held
<1>9. \A n, f : Ahead(x, n, f) <=> Ahead(y, n, f)
  BY <1>2 DEF Ahead
<1> QED BY <1>1, <1>2, <1>5, <1>6, <1>7, <1>8, <1>9

\* Removing the piece that is extracted, or its empty directory, loses nothing of the others.
LEMMA HeldOn ==
  ASSUME NEW x, x.task.path \in Paths, x.content \in Files, Pieces(x.content) # 1,
         NEW t \in 1..Len(Chunks(x.content)), NEW f, NEW g, Held(x, t - 1, f),
         \A p \in DOMAIN f \ DOMAIN g : p = ChunkPath(x, t) \/ p = Beside(ChunkPath(x, t)),
         \A p \in DOMAIN f \cap DOMAIN g : g[p] = f[p]
  PROVE  Held(x, t - 1, g)
<1>1. Len(Chunks(x.content)) \in Nat
  BY PieceFacts
<1>2. \A i \in 1..(t - 1) : i \in 1..Len(Chunks(x.content)) /\ i # t
  BY <1>1
<1>3. ASSUME NEW p \in DOMAIN f, p # ChunkPath(x, t), p # Beside(ChunkPath(x, t))
      PROVE  p \in DOMAIN g /\ g[p] = f[p]
  BY <1>3
<1>4. ASSUME NEW p \in Gaps(x) PROVE p \in DOMAIN g /\ g[p] = "piece"
  <2>1. p \in UnknownPaths(x) /\ p \in DOMAIN f /\ f[p] = "piece"
    BY <1>4 DEF Gaps, Held
  <2>2. p # ChunkPath(x, t) /\ p # Beside(ChunkPath(x, t))
    BY <2>1, PieceFacts
  <2> QED BY <1>3, <2>1, <2>2
<1>5. ASSUME NEW i \in 1..(t - 1), NEW p \in Extracts(x, i) PROVE p \in DOMAIN g
  <2>1. p \in DOMAIN f
    BY <1>5 DEF Held
  <2>2. p # ChunkPath(x, t) /\ p # Beside(ChunkPath(x, t))
    BY <1>2, <1>5, ExtractsFacts
  <2> QED BY <1>3, <2>1, <2>2
<1>6. ASSUME NEW i \in 1..(t - 1), NEW p \in Lefts(x, i) PROVE p \in DOMAIN g /\ g[p] = "piece"
  <2>1. p = ChunkPath(x, i) /\ p \in DOMAIN f /\ f[p] = "piece"
    BY <1>6 DEF Held, Lefts
  <2>2. p # ChunkPath(x, t) /\ p # Beside(ChunkPath(x, t))
    BY <1>2, <2>1, PieceFacts
  <2> QED BY <1>3, <2>1, <2>2
<1> QED BY <1>4, <1>5, <1>6 DEF Held

\* One chunk more.
LEMMA HeldMore ==
  ASSUME NEW x, NEW t \in Nat \ {0}, NEW f, Held(x, t - 1, f),
         \A p \in Extracts(x, t) : p \in DOMAIN f,
         \A p \in Lefts(x, t) : p \in DOMAIN f /\ f[p] = "piece"
  PROVE  Held(x, t, f)
<1>1. \A i \in 1..t : i = t \/ i \in 1..(t - 1)
  OBVIOUS
<1> QED BY <1>1 DEF Held

\* What is made in the directory of a chunk is no other chunk.
LEMMA AheadOn ==
  ASSUME NEW x, x.task.path \in Paths, x.content \in Files,
         NEW t \in 1..Len(Chunks(x.content)), NEW n, NEW f, NEW g, Ahead(x, n, f),
         \A p \in DOMAIN g \ DOMAIN f :
           p = CarveDir(x) \/ p \in UnknownPaths(x) \/ (p \in Paths /\ Under(p, Beside(ChunkPath(x, t))))
  PROVE  Ahead(x, n, g)
<1> DEFINE c == CarveDir(x)  d == Beside(ChunkPath(x, t))
<1> SUFFICES ASSUME NEW i \in 1..Len(Chunks(x.content)), i > n, ChunkPath(x, i) \in DOMAIN g
             PROVE  FALSE
  BY DEF Ahead
<1>1. ChunkPath(x, i) \notin DOMAIN f
  BY DEF Ahead
<1>2. /\ c \in Paths /\ d \in Paths /\ Child(d, c) /\ ChunkPath(x, i) \in Paths /\ Child(ChunkPath(x, i), c)
      /\ ChunkPath(x, i) \notin UnknownPaths(x) /\ ChunkPath(x, i) # d
  BY PieceFacts
<1>3. ChunkPath(x, i) # c /\ ~ Under(ChunkPath(x, i), d)
  BY <1>2, ChildFacts
<1> QED BY <1>1, <1>2, <1>3

\* Other workers leave alone what a worker has carved and extracted.
LEMMA KeptFrame ==
  ASSUME IInv, NEW v \in Workers, Busy(v), work[v].pc \in FilePcs, JobKept(work[v], fs),
         \A p : InRegion(v, p) => Same(fs, fs', p)
  PROVE  JobKept(work[v], fs')
<1> DEFINE job == work[v]
<1>1. job.content \in Files /\ job.task.path \in Paths /\ job.todo \in 1..Len(Chunks(job.content)) /\ TypeOK
  BY OwnFile DEF FileLocal
<1>2. CASE Single(job)
  BY <1>2 DEF JobKept, Single
<1>3. CASE ~ Single(job) /\ job.pc = "unknown"
  BY <1>3 DEF JobKept
<1>4. CASE ~ Single(job) /\ job.pc # "unknown"
  <2>1. Engaged(job)
    <3>1. job.pc # "delete"
      BY <1>4, OwnFile DEF FileLocal, Single
    <3> QED BY <1>4, <3>1 DEF Engaged, Single, FilePcs
  <2>2. ASSUME NEW p \in Paths, Under(p, CarveDir(job)) PROVE Same(fs, fs', p)
    BY <2>1, <2>2 DEF InRegion
  <2>3. /\ CarveDir(job) \in Paths /\ Len(Chunks(job.content)) \in Nat
        /\ \A i \in 1..Len(Chunks(job.content)) : ChunkPath(job, i) \in Paths /\ Child(ChunkPath(job, i), CarveDir(job))
        /\ \A p \in UnknownPaths(job) : p \in Paths /\ Child(p, CarveDir(job))
    BY <1>1, PieceFacts
  <2>4. /\ \A i \in 1..Len(Chunks(job.content)) : Same(fs, fs', ChunkPath(job, i))
        /\ \A p \in UnknownPaths(job) : Same(fs, fs', p)
    BY <2>2, <2>3 DEF Child
  <2>5. \A i \in 1..Len(Chunks(job.content)) : \A p \in Extracts(job, i) : Same(fs, fs', p)
    BY <1>1, <2>2, ExtractsFacts
  <2>6. \A n : Ahead(job, n, fs) => Ahead(job, n, fs')
    BY <2>4 DEF Ahead, Same
  <2>7. Held(job, job.todo - 1, fs) => Held(job, job.todo - 1, fs')
    <3>1. \A i \in 1..(job.todo - 1) : i \in 1..Len(Chunks(job.content))
      BY <1>1, <2>3
    <3>2. \A p \in Gaps(job) : Same(fs, fs', p)
      BY <2>4 DEF Gaps
    <3>3. \A i \in 1..(job.todo - 1) : \A p \in Lefts(job, i) : Same(fs, fs', p)
      BY <2>4, <3>1 DEF Lefts
    <3>4. \A i \in 1..(job.todo - 1) : \A p \in Extracts(job, i) : Same(fs, fs', p)
      BY <2>5, <3>1
    <3> QED BY <3>2, <3>3, <3>4 DEF Held, Same
  <2> QED BY <2>6, <2>7 DEF JobKept
<1> QED BY <1>2, <1>3, <1>4

\* What a step of a worker on a file leaves of what it has to keep.
KeepStep(w, j) ==
  /\ Carries(j, work[w])
  /\ \/ Continue(w, j) /\ JobKept(j, fs')
     \/ Return(w, j) /\ (Processed(j) => Engaged(work[w]) /\ Held(j, Len(Chunks(j.content)), fs'))

\* A file with one piece is one chunk without gaps.
LEMMA OneChunk ==
  ASSUME NEW c \in Files, Pieces(c) = 1, NEW t \in 1..Len(Chunks(c))
  PROVE  Len(Chunks(c)) = 1 /\ t = 1 /\ Content[c].unknown = {}
<1> DEFINE U == Content[c].unknown
<1>1. Len(Chunks(c)) \in Nat /\ IsFiniteSet(U)
  BY ContentFacts
<1>2. Cardinality(U) \in Nat /\ (Cardinality(U) = 0 <=> U = {})
  BY <1>1, FS_CardinalityType, FS_EmptySet
<1>3. Len(Chunks(c)) + Cardinality(U) = 1
  BY DEF Pieces
<1>4. Len(Chunks(c)) >= 1 /\ t >= 1 /\ t <= Len(Chunks(c)) /\ t \in Nat
  BY <1>1
<1> DEFINE n == Len(Chunks(c))  m == Cardinality(U)
<1> HIDE DEF U, n, m
<1>5. n \in Nat /\ m \in Nat /\ n + m = 1 /\ n >= 1 /\ t >= 1 /\ t <= n /\ t \in Nat
  BY <1>1, <1>2, <1>3, <1>4 DEF n, m
<1>6. n = 1 /\ m = 0 /\ t = 1
  BY <1>5
<1> QED BY <1>2, <1>6 DEF U, n, m

\* A worker goes on with the same chunk.
LEMMA GoesKept ==
  ASSUME IInv, NEW w \in Workers, Busy(w), work[w].pc \in {"check", "mkdir", "extract"}, JobKept(work[w], fs),
         NEW j, Carries(j, work[w]), j.reports = work[w].reports, j.src = work[w].src, j.todo = work[w].todo,
         j.pc \in {"mkdir", "extract", "settle"}, Continue(w, j),
         DOMAIN fs \subseteq DOMAIN fs', \A p \in DOMAIN fs : fs'[p] = fs[p],
         \A p \in DOMAIN fs' \ DOMAIN fs : p \in Paths /\ Under(p, Beside(work[w].src))
  PROVE  KeepStep(w, j)
<1> DEFINE job == work[w]
<1>1. work[w].pc \in FilePcs
  BY DEF FilePcs
<1>2. /\ job.content \in Files /\ job.task.path \in Paths /\ job.todo \in 1..Len(Chunks(job.content))
      /\ Whole(job) \/ job.src = ChunkPath(job, job.todo)
  BY <1>1, OwnFile DEF FileLocal
<1>3. j.task = job.task /\ j.content = job.content
  BY DEF Carries
<1>4. Single(j) <=> Single(job)
  BY <1>3 DEF Single, Whole
<1>5. CASE Single(job)
  BY <1>2, <1>3, <1>4, <1>5 DEF KeepStep, JobKept
<1>6. CASE ~ Single(job)
  <2>1. job.src = ChunkPath(job, job.todo) /\ Pieces(job.content) # 1
    BY <1>2, <1>6 DEF Single, JobKept
  <2>2. Ahead(job, job.todo, fs) /\ ("OutputExists" \notin job.reports => Held(job, job.todo - 1, fs))
    BY <1>6 DEF JobKept
  <2>3. Ahead(job, job.todo, fs')
    <3>1. \A p \in DOMAIN fs' \ DOMAIN fs : p \in Paths /\ Under(p, Beside(ChunkPath(job, job.todo)))
      BY <2>1
    <3> DEFINE n == job.todo
    <3>2. n \in 1..Len(Chunks(job.content)) /\ Ahead(job, n, fs)
      BY <1>2, <2>2
    <3>3. \A p \in DOMAIN fs' \ DOMAIN fs :
            p = CarveDir(job) \/ p \in UnknownPaths(job) \/ (p \in Paths /\ Under(p, Beside(ChunkPath(job, n))))
      BY <3>1
    <3> HIDE DEF n
    <3>4. Ahead(job, n, fs')
      BY <1>2, <3>2, <3>3, AheadOn
    <3> QED BY <3>4 DEF n
  <2>4. "OutputExists" \notin job.reports => Held(job, job.todo - 1, fs')
    BY <1>2, <2>1, <2>2, HeldOn
  <2>5. Ahead(j, j.todo, fs') /\ ("OutputExists" \notin j.reports => Held(j, j.todo - 1, fs'))
    BY <1>3, <2>3, <2>4, Alike
  <2> QED BY <1>2, <1>3, <1>4, <2>1, <2>5 DEF KeepStep, JobKept
<1> QED BY <1>5, <1>6

\* A worker goes on with the next chunk, or returns after the last.
LEMMA AdvanceKept ==
  ASSUME NEW w, NEW j \in Jobs, Carries(j, work[w]), j.content \in Files, j.task.path \in Paths,
         j.todo \in 1..Len(Chunks(j.content)), Whole(j) <=> Pieces(j.content) = 1,
         ~ Whole(j) => Ahead(j, j.todo, fs'),
         "OutputExists" \notin j.reports => Engaged(work[w]) /\ Held(j, j.todo, fs'),
         Advance(w, j)
  PROVE  \E k : KeepStep(w, k)
<1>1. Len(Chunks(j.content)) \in Nat
  BY ContentFacts
<1>2. CASE ~ Whole(j) /\ j.todo < Len(Chunks(j.content))
  <2> DEFINE t == j.todo + 1
             k == [j EXCEPT !.pc = "carve", !.todo = t]
  <2>1. Continue(w, [j EXCEPT !.pc = "carve", !.todo = @ + 1])
    BY <1>2 DEF Advance
  <2>2. [j EXCEPT !.pc = "carve", !.todo = @ + 1] = [j EXCEPT !.pc = "carve", !.todo = t]
    BY Zenon
  <2>3. t - 1 = j.todo
    BY <1>1
  <2> HIDE DEF t
  <2>4. Continue(w, k)
    BY <2>1, <2>2, Zenon
  <2>5. Carries(k, j) /\ k.reports = j.reports /\ k.pc = "carve" /\ k.todo = t
    <3>1. k.task = j.task /\ k.content = j.content /\ k.reports = j.reports /\ k.pc = "carve" /\ k.todo = t
      BY Zenon DEF Jobs
    <3> QED BY <3>1 DEF Carries
  <2> HIDE DEF k
  <2>6. Carries(k, work[w]) /\ k.task = j.task /\ k.content = j.content
    BY <2>5 DEF Carries
  <2>7. ~ Single(k)
    BY <2>5 DEF Single
  <2>8. Ahead(k, k.todo - 1, fs') /\ ("OutputExists" \notin k.reports => Held(k, k.todo - 1, fs'))
    BY <1>2, <2>3, <2>5, <2>6, Alike
  <2>9. JobKept(k, fs')
    BY <1>2, <2>5, <2>6, <2>7, <2>8 DEF JobKept
  <2> QED BY <2>4, <2>6, <2>9 DEF KeepStep
<1>3. CASE ~ (~ Whole(j) /\ j.todo < Len(Chunks(j.content)))
  <2>1. Return(w, j)
    BY <1>3 DEF Advance
  <2>2. Processed(j) => Engaged(work[w]) /\ Held(j, j.todo, fs')
    BY DEF Processed
  <2>3. j.todo = Len(Chunks(j.content))
    BY <1>1, <1>3, OneChunk
  <2> QED BY <2>1, <2>2, <2>3 DEF KeepStep
<1> QED BY <1>2, <1>3

\* The gaps are carved into a directory that was not there.
LEMMA CarveUnknownKept ==
  ASSUME IInv, NEW w \in Workers, CarveUnknownHere(w), JobKept(work[w], fs)
  PROVE  \E j : KeepStep(w, j)
<1> DEFINE job == work[w]  c == CarveDir(job)  files == UnknownPaths(job)  next == [job EXCEPT !.pc = "carve"]
<1>1. /\ Busy(w) /\ job.pc = "unknown" /\ job.pc \in FilePcs /\ CarveHere(w, job, files, next)
  BY DEF CarveUnknownHere, Busy, FilePcs
<1>2. /\ job \in Jobs /\ FileLocal(w) /\ job.task.path = Path(w) /\ Path(w) \in Paths /\ c = Beside(Path(w))
      /\ c \in Paths /\ job.content \in Files /\ c \notin DOMAIN fs /\ DOMAIN fs \subseteq Paths
  BY <1>1, OwnFile DEF FileLocal
<1>3. /\ ~ Single(job) /\ Pieces(job.content) # 1 /\ job.todo = 1 /\ 1 \in 1..Len(Chunks(job.content))
  BY <1>1, <1>2 DEF JobKept, Single, FileLocal
<1>4. \A p \in DOMAIN fs : ~ Under(p, c)
  BY <1>2, NothingThere
<1>5. /\ \A p \in files : p \in Paths /\ Child(p, c)
      /\ \A i \in 1..Len(Chunks(job.content)) : ChunkPath(job, i) \in Paths /\ Child(ChunkPath(job, i), c)
  BY <1>2, PieceFacts
<1>6. \A p \in files : ~ Exists(p)
  BY <1>4, <1>5 DEF Exists, Child
<1>7. /\ Continue(w, next)
      /\ fs' = With(With(fs, IF files = {} THEN {} ELSE {c}, "dir"), files, "piece")
  BY <1>1, <1>6 DEF CarveHere
<1>8. Carries(next, job) /\ next.pc = "carve" /\ next.todo = 1
  BY <1>2, <1>3, CarriesOn DEF Jobs
<1> HIDE DEF next
<1>9. next.task = job.task /\ next.content = job.content
  BY <1>8 DEF Carries
<1>10. Ahead(job, 0, fs)
  BY <1>4, <1>5 DEF Ahead, Child
<1> DEFINE C == IF files = {} THEN {} ELSE {c}
           g == With(fs, C, "dir")
<1>11. C \subseteq {c} /\ (files # {} => C = {c})
  OBVIOUS
<1> HIDE DEF C
<1>12. DOMAIN g = DOMAIN fs \cup C
  BY DEF With
<1> HIDE DEF files
<1>13. fs' = With(g, files, "piece")
  BY <1>7 DEF C
<1>14. files \cap DOMAIN g = {}
  <2>1. c \notin files
    BY <1>2, <1>5, ChildFacts
  <2> QED BY <1>6, <1>11, <1>12, <2>1 DEF Exists
<1> HIDE DEF g
<1>15. DOMAIN fs' = DOMAIN g \cup files /\ \A p \in files : fs'[p] = "piece"
  BY <1>13, <1>14 DEF With
<1> HIDE DEF c
<1>16. Ahead(job, 0, fs')
  <2>1. \A p \in DOMAIN fs' \ DOMAIN fs :
          p = CarveDir(job) \/ p \in UnknownPaths(job) \/ (p \in Paths /\ Under(p, Beside(ChunkPath(job, 1))))
    BY <1>11, <1>12, <1>15 DEF files, c
  <2> QED BY <1>2, <1>3, <1>10, <2>1, AheadOn
<1>17. Held(job, 0, fs')
  <2>1. \A p \in Gaps(job) : p \in files
    BY DEF Gaps, files
  <2> QED BY <1>15, <2>1 DEF Held
<1>18. Ahead(next, next.todo - 1, fs') /\ Held(next, next.todo - 1, fs')
  BY <1>8, <1>9, <1>16, <1>17, Alike
<1>19. JobKept(next, fs')
  BY <1>2, <1>3, <1>8, <1>9, <1>18 DEF JobKept, Single
<1> QED BY <1>7, <1>8, <1>19 DEF KeepStep

\* A chunk is carved where nothing is: no other chunk and no extracted file has its name.
LEMMA CarveChunkKept ==
  ASSUME IInv, NEW w \in Workers, CarveChunkHere(w), JobKept(work[w], fs)
  PROVE  /\ \E j : KeepStep(w, j)
         /\ ChunkPath(work[w], work[w].todo) \notin DOMAIN fs
<1> DEFINE job == work[w]  c == CarveDir(job)  t == job.todo  q == ChunkPath(job, t)
           next == [job EXCEPT !.pc = "check", !.src = q]
<1>1. /\ Busy(w) /\ job.pc = "carve" /\ job.pc \in FilePcs /\ CarveHere(w, job, {q}, next)
  BY DEF CarveChunkHere, Busy, FilePcs
<1>2. /\ job \in Jobs /\ job.task.path \in Paths /\ c \in Paths /\ job.content \in Files
      /\ t \in 1..Len(Chunks(job.content)) /\ Len(Chunks(job.content)) \in Nat
  BY <1>1, OwnFile, ContentFacts DEF FileLocal
<1>3. /\ ~ Single(job) /\ Pieces(job.content) # 1 /\ Ahead(job, t - 1, fs)
      /\ "OutputExists" \notin job.reports => Held(job, t - 1, fs)
  BY <1>1 DEF JobKept, Single
<1>4. q \in Paths /\ Child(q, c) /\ q # job.task.path
  BY <1>2, PieceFacts
<1>5. q \notin DOMAIN fs
  BY <1>2, <1>3 DEF Ahead
<1>6. Continue(w, next) /\ fs' = With(With(fs, {c}, "dir"), {q}, "piece")
  BY <1>1, <1>5 DEF CarveHere, Exists
<1>7. /\ next.task = job.task /\ next.content = job.content /\ next.reports = job.reports
      /\ next.pc = "check" /\ next.todo = t /\ next.src = q
  <2> HIDE DEF q
  <2> QED BY <1>2, Zenon DEF Jobs
<1> HIDE DEF next
<1> DEFINE g == With(fs, {c}, "dir")
<1>8. DOMAIN g = DOMAIN fs \cup {c} /\ \A p \in DOMAIN fs : g[p] = fs[p]
  BY DEF With
<1>9. fs' = With(g, {q}, "piece")
  BY <1>6
<1> HIDE DEF g
<1>10. DOMAIN fs' = DOMAIN g \cup {q} /\ \A p \in DOMAIN g : fs'[p] = g[p]
  BY <1>9 DEF With
<1> HIDE DEF c, q, t
<1>11. DOMAIN fs' = DOMAIN fs \cup {c, q} /\ \A p \in DOMAIN fs : fs'[p] = fs[p]
  BY <1>8, <1>10
<1>12. Ahead(job, t, fs')
  <2> SUFFICES ASSUME NEW i \in 1..Len(Chunks(job.content)), i > t PROVE ChunkPath(job, i) \notin DOMAIN fs'
    BY DEF Ahead
  <2>1. ChunkPath(job, i) \notin DOMAIN fs
    BY <1>2, <1>3 DEF Ahead
  <2>2. ChunkPath(job, i) # c
    BY <1>2, PieceFacts, ChildFacts DEF c
  <2>3. ChunkPath(job, i) # q
    BY <1>2, PieceFacts DEF q
  <2> QED BY <1>11, <2>1, <2>2, <2>3
<1>13. "OutputExists" \notin job.reports => Held(job, t - 1, fs')
  BY <1>2, <1>3, <1>11, HeldOn
<1>14. /\ Ahead(next, next.todo, fs')
       /\ "OutputExists" \notin next.reports => Held(next, next.todo - 1, fs')
  BY <1>7, <1>12, <1>13, Alike
<1>15. ~ Single(next)
  BY <1>4, <1>7 DEF Single, Whole
<1>16. JobKept(next, fs')
  BY <1>2, <1>3, <1>7, <1>14, <1>15 DEF JobKept
<1>17. Carries(next, job)
  BY <1>7 DEF Carries
<1> QED BY <1>5, <1>6, <1>16, <1>17 DEF KeepStep, q, t

\* A chunk whose directory exists makes the result one of "OutputExists".
LEMMA CheckDirKept ==
  ASSUME IInv, NEW w \in Workers, CheckDirHere(w), JobKept(work[w], fs)
  PROVE  \E j : KeepStep(w, j)
<1> DEFINE job == work[w]
<1>1. Busy(w) /\ job.pc = "check" /\ job.pc \in FilePcs /\ fs' = fs
  BY DEF CheckDirHere, Busy, FilePcs
<1>2. /\ job \in Jobs /\ job.task.path \in Paths /\ job.content \in Files
      /\ job.todo \in 1..Len(Chunks(job.content)) /\ DOMAIN fs \subseteq Paths
  BY <1>1, OwnFile DEF FileLocal
<1>3. Single(job) <=> Whole(job)
  BY <1>1 DEF Single
<1>4. CASE Exists(Beside(job.src))
  <2> DEFINE j == Report(job, "OutputExists")
  <2>1. Advance(w, j)
    BY <1>4 DEF CheckDirHere
  <2>2. "OutputExists" \in Reports
    BY DEF Reports
  <2>3. j \in Jobs /\ Carries(j, job) /\ j.src = job.src /\ j.todo = job.todo /\ "OutputExists" \in j.reports
    BY <1>2, <2>2, JobReport, CarriesOn
  <2> HIDE DEF j
  <2>4. j.task = job.task /\ j.content = job.content
    BY <2>3 DEF Carries
  <2>5. Whole(j) <=> Whole(job)
    BY <2>3, <2>4 DEF Whole
  <2>6. ~ Whole(j) => Ahead(j, j.todo, fs')
    <3>1. ~ Whole(j) => Ahead(job, j.todo, fs')
      BY <1>1, <1>3, <2>3, <2>5 DEF JobKept
    <3> QED BY <2>4, <3>1, Alike
  <2>7. Whole(j) <=> Pieces(j.content) = 1
    BY <1>3, <2>4, <2>5 DEF JobKept
  <2> QED BY <1>2, <2>1, <2>3, <2>4, <2>6, <2>7, AdvanceKept
<1>5. CASE ~ Exists(Beside(job.src))
  <2> DEFINE r == TheChunk(job).result
             pc == IF r = "silent" THEN "settle" ELSE "mkdir"
             e == Beside(job.src)
             j == [job EXCEPT !.outcome = r, !.extract_dir = e, !.pc = pc]
  <2>1. Continue(w, j)
    BY <1>5 DEF CheckDirHere
  <2>2. pc \in {"settle", "mkdir"}
    OBVIOUS
  <2> HIDE DEF r, pc, e
  <2>3. /\ Carries(j, job) /\ j.reports = job.reports /\ j.pc = pc /\ j.src = job.src /\ j.todo = job.todo
    <3>1. j.reports = job.reports /\ j.todo = job.todo
      BY <1>2, Zenon DEF Jobs
    <3>2. Carries(j, job) /\ j.pc = pc /\ j.src = job.src
      <4>1. j = WithOutcome(job, r, e, pc)
        BY DEF WithOutcome
      <4> HIDE DEF j
      <4> QED BY <1>2, <4>1, CarriesOutcome
    <3> QED BY <3>1, <3>2
  <2> HIDE DEF j
  <2> QED BY <1>1, <1>2, <2>1, <2>2, <2>3, GoesKept
<1> QED BY <1>4, <1>5

\* Making the directory of a chunk adds nothing to what is carved.
LEMMA MakeDirKept ==
  ASSUME IInv, NEW w \in Workers, MakeDirHere(w), JobKept(work[w], fs)
  PROVE  \E j : KeepStep(w, j)
<1> DEFINE job == work[w]  d == Beside(job.src)  j == [job EXCEPT !.pc = "extract"]
<1>1. Busy(w) /\ job.pc = "mkdir" /\ job.pc \in FilePcs
  BY DEF MakeDirHere, Busy, FilePcs
<1>2. job \in Jobs /\ d \notin DOMAIN fs /\ d \in Paths
  BY <1>1, OwnFile, TheTree DEF FileLocal
<1>3. Continue(w, j) /\ fs' = With(fs, {d}, "dir")
  BY <1>2 DEF MakeDirHere, Exists
<1>4. Carries(j, job) /\ j.pc = "extract" /\ j.src = job.src /\ j.todo = job.todo /\ j.reports = job.reports
  BY <1>2, CarriesOn DEF Jobs
<1> HIDE DEF j, d
<1>5. DOMAIN fs' = DOMAIN fs \cup {d} /\ \A p \in DOMAIN fs : fs'[p] = fs[p]
  BY <1>3 DEF With
<1>6. \A p \in DOMAIN fs' \ DOMAIN fs : p \in Paths /\ Under(p, Beside(job.src))
  BY <1>2, <1>5, UnderOrder DEF d
<1> QED BY <1>1, <1>3, <1>4, <1>5, <1>6, GoesKept

\* An extractor writes below the directory of its chunk.
LEMMA ExtractKept ==
  ASSUME IInv, NEW w \in Workers, ExtractHere(w), JobKept(work[w], fs)
  PROVE  \E j : KeepStep(w, j)
<1> DEFINE job == work[w]  d == Beside(job.src)  j == [job EXCEPT !.pc = "settle"]  tree == TheChunk(job).tree
<1>1. Busy(w) /\ job.pc = "extract" /\ job.pc \in FilePcs /\ Continue(w, j) /\ fs' = WithTree(fs, d, tree)
  BY DEF ExtractHere, Busy, FilePcs
<1>2. /\ job \in Jobs /\ FsOK(fs) /\ d \in DOMAIN fs /\ fs[d] = "dir" /\ Bare(fs, d)
  BY <1>1, OwnFile DEF FileLocal
<1>3. TreeOK(tree) /\ d \in Paths /\ DOMAIN tree \subseteq Paths
  BY <1>1, TheTree
<1>4. Carries(j, job) /\ j.pc = "settle" /\ j.src = job.src /\ j.todo = job.todo /\ j.reports = job.reports
  BY <1>2, CarriesOn DEF Jobs
<1> HIDE DEF j, d, tree
<1>5. DOMAIN fs' = DOMAIN fs \cup {d \o r : r \in DOMAIN tree} /\ \A p \in DOMAIN fs : fs'[p] = fs[p]
  <2> DEFINE g == WithTree(fs, d, tree)
  <2>1. /\ DOMAIN g = DOMAIN fs \cup {d \o r : r \in DOMAIN tree}
        /\ \A p \in DOMAIN fs : g[p] = fs[p]
    BY <1>2, <1>3, WithTreeFacts, Zenon
  <2> HIDE DEF g
  <2> QED BY <1>1, <2>1 DEF g
<1>6. \A p \in DOMAIN fs' \ DOMAIN fs : p \in Paths /\ Under(p, Beside(job.src))
  <2>1. \A r \in DOMAIN tree : d \o r \in Paths /\ Under(d \o r, d)
    BY <1>3, ConcatFacts
  <2> QED BY <1>5, <2>1 DEF d
<1>7. DOMAIN fs \subseteq DOMAIN fs'
  BY <1>5
<1> QED BY <1>1, <1>4, <1>5, <1>6, <1>7, GoesKept

\* What is extracted of the chunk that a worker is at.
LEMMA ChunkExtracts ==
  ASSUME IInv, NEW w \in Workers, Busy(w), work[w].pc \in {"settle", "delete"}, JobKept(work[w], fs),
         OutcomeFor(work[w], fs)
  PROVE  /\ \A p \in Extracts(work[w], work[w].todo) :
              /\ p \in DOMAIN fs /\ p \in Paths /\ Under(p, CarveDir(work[w]))
              /\ p # Beside(work[w].src) /\ p # work[w].src
         /\ work[w].outcome = TheChunk(work[w]).result
         /\ Whole(work[w]) <=> Pieces(work[w].content) = 1
         /\ work[w].content \in Files /\ work[w].task.path \in Paths
         /\ work[w].todo \in 1..Len(Chunks(work[w].content))
         /\ ~ Whole(work[w]) => /\ work[w].src = ChunkPath(work[w], work[w].todo) /\ work[w].pc = "settle"
                                /\ work[w].src \in DOMAIN fs /\ fs[work[w].src] = "piece"
<1> DEFINE job == work[w]  t == job.todo  d == Beside(job.src)  tree == TheChunk(job).tree
<1>1. job.pc \in FilePcs
  BY DEF FilePcs
<1>2. /\ job.content \in Files /\ job.task.path \in Paths /\ t \in 1..Len(Chunks(job.content))
      /\ Whole(job) \/ (job.src = ChunkPath(job, t) /\ job.pc = "settle" /\ job.src \in DOMAIN fs /\ fs[job.src] = "piece")
  BY <1>1, OwnFile DEF FileLocal
<1>3. Whole(job) <=> Pieces(job.content) = 1
  BY DEF JobKept, Single
<1>4. /\ job.outcome = TheChunk(job).result
      /\ job.outcome # "silent" => \A r \in DOMAIN tree : d \o r \in DOMAIN fs
  BY DEF OutcomeFor
<1>5. From(job, t) = job.src
  BY <1>2, <1>3 DEF From, Whole
<1>6. ASSUME NEW p \in Extracts(job, t) PROVE p \in DOMAIN fs
  <2>1. PICK r \in DOMAIN tree : job.outcome # "silent" /\ p = d \o r
    BY <1>4, <1>5, <1>6 DEF Extracts, TheChunk
  <2> QED BY <1>4, <2>1
<1>7. ASSUME NEW p \in Extracts(job, t)
      PROVE  p \in Paths /\ Under(p, CarveDir(job)) /\ p # d /\ p # job.src
  <2>1. /\ p \in Paths /\ Under(p, CarveDir(job)) /\ p # CarveDir(job)
        /\ Pieces(job.content) # 1 => p # ChunkPath(job, t) /\ p # Beside(ChunkPath(job, t))
    BY <1>2, <1>7, ExtractsFacts
  <2>2. CASE Whole(job)
    <3>1. job.src = job.task.path /\ d = CarveDir(job) /\ CarveDir(job) = Beside(job.task.path)
      BY <2>2 DEF Whole, CarveDir
    <3>2. ~ Under(job.task.path, Beside(job.task.path))
      BY <1>2, BesideFacts, UnderOrder
    <3> QED BY <2>1, <3>1, <3>2
  <2>3. CASE ~ Whole(job)
    BY <1>2, <1>3, <2>1, <2>3
  <2> QED BY <2>2, <2>3
<1> QED BY <1>2, <1>3, <1>4, <1>6, <1>7

\* Settling removes the chunk only when all of it is extracted, and a directory only when it is empty.
LEMMA SettleKept ==
  ASSUME IInv, NEW w \in Workers, SettleHere(w), JobKept(work[w], fs), OutcomeFor(work[w], fs)
  PROVE  \E j : KeepStep(w, j)
<1> DEFINE job == work[w]  d == Beside(job.src)  t == job.todo
           empty == Exists(d) /\ \A p \in DOMAIN fs : ~ Child(p, d)
           reported == IF job.outcome = "error" THEN Report(job, "ExtractError") ELSE job
           ts == <<SubTask(d, job.task.depth + 1)>>
           j == IF Exists(d) /\ ~ empty THEN Spawn(reported, ts) ELSE reported
           R == (IF empty THEN {d} ELSE {})
                \cup (IF ~ Whole(job) /\ job.outcome = "ok" /\ ~ config.keep THEN {job.src} ELSE {})
<1>1. /\ Busy(w) /\ job.pc = "settle" /\ job.pc \in FilePcs /\ fs' = Without(fs, R)
      /\ IF ShouldDelete(job) THEN Continue(w, [j EXCEPT !.pc = "delete"]) ELSE Advance(w, j)
  BY DEF SettleHere, Busy, FilePcs
<1>2. job \in Jobs /\ d \in Paths
  BY <1>1, OwnFile, TheTree
<1>3. /\ \A p \in Extracts(job, t) : p \in DOMAIN fs /\ p # d /\ p # job.src
      /\ job.outcome = TheChunk(job).result
      /\ Whole(job) <=> Pieces(job.content) = 1
      /\ job.content \in Files /\ job.task.path \in Paths /\ t \in 1..Len(Chunks(job.content))
      /\ ~ Whole(job) => job.src = ChunkPath(job, t) /\ job.src \in DOMAIN fs /\ fs[job.src] = "piece"
  BY <1>1, ChunkExtracts
<1>4. R \subseteq {d, job.src} /\ (job.src \in R => job.src = d \/ job.outcome = "ok")
  OBVIOUS
<1>5. j \in Jobs /\ Carries(j, job) /\ j.src = job.src /\ j.todo = t
  <2>1. \A x \in {reported, Spawn(reported, ts)} :
          x \in Jobs /\ x.outcome = job.outcome /\ x.src = job.src /\ x.todo = job.todo /\ x.content = job.content
    BY <1>2, SettledJob
  <2>2. j \in {reported, Spawn(reported, ts)}
    OBVIOUS
  <2>3. Carries(reported, job)
    BY <1>2, CarriesOn
  <2>4. Carries(Spawn(reported, ts), reported)
    <3>1. reported \in Jobs
      BY <2>1
    <3> HIDE DEF reported, ts
    <3> QED BY <3>1, CarriesOn
  <2> HIDE DEF reported, ts, j
  <2>5. Carries(j, job)
    BY <2>2, <2>3, <2>4 DEF Carries
  <2> QED BY <2>1, <2>2, <2>5
<1> HIDE DEF j, R
<1>6. j.task = job.task /\ j.content = job.content /\ ("OutputExists" \notin j.reports => "OutputExists" \notin job.reports)
  BY <1>5 DEF Carries
<1>7. Whole(j) <=> Whole(job)
  BY <1>5, <1>6 DEF Whole
<1>8. DOMAIN fs' = DOMAIN fs \ R /\ \A p \in DOMAIN fs' : fs'[p] = fs[p]
  BY <1>1 DEF Without
<1>9. CASE ShouldDelete(job)
  <2> DEFINE next == [j EXCEPT !.pc = "delete"]
  <2>1. Continue(w, next)
    BY <1>1, <1>9
  <2>2. Carries(next, j) /\ next.pc = "delete" /\ next.src = j.src
    BY <1>5, CarriesOn
  <2> HIDE DEF next
  <2>3. next.task = job.task /\ next.content = job.content /\ Carries(next, job)
    BY <1>5, <1>6, <2>2 DEF Carries
  <2>4. Whole(job)
    BY <1>9 DEF ShouldDelete
  <2>5. Single(next)
    BY <1>5, <2>2, <2>3, <2>4 DEF Single, Whole
  <2>6. JobKept(next, fs')
    BY <1>3, <2>2, <2>3, <2>4, <2>5 DEF JobKept
  <2> QED BY <2>1, <2>3, <2>6 DEF KeepStep
<1>10. CASE ~ ShouldDelete(job)
  <2>1. Advance(w, j)
    BY <1>1, <1>10
  <2>2. \A p \in Extracts(job, t) : p \in DOMAIN fs'
    BY <1>3, <1>4, <1>8
  <2>3. ASSUME ~ Whole(job)
        PROVE  /\ Ahead(job, t, fs')
               /\ \A p \in Lefts(job, t) : p \in DOMAIN fs' /\ fs'[p] = "piece"
               /\ "OutputExists" \notin job.reports => Held(job, t - 1, fs')
    <3>1. ~ Single(job) /\ job.src = ChunkPath(job, t) /\ Pieces(job.content) # 1
      BY <1>3, <2>3 DEF Single
    <3>2. Ahead(job, t, fs) /\ ("OutputExists" \notin job.reports => Held(job, t - 1, fs))
      BY <1>1, <3>1 DEF JobKept
    <3>3. Ahead(job, t, fs')
      BY <1>8, <3>2 DEF Ahead
    <3>4. \A p \in DOMAIN fs \ DOMAIN fs' : p = ChunkPath(job, t) \/ p = Beside(ChunkPath(job, t))
      BY <1>4, <1>8, <3>1
    <3>5. "OutputExists" \notin job.reports => Held(job, t - 1, fs')
      <4>1. \A p \in DOMAIN fs \cap DOMAIN fs' : fs'[p] = fs[p]
        BY <1>8
      <4> HIDE DEF t
      <4> QED BY <1>3, <3>1, <3>2, <3>4, <4>1, HeldOn
    <3>6. ASSUME NEW p \in Lefts(job, t) PROVE p \in DOMAIN fs' /\ fs'[p] = "piece"
      <4>1. p = job.src /\ job.outcome # "ok"
        BY <1>3, <3>1, <3>6 DEF Lefts, TheChunk
      <4>2. job.src # d
        BY <1>3, <3>1, PieceFacts
      <4> QED BY <1>3, <1>4, <1>8, <2>3, <4>1, <4>2
    <3> QED BY <3>3, <3>5, <3>6
  <2>4. "OutputExists" \notin job.reports => Held(job, t, fs')
    <3>1. CASE Whole(job)
      <4>1. Len(Chunks(job.content)) = 1 /\ t = 1 /\ Gaps(job) = {} /\ Lefts(job, 1) = {}
        <5>1. Pieces(job.content) = 1
          BY <1>3, <3>1
        <5> QED BY <1>3, <5>1, OneChunk DEF Gaps, Lefts
      <4>2. \A i \in 1..1 : i = 1
        OBVIOUS
      <4> QED BY <2>2, <4>1, <4>2 DEF Held
    <3>2. CASE ~ Whole(job)
      <4>1. t \in Nat \ {0}
        BY <1>2 DEF Jobs
      <4> HIDE DEF t
      <4> QED BY <2>2, <2>3, <3>2, <4>1, HeldMore
    <3> QED BY <3>1, <3>2
  <2>5. ~ Whole(j) => Ahead(j, j.todo, fs')
    BY <1>5, <1>6, <1>7, <2>3, Alike
  <2>6. "OutputExists" \notin j.reports => Held(j, j.todo, fs')
    BY <1>5, <1>6, <2>4, Alike
  <2>7. /\ j.content \in Files /\ j.task.path \in Paths /\ j.todo \in 1..Len(Chunks(j.content))
        /\ Whole(j) <=> Pieces(j.content) = 1
    BY <1>3, <1>5, <1>6, <1>7
  <2>8. Engaged(work[w])
    BY <1>1 DEF Engaged
  <2> QED BY <1>5, <2>1, <2>5, <2>6, <2>7, <2>8, AdvanceKept
<1> QED BY <1>9, <1>10

\* A file that is removed with --delete-extracted is extracted, and its result says that it is gone.
LEMMA DeleteKept ==
  ASSUME IInv, NEW w \in Workers, DeleteExtracted(w), JobKept(work[w], fs), OutcomeFor(work[w], fs)
  PROVE  \E j : KeepStep(w, j) /\ Return(w, j) /\ (work[w].src \in DOMAIN fs \ DOMAIN fs' => "Deleted" \in j.reports)
<1> DEFINE job == work[w]  r == Report(job, "Deleted")
<1>1. Busy(w) /\ job.pc = "delete" /\ job.pc \in FilePcs
  BY DEF DeleteExtracted, Busy, FilePcs
<1>2. job \in Jobs /\ Whole(job)
  BY <1>1, OwnFile DEF FileLocal
<1>3. /\ \A p \in Extracts(job, job.todo) : p \in DOMAIN fs /\ p # job.src
      /\ Whole(job) <=> Pieces(job.content) = 1
      /\ job.content \in Files /\ job.todo \in 1..Len(Chunks(job.content))
  BY <1>1, ChunkExtracts
<1>4. Carries(r, job) /\ Carries(job, job) /\ "Deleted" \in r.reports
  BY <1>2, CarriesOn
<1> HIDE DEF r
<1>5. \/ Return(w, r) /\ fs' = Without(fs, {job.src})
      \/ Return(w, job) /\ fs' = fs
  BY DEF DeleteExtracted, r
<1>6. DOMAIN fs \ {job.src} \subseteq DOMAIN fs'
  BY <1>5 DEF Without
<1>7. Held(job, Len(Chunks(job.content)), fs')
  <2>1. Len(Chunks(job.content)) = 1 /\ job.todo = 1 /\ Gaps(job) = {} /\ Lefts(job, 1) = {}
    <3>1. Pieces(job.content) = 1
      BY <1>2, <1>3
    <3> QED BY <1>3, <3>1, OneChunk DEF Gaps, Lefts
  <2>2. \A i \in 1..1 : i = 1
    OBVIOUS
  <2> QED BY <1>3, <1>6, <2>1, <2>2 DEF Held
<1>8. r.task = job.task /\ r.content = job.content
  BY <1>4 DEF Carries
<1>9. Held(r, Len(Chunks(r.content)), fs')
  BY <1>7, <1>8, Alike
<1>10. Engaged(work[w])
  BY <1>1 DEF Engaged
<1> QED BY <1>4, <1>5, <1>7, <1>9, <1>10 DEF KeepStep

\* A worker on a directory ends a step with the same task and content.
LEMMA DirCarries ==
  ASSUME IInv, NEW w \in Workers, DirHandlerHere(w) \/ ExtractMultiHere(w) \/ Iterate(w)
  PROVE  \E j : Ends(w, j) /\ j.task = work[w].task /\ j.content = work[w].content
<1> DEFINE job == work[w]
<1>1. Busy(w) /\ job.pc \in {"dir_handler", "multi"}
  BY DEF DirHandlerHere, ExtractMultiHere, Iterate, Busy
<1>2. job \in Jobs
  BY <1>1, OwnDir
<1>3. ASSUME NEW x, x \in Jobs \/ x = job, NEW y PROVE Spawn(x, y).task = x.task /\ Spawn(x, y).content = x.content
  BY <1>2, <1>3, CarriesOn DEF Carries
<1>4. CASE Iterate(w)
  <2>1. PICK s : Return(w, Spawn(job, s))
    BY <1>4 DEF Iterate
  <2> QED BY <1>3, <2>1 DEF Ends
<1>5. CASE DirHandlerHere(w)
  <2>1. \/ Continue(w, [job EXCEPT !.todo = @ + 1])
        \/ Return(w, Report(job, "MultiFileCollision"))
        \/ Return(w, Report(job, "MultiOutputExists"))
        \/ Continue(w, [job EXCEPT !.pc = "multi", !.extract_dir = MultiHere(job)])
    BY <1>5 DEF DirHandlerHere
  <2>2. ASSUME NEW x, x \in {[job EXCEPT !.todo = @ + 1], Report(job, "MultiFileCollision"),
                             Report(job, "MultiOutputExists"),
                             [job EXCEPT !.pc = "multi", !.extract_dir = MultiHere(job)]}
        PROVE  x.task = job.task /\ x.content = job.content
    BY <1>2, <2>2 DEF Jobs, Report
  <2> QED BY <2>1, <2>2 DEF Ends
<1>6. CASE ExtractMultiHere(w)
  <2> DEFINE reported == IF Handler(job).result = "error" THEN Report(job, "MultiError") ELSE job
             S == Parts(job)
             next == [reported EXCEPT !.processed = @ \cup S, !.todo = @ + 1, !.pc = "dir_handler"]
             d == MultiHere(job)
             more == [next EXCEPT !.extract_dirs = @ \cup {d}]
             last == Spawn(more, <<SubTask(d, job.task.depth + 1)>>)
  <2>1. Continue(w, last) \/ Continue(w, next)
    BY <1>6 DEF ExtractMultiHere
  <2>2. reported.task = job.task /\ reported.content = job.content
    BY <1>2 DEF Report, Jobs
  <2>3. DOMAIN reported = DOMAIN job
    BY DEF Report
  <2>4. DOMAIN job = {"task", "content", "pc", "todo", "src", "carve_dir",
                  "extract_dir", "outcome", "subtasks", "reports", "processed", "extract_dirs"}
    BY <1>2 DEF Jobs
  <2> HIDE DEF reported, S
  <2>5. next.task = job.task /\ next.content = job.content /\ DOMAIN next = DOMAIN reported
    BY <2>2, <2>3, <2>4, Zenon
  <2> HIDE DEF next
  <2>6. more.task = job.task /\ more.content = job.content /\ DOMAIN more = DOMAIN next
    BY <2>3, <2>4, <2>5
  <2> HIDE DEF more
  <2>7. last.task = job.task /\ last.content = job.content
    BY <2>3, <2>4, <2>5, <2>6 DEF Spawn
  <2> HIDE DEF last
  <2> QED BY <2>1, <2>5, <2>7 DEF Ends
<1> QED BY <1>4, <1>5, <1>6

\* What is done is out of reach of every worker.
LEMMA DoneOutside ==
  ASSUME IInv, NEW w \in Workers, Busy(w), NEW d, Done(d)
  PROVE  ~ InRegion(w, d)
<1> SUFFICES ASSUME InRegion(w, d) PROVE FALSE
  OBVIOUS
<1>1. TypeOK /\ Unique /\ RegionInv
  BY DEF IInv
<1>2. d = Path(w) \/ Sub(w, d)
  BY <1>1, TaskedTypes DEF RegionInv
<1>3. PICK k, x, i : k \in {"out", "res"} /\ At(k, x, i, d)
  BY DEF Done
<1>4. d = Path(w) => At("work", w, 0, d)
  BY DEF At, Path, Busy
<1>5. \E l, y, j : l \in {"work", "sub"} /\ At(l, y, j, d)
  BY <1>2, <1>4 DEF Sub
<1> QED BY <1>1, <1>3, <1>5 DEF Unique

\* A file that was removed had its task.
LEMMA DeletedDone ==
  ASSUME TypeOK, NEW p, Deleted(p)
  PROVE  Done(p)
BY FinishedDone DEF Deleted

\* An entry is in one directory.
LEMMA OneParent ==
  ASSUME NEW p \in Paths, NEW a \in Paths, NEW b \in Paths, Child(p, a), Child(p, b)
  PROVE  a = b
<1>1. Under(a, b) /\ Under(b, a)
  BY ChildFacts
<1> QED BY <1>1, UnderOrder

\* What a step removes.
LEMMA Removes ==
  ASSUME NEW w \in Workers, WorkHere(w), NEW p \in DOMAIN fs \ DOMAIN fs'
  PROVE  /\ Busy(w) /\ work[w].pc \in {"settle", "delete"}
         /\ \/ SettleHere(w) /\ p = Beside(work[w].src)
            \/ SettleHere(w) /\ ~ Whole(work[w]) /\ p = work[w].src
            \/ DeleteExtracted(w) /\ p = work[w].src
<1> DEFINE job == work[w]
<1>1. CASE SettleHere(w)
  BY <1>1 DEF SettleHere, Without, Busy
<1>2. CASE DeleteExtracted(w)
  BY <1>2 DEF DeleteExtracted, Without, Busy
<1>3. ASSUME NEW S, NEW node, fs' = With(fs, S, node) PROVE FALSE
  BY <1>3 DEF With
<1>4. ASSUME NEW x, NEW tree, fs' = WithTree(fs, x, tree) PROVE FALSE
  BY <1>4 DEF WithTree
<1>5. CASE CarveUnknownHere(w) \/ CarveChunkHere(w)
  <2>1. PICK files, next : CarveHere(w, job, files, next)
    BY <1>5 DEF CarveUnknownHere, CarveChunkHere
  <2> DEFINE g == With(fs, IF files = {} THEN {} ELSE {CarveDir(job)}, "dir")
  <2>2. fs' = fs \/ fs' = With(g, files, "piece")
    BY <2>1 DEF CarveHere
  <2>3. DOMAIN fs \subseteq DOMAIN g
    BY DEF With
  <2> HIDE DEF g
  <2>4. fs' = With(g, files, "piece") => DOMAIN g \subseteq DOMAIN fs'
    BY DEF With
  <2> QED BY <2>2, <2>3, <2>4
<1>6. CASE MakeDirHere(w) \/ DirHandlerHere(w)
  <2>1. fs' = fs \/ \E S, node : fs' = With(fs, S, node)
    BY <1>6 DEF MakeDirHere, DirHandlerHere
  <2> QED BY <1>3, <2>1
<1>7. CASE ExtractHere(w) \/ ExtractMultiHere(w)
  <2>1. fs' = fs \/ \E x, tree : fs' = WithTree(fs, x, tree)
    BY <1>7 DEF ExtractHere, ExtractMultiHere
  <2> QED BY <1>4, <2>1
<1>8. CASE TakeTaskHere(w) \/ CheckDirHere(w) \/ Iterate(w)
  <2>1. fs' = fs
    BY <1>8 DEF TakeTaskHere, CheckDirHere, Iterate
  <2> QED BY <2>1
<1> QED BY <1>1, <1>2, <1>5, <1>6, <1>7, <1>8 DEF WorkHere

\* Where a worker is after a step.
LEMMA OwnNext ==
  ASSUME IInv, IInv', NEW w \in Workers, WorkHere(w), ~ TakeTaskHere(w), StepOK(w), Busy(w)',
         work[w].pc \in FilePcs => JobKept(work[w], fs)
  PROVE  \/ work'[w].pc \notin {"check", "mkdir", "extract", "settle"}
         \/ /\ work[w].pc \in {"mkdir", "extract"} /\ work'[w].src = work[w].src
            /\ work'[w].task = work[w].task
         \/ /\ work[w].pc = "check" /\ work'[w].pc \in {"mkdir", "settle"} /\ work'[w].src = work[w].src
            /\ work'[w].task = work[w].task /\ Beside(work[w].src) \notin DOMAIN fs
         \/ /\ work[w].pc = "carve" /\ work'[w].pc = "check"
            /\ work'[w].src = ChunkPath(work[w], work[w].todo) /\ work'[w].src \notin DOMAIN fs
<1> DEFINE job == work[w]
<1>1. Busy(w) /\ TypeOK /\ work \in [Workers -> Jobs \cup {Idle}] /\ job \in Jobs /\ work'[w] # Idle
  BY TaskedTypes DEF StepOK, IInv, TypeOK, Busy
<1>2. ASSUME NEW j, Continue(w, j) PROVE work'[w] = j
  BY <1>1, <1>2 DEF Continue
<1>3. ASSUME NEW j, Return(w, j) PROVE FALSE
  BY <1>1, <1>3 DEF Return
<1>4. CASE CarveUnknownHere(w)
  <2> DEFINE next == [job EXCEPT !.pc = "carve"]
  <2>1. Return(w, Report(job, "UnknownError")) \/ Continue(w, next)
    BY <1>4 DEF CarveUnknownHere, CarveHere
  <2>2. next.pc = "carve"
    BY <1>1 DEF Jobs
  <2> HIDE DEF next
  <2> QED BY <1>2, <1>3, <2>1, <2>2
<1>5. CASE CarveChunkHere(w)
  <2> DEFINE q == ChunkPath(job, job.todo)
             next == [job EXCEPT !.pc = "check", !.src = q]
  <2>1. job.pc = "carve" /\ (Return(w, Report(job, "UnknownError")) \/ Continue(w, next))
    BY <1>5 DEF CarveChunkHere, CarveHere
  <2>2. q \notin DOMAIN fs
    BY <1>5, <2>1, CarveChunkKept DEF FilePcs
  <2> HIDE DEF q
  <2>3. next.pc = "check" /\ next.src = q
    BY <1>1, Zenon DEF Jobs
  <2> HIDE DEF next
  <2> QED BY <1>2, <1>3, <2>1, <2>2, <2>3 DEF q
<1>6. CASE CheckDirHere(w)
  <2>1. CASE Exists(Beside(job.src))
    <3> DEFINE j == Report(job, "OutputExists")
    <3>1. Advance(w, j)
      BY <1>6, <2>1 DEF CheckDirHere
    <3>2. j \in Jobs
      <4>1. "OutputExists" \in Reports
        BY DEF Reports
      <4> QED BY <1>1, <4>1, JobReport
    <3> HIDE DEF j
    <3>3. work'[w].pc = "carve"
      BY <1>1, <3>1, <3>2, AdvancePc
    <3> QED BY <3>3
  <2>2. CASE ~ Exists(Beside(job.src))
    <3> DEFINE r == TheChunk(job).result
               pc == IF r = "silent" THEN "settle" ELSE "mkdir"
               e == Beside(job.src)
               j == [job EXCEPT !.outcome = r, !.extract_dir = e, !.pc = pc]
    <3>1. Continue(w, j) /\ job.pc = "check"
      BY <1>6, <2>2 DEF CheckDirHere
    <3>2. pc \in {"settle", "mkdir"}
      OBVIOUS
    <3> HIDE DEF r, pc, e
    <3>3. Carries(j, job) /\ j.pc = pc /\ j.src = job.src
      <4>1. j = WithOutcome(job, r, e, pc)
        BY DEF WithOutcome
      <4> HIDE DEF j
      <4> QED BY <1>1, <4>1, CarriesOutcome
    <3> HIDE DEF j
    <3> QED BY <1>2, <2>2, <3>1, <3>2, <3>3 DEF Exists, Carries
  <2> QED BY <2>1, <2>2
<1>7. CASE MakeDirHere(w) \/ ExtractHere(w)
  <2>1. job.pc \in {"mkdir", "extract"} /\ \E pc : \/ Continue(w, [job EXCEPT !.pc = pc])
                                                   \/ Continue(w, [job EXCEPT !.outcome = "error", !.pc = pc])
    BY <1>7 DEF MakeDirHere, ExtractHere
  <2>2. PICK pc : \/ Continue(w, [job EXCEPT !.pc = pc])
                  \/ Continue(w, [job EXCEPT !.outcome = "error", !.pc = pc])
    BY <2>1
  <2> DEFINE a == [job EXCEPT !.pc = pc]  b == [job EXCEPT !.outcome = "error", !.pc = pc]
  <2>3. a.src = job.src /\ a.task = job.task
    BY <1>1, Zenon DEF Jobs
  <2>4. b.src = job.src /\ b.task = job.task
    BY <1>1, Zenon DEF Jobs
  <2>5. Continue(w, a) \/ Continue(w, b)
    BY <2>2
  <2> HIDE DEF a, b
  <2> QED BY <1>2, <2>1, <2>3, <2>4, <2>5
<1>8. CASE SettleHere(w)
  <2> DEFINE d == Beside(job.src)
             empty == Exists(d) /\ \A p \in DOMAIN fs : ~ Child(p, d)
             reported == IF job.outcome = "error" THEN Report(job, "ExtractError") ELSE job
             ts == <<SubTask(d, job.task.depth + 1)>>
             j == IF Exists(d) /\ ~ empty THEN Spawn(reported, ts) ELSE reported
  <2>1. Continue(w, [j EXCEPT !.pc = "delete"]) \/ Advance(w, j)
    BY <1>8 DEF SettleHere
  <2>2. d \in Paths
    <3>1. job.pc \in FilePcs
      BY <1>8 DEF SettleHere, FilePcs
    <3> QED BY <1>1, <3>1, TheTree
  <2>3. \A x \in {reported, Spawn(reported, ts)} : x \in Jobs
    BY <1>1, <2>2, SettledJob
  <2>4. j \in Jobs
    BY <2>3
  <2> HIDE DEF j
  <2>5. CASE Advance(w, j)
    BY <1>1, <2>4, <2>5, AdvancePc
  <2>6. CASE Continue(w, [j EXCEPT !.pc = "delete"])
    <3>1. [j EXCEPT !.pc = "delete"].pc = "delete"
      BY <2>4 DEF Jobs
    <3> QED BY <1>2, <2>6, <3>1
  <2> QED BY <2>1, <2>5, <2>6
<1>9. CASE DeleteExtracted(w)
  BY <1>3, <1>9 DEF DeleteExtracted
<1>10. CASE DirHandlerHere(w) \/ ExtractMultiHere(w) \/ Iterate(w)
  <2>1. job.pc \notin FilePcs
    BY <1>10 DEF DirHandlerHere, ExtractMultiHere, Iterate, FilePcs
  <2>2. work'[w].pc \notin FilePcs
    BY <2>1, DirStays
  <2> QED BY <2>2 DEF FilePcs
<1> QED BY <1>4, <1>5, <1>6, <1>7, <1>8, <1>9, <1>10 DEF WorkHere

\* Every step of a worker on a file keeps what it has carved and extracted.
LEMMA StepKept ==
  ASSUME IInv, NEW w \in Workers, WorkHere(w), ~ TakeTaskHere(w), work[w].pc \in FilePcs,
         JobKept(work[w], fs), OutcomeFor(work[w], fs)
  PROVE  \E j : /\ KeepStep(w, j)
                /\ DeleteExtracted(w) /\ work[w].src \in DOMAIN fs \ DOMAIN fs' =>
                     Return(w, j) /\ "Deleted" \in j.reports
<1>1. CASE DeleteExtracted(w)
  BY <1>1, DeleteKept
<1>2. CASE ~ DeleteExtracted(w)
  <2> SUFFICES \E j : KeepStep(w, j)
    BY <1>2
  <2>1. CASE CarveUnknownHere(w)
    BY <2>1, CarveUnknownKept
  <2>2. CASE CarveChunkHere(w)
    BY <2>2, CarveChunkKept
  <2>3. CASE CheckDirHere(w)
    BY <2>3, CheckDirKept
  <2>4. CASE MakeDirHere(w)
    BY <2>4, MakeDirKept
  <2>5. CASE ExtractHere(w)
    BY <2>5, ExtractKept
  <2>6. CASE SettleHere(w)
    BY <2>6, SettleKept
  <2>7. CASE DirHandlerHere(w) \/ ExtractMultiHere(w) \/ Iterate(w)
    BY <2>7 DEF DirHandlerHere, ExtractMultiHere, Iterate, FilePcs
  <2> QED BY <1>2, <2>1, <2>2, <2>3, <2>4, <2>5, <2>6, <2>7 DEF WorkHere
<1> QED BY <1>1, <1>2

\* A step removes nothing of what a task that has ended left, but a file that it reports.
LEMMA RemovesOwn ==
  ASSUME IInv, OutcomeInv, OwnInv, SafeInv, NEW w \in Workers, WorkHere(w), NEW p \in DOMAIN fs \ DOMAIN fs',
         NEW r, Finished(r), Processed(r)
  PROVE  /\ p \notin Gaps(r) /\ \A i \in 1..Len(Chunks(r.content)) : p \notin Lefts(r, i)
         /\ \A i \in 1..Len(Chunks(r.content)) : p \in Extracts(r, i) => DeleteExtracted(w) /\ p = work[w].src
<1> DEFINE job == work[w]  d == Beside(job.src)
<1>1. /\ Busy(w) /\ job.pc \in {"settle", "delete"} /\ job.pc \in FilePcs
      /\ \/ SettleHere(w) /\ p = d
         \/ SettleHere(w) /\ ~ Whole(job) /\ p = job.src
         \/ DeleteExtracted(w) /\ p = job.src
  BY Removes DEF FilePcs
<1>2. /\ TypeOK /\ FileLocal(w) /\ Local(w) /\ job.task.path = Path(w) /\ Path(w) \in Paths /\ job.content \in Files
      /\ fs[Path(w)] = job.content /\ job.content # "piece"
  <2>1. Files \cap {"piece", "dir", "special"} = {}
    BY ProcessingAssumption
  <2> QED BY <1>1, <2>1, OwnFile DEF FileLocal
<1>3. OutcomeFor(job, fs)
  BY <1>1 DEF OutcomeInv
<1>4. r.task.path \in Paths /\ Done(r.task.path) /\ r.content \in Files /\ Safe(r)
  BY <1>2, FinishedDone DEF Processed, SafeInv
<1>5. r.task.path # Path(w)
  BY <1>1, <1>2, <1>4, DoneOutside, RegionMembers
<1>6. ASSUME fs[p] # "piece" PROVE p \notin Gaps(r) /\ \A i \in 1..Len(Chunks(r.content)) : p \notin Lefts(r, i)
  BY <1>4, <1>6 DEF Safe
<1>7. CASE SettleHere(w) /\ p = d
  <2>1. job.pc = "settle"
    BY <1>7 DEF SettleHere
  <2>2. fs[p] = "dir"
    BY <1>3, <1>7, <2>1 DEF OutcomeFor
  <2>3. \A i \in 1..Len(Chunks(r.content)) : p \notin Extracts(r, i)
    BY <1>1, <1>7, <2>1 DEF OwnInv
  <2> QED BY <1>6, <2>2, <2>3
<1>8. CASE SettleHere(w) /\ ~ Whole(job) /\ p = job.src
  <2>1. job.pc = "settle"
    BY <1>8 DEF SettleHere
  <2>2. \A i \in 1..Len(Chunks(r.content)) : p \notin Extracts(r, i)
    BY <1>1, <1>8, <2>1 DEF OwnInv
  <2>3. CarveDir(job) \in Paths /\ CarveDir(job) = Beside(Path(w)) /\ Child(p, CarveDir(job)) /\ p \in Paths
    BY <1>1, <1>2, <1>8, <2>1, RegionMembers DEF InRegion
  <2>4. CarveDir(r) \in Paths /\ CarveDir(r) = Beside(r.task.path)
    BY <1>4, PieceFacts DEF CarveDir
  <2>5. ~ Child(p, CarveDir(r))
    <3> SUFFICES ASSUME Child(p, CarveDir(r)) PROVE FALSE
      OBVIOUS
    <3>1. CarveDir(r) = CarveDir(job)
      BY <2>3, <2>4, OneParent
    <3> QED BY <1>2, <1>4, <1>5, <2>3, <2>4, <3>1, BesideFacts
  <2>6. p \notin Gaps(r)
    BY <1>4, <2>5, PieceFacts DEF Gaps
  <2>7. \A i \in 1..Len(Chunks(r.content)) : p \notin Lefts(r, i)
    BY <1>4, <2>5, PieceFacts DEF Lefts
  <2> QED BY <2>2, <2>6, <2>7
<1>9. CASE DeleteExtracted(w) /\ p = job.src
  <2>1. job.pc = "delete"
    BY <1>9 DEF DeleteExtracted
  <2>2. p = Path(w)
    BY <1>2, <1>9, <2>1 DEF FileLocal, Whole
  <2> QED BY <1>2, <1>6, <1>9, <2>2
<1> QED BY <1>1, <1>7, <1>8, <1>9

\* What a step of a worker adds to the results, and where it leaves the worker.
LEMMA StepResults ==
  ASSUME IInv, IInv', OutcomeInv, KeptInv, NEW w \in Workers, WorkHere(w), ~ TakeTaskHere(w), StepOK(w)
  PROVE  /\ \A r : Finished(r) => Finished(r)'
         /\ \A r : Finished(r)' /\ ~ Finished(r) /\ Processed(r) =>
              /\ Engaged(work[w]) /\ r.task = work[w].task /\ r.content = work[w].content
              /\ Held(r, Len(Chunks(r.content)), fs')
         /\ Busy(w)' => \A r : Finished(r)' => Finished(r)
         /\ Busy(w)' => IF work'[w].pc \in FilePcs THEN JobKept(work'[w], fs') ELSE work'[w].content = "dir"
         /\ \A p \in DOMAIN fs \ DOMAIN fs' : DeleteExtracted(w) /\ p = work[w].src => Deleted(p)'
<1> DEFINE job == work[w]
<1>1. Busy(w) /\ TypeOK /\ results' = results
  BY DEF IInv, StepOK
<1>2. CASE job.pc \in FilePcs
  <2>1. JobKept(job, fs) /\ OutcomeFor(job, fs)
    BY <1>1, <1>2 DEF KeptInv, OutcomeInv
  <2>2. PICK j : /\ KeepStep(w, j)
                 /\ DeleteExtracted(w) /\ job.src \in DOMAIN fs \ DOMAIN fs' =>
                      Return(w, j) /\ "Deleted" \in j.reports
    BY <1>2, <2>1, StepKept
  <2>3. Ends(w, j) /\ j.task = job.task /\ j.content = job.content
    BY <2>2 DEF KeepStep, Ends, Carries
  <2>4. /\ Return(w, j) => work'[w] = Idle /\ ResultOfJob(j) \in TaskResults
        /\ Continue(w, j) => work'[w] = j /\ Busy(w)' /\ outbox' = outbox
    BY <1>1, <2>3, StepEnds
  <2>5. ResultOfJob(j).task = job.task /\ ResultOfJob(j).content = job.content /\ ResultOfJob(j).reports = j.reports
    BY <2>3 DEF ResultOfJob
  <2>6. CASE Continue(w, j)
    <3>1. \A r : Finished(r)' <=> Finished(r)
      BY <1>1, <2>4, <2>6, StepFinished
    <3>2. ~ Return(w, j)
      BY <2>4, <2>6 DEF Busy
    <3>3. JobKept(work'[w], fs') /\ work'[w].pc \in FilePcs
      BY <1>2, <2>2, <2>4, <2>6, <3>2, FileStays DEF KeepStep
    <3> QED BY <2>2, <3>1, <3>2, <3>3
  <2>7. CASE Return(w, j)
    <3> DEFINE x == ResultOfJob(j)
    <3>1. \A r : Finished(r)' <=> Finished(r) \/ r = x
      BY <1>1, <2>4, <2>7, StepFinished
    <3>2. ~ Busy(w)' /\ ~ Continue(w, j)
      BY <2>4, <2>7 DEF Busy
    <3>3. x.task = job.task /\ x.content = job.content /\ x.reports = j.reports
      BY <2>5
    <3> HIDE DEF x
    <3>4. Processed(x) => Processed(j)
      BY <2>3, <3>3 DEF Processed
    <3>5. Processed(x) => Engaged(job) /\ Held(j, Len(Chunks(j.content)), fs')
      BY <2>2, <3>2, <3>4 DEF KeepStep
    <3>6. Held(j, Len(Chunks(j.content)), fs') => Held(x, Len(Chunks(x.content)), fs')
      BY <2>3, <3>3, Alike
    <3>7. ASSUME NEW p \in DOMAIN fs \ DOMAIN fs', DeleteExtracted(w), p = job.src PROVE Deleted(p)'
      <4>1. "Deleted" \in x.reports /\ Finished(x)'
        BY <2>2, <3>1, <3>3, <3>7
      <4>2. job.src = job.task.path
        BY <1>1, <1>2, <3>7, OwnFile DEF DeleteExtracted, FileLocal, Whole
      <4> QED BY <3>3, <3>7, <4>1, <4>2 DEF Deleted
    <3> QED BY <3>1, <3>2, <3>3, <3>5, <3>6, <3>7
  <2> QED BY <2>3, <2>6, <2>7 DEF Ends
<1>3. CASE job.pc \notin FilePcs
  <2>1. DirHandlerHere(w) \/ ExtractMultiHere(w) \/ Iterate(w)
    BY <1>3 DEF WorkHere, CarveUnknownHere, CarveChunkHere, CheckDirHere, MakeDirHere, ExtractHere, SettleHere, DeleteExtracted, FilePcs
  <2>2. ~ DeleteExtracted(w)
    BY <1>3 DEF DeleteExtracted, FilePcs
  <2>3. job.content = "dir" /\ "dir" \notin Files
    BY <1>1, <1>3, ProcessingAssumption DEF KeptInv
  <2>4. PICK j : Ends(w, j) /\ j.task = job.task /\ j.content = job.content
    BY <2>1, DirCarries
  <2>5. /\ Return(w, j) => work'[w] = Idle /\ ResultOfJob(j) \in TaskResults
        /\ Continue(w, j) => work'[w] = j /\ Busy(w)' /\ outbox' = outbox
    BY <1>1, <2>4, StepEnds
  <2>6. ~ Processed(ResultOfJob(j))
    <3>1. ResultOfJob(j).content = "dir"
      BY <2>3, <2>4 DEF ResultOfJob
    <3> QED BY <2>3, <3>1 DEF Processed
  <2>7. Busy(w)' => work'[w].pc \notin FilePcs
    BY <1>3, DirStays
  <2>8. CASE Continue(w, j)
    <3>1. \A r : Finished(r)' <=> Finished(r)
      BY <1>1, <2>5, <2>8, StepFinished
    <3> QED BY <2>2, <2>3, <2>4, <2>5, <2>7, <2>8, <3>1
  <2>9. CASE Return(w, j)
    <3>1. \A r : Finished(r)' <=> Finished(r) \/ r = ResultOfJob(j)
      BY <1>1, <2>5, <2>9, StepFinished
    <3>2. ~ Busy(w)'
      BY <2>5, <2>9 DEF Busy
    <3> HIDE DEF ResultOfJob
    <3> QED BY <2>2, <2>6, <3>1, <3>2
  <2> QED BY <2>4, <2>8, <2>9 DEF Ends
<1> QED BY <1>2, <1>3

\* A step keeps what every worker has carved and extracted.
LEMMA StepKeeps ==
  ASSUME IInv, IInv', OutcomeInv, KeptInv, NEW w \in Workers, WorkHere(w), ~ TakeTaskHere(w), StepOK(w)
  PROVE  KeptInv'
<1>1. Busy(w) /\ TypeOK /\ Unique /\ RegionInv
  BY DEF IInv, StepOK
<1>2. PICK new : Effect(w, new) /\ (Goes(w, new) \/ Returns(w, new))
  BY DEF StepOK
<1>3. ASSUME NEW v \in Workers, v # w, Busy(v)'
      PROVE  IF work'[v].pc \in FilePcs THEN JobKept(work'[v], fs') ELSE work'[v].content = "dir"
  <2>1. work'[v] = work[v] /\ Busy(v)
    BY <1>1, <1>2, <1>3, StepMoves DEF StepOK, Busy
  <2>2. \A p : InRegion(v, p) => Same(fs, fs', p)
    BY <1>1, <1>2, <1>3, <2>1, WorkersApart DEF Effect
  <2> QED BY <2>1, <2>2, KeptFrame DEF KeptInv
<1>4. Busy(w)' => IF work'[w].pc \in FilePcs THEN JobKept(work'[w], fs') ELSE work'[w].content = "dir"
  BY StepResults
<1> QED BY <1>3, <1>4 DEF KeptInv

\* A step keeps what the tasks that have ended left.
LEMMA StepSafe ==
  ASSUME IInv, IInv', OutcomeInv, LostInv, NEW w \in Workers, WorkHere(w), ~ TakeTaskHere(w), StepOK(w)
  PROVE  SafeInv'
<1>1. /\ \A r : Finished(r) => Finished(r)'
      /\ \A r : Finished(r)' /\ ~ Finished(r) /\ Processed(r) => Held(r, Len(Chunks(r.content)), fs')
      /\ \A p \in DOMAIN fs \ DOMAIN fs' : DeleteExtracted(w) /\ p = work[w].src => Deleted(p)'
  BY StepResults DEF LostInv
<1>2. \A p : Deleted(p) => Deleted(p)'
  BY <1>1 DEF Deleted
<1>3. config' = config /\ \A p \in DOMAIN fs \cap DOMAIN fs' : fs'[p] = fs[p]
  BY DEF StepOK, host, Effect
<1>4. \A r : Processed(r)' <=> Processed(r)
  BY <1>3 DEF Processed
<1>5. ASSUME NEW r, Finished(r), Processed(r) PROVE Safe(r)'
  <2>1. Safe(r) /\ KeptInv /\ OwnInv /\ SafeInv
    BY <1>5 DEF LostInv, SafeInv
  <2>2. ASSUME NEW p \in DOMAIN fs \ DOMAIN fs'
        PROVE  /\ p \notin Gaps(r) /\ \A i \in 1..Len(Chunks(r.content)) : p \notin Lefts(r, i)
               /\ \A i \in 1..Len(Chunks(r.content)) : p \in Extracts(r, i) => Deleted(p)'
    BY <1>1, <1>5, <2>1, <2>2, RemovesOwn
  <2>3. \A p \in Gaps(r) : p \in DOMAIN fs' /\ fs'[p] = "piece"
    BY <1>3, <2>1, <2>2 DEF Safe
  <2>4. \A i \in 1..Len(Chunks(r.content)) : \A p \in Lefts(r, i) : p \in DOMAIN fs' /\ fs'[p] = "piece"
    BY <1>3, <2>1, <2>2 DEF Safe
  <2>5. ASSUME NEW i \in 1..Len(Chunks(r.content)), NEW p \in Extracts(r, i) PROVE p \in DOMAIN fs' \/ Deleted(p)'
    BY <1>2, <2>1, <2>2 DEF Safe
  <2> QED BY <2>3, <2>4, <2>5 DEF Safe
<1>6. ASSUME NEW r, Finished(r)', ~ Finished(r), Processed(r) PROVE Safe(r)'
  <2>1. Held(r, Len(Chunks(r.content)), fs')
    BY <1>1, <1>6
  <2> QED BY <2>1 DEF Held, Safe
<1> QED BY <1>4, <1>5, <1>6 DEF SafeInv

\* After a step, what a worker may remove is still nothing that another one has extracted.
LEMMA StepOwn ==
  ASSUME IInv, IInv', OutcomeInv, LostInv, NEW w \in Workers, WorkHere(w), ~ TakeTaskHere(w), StepOK(w)
  PROVE  OwnInv'
<1>1. Busy(w) /\ TypeOK /\ Unique /\ RegionInv /\ LocalInv /\ config' = config
  BY DEF IInv, StepOK, host
<1>2. PICK new : Effect(w, new) /\ (Goes(w, new) \/ Returns(w, new))
  BY DEF StepOK
<1>3. KeptInv /\ SafeInv /\ OwnInv
  BY DEF LostInv
<1>4. /\ \A r : Finished(r)' /\ ~ Finished(r) /\ Processed(r) =>
            Engaged(work[w]) /\ r.task = work[w].task /\ r.content = work[w].content
      /\ Busy(w)' => \A r : Finished(r)' => Finished(r)
  BY <1>3, StepResults
<1>5. \A r : Processed(r)' <=> Processed(r)
  BY <1>1 DEF Processed
<1> SUFFICES ASSUME NEW v \in Workers, Busy(v)', NEW r, Finished(r)', Processed(r),
                    NEW i \in 1..Len(Chunks(r.content))
             PROVE  /\ work'[v].pc \in {"mkdir", "extract", "settle"} => Beside(work'[v].src) \notin Extracts(r, i)
                    /\ work'[v].pc \in {"check", "mkdir", "extract", "settle"} /\ ~ Whole(work'[v]) =>
                         work'[v].src \notin Extracts(r, i)
  BY <1>5 DEF OwnInv
<1>6. CASE v # w
  <2>1. work'[v] = work[v] /\ Busy(v)
    BY <1>1, <1>2, <1>6, StepMoves DEF StepOK, Busy
  <2>2. CASE Finished(r)
    BY <1>3, <2>1, <2>2 DEF OwnInv
  <2>3. CASE ~ Finished(r)
    <3>1. Engaged(work[w]) /\ r.task = work[w].task /\ r.content = work[w].content /\ r.content \in Files
      BY <1>4, <2>3 DEF Processed
    <3>2. CarveDir(r) = CarveDir(work[w]) /\ r.task.path \in Paths
      BY <1>1, <3>1, TaskedTypes DEF CarveDir, Path
    <3>3. \A p \in Extracts(r, i) : InRegion(w, p)
      BY <3>1, <3>2, ExtractsFacts DEF InRegion
    <3>4. /\ work[v].pc \in {"check", "mkdir", "extract", "settle"} /\ ~ Whole(work[v]) => InRegion(v, work[v].src)
          /\ work[v].pc \in {"mkdir", "extract", "settle"} => InRegion(v, Beside(work[v].src))
      BY <1>1, <2>1, RegionMembers DEF LocalInv
    <3> QED BY <1>1, <1>6, <2>1, <3>3, <3>4, WorkersApart
  <2> QED BY <2>2, <2>3
<1>7. CASE v = w
  <2>1. Finished(r) /\ Safe(r)
    BY <1>3, <1>4, <1>7 DEF SafeInv
  <2>2. ASSUME NEW p, p \in Extracts(r, i), p \notin DOMAIN fs PROVE Done(p) /\ ~ InRegion(w, p)
    <3>1. Deleted(p)
      BY <2>1, <2>2 DEF Safe
    <3> QED BY <1>1, <3>1, DeletedDone, DoneOutside
  <2>3. work[w].pc \in FilePcs => JobKept(work[w], fs)
    BY <1>1, <1>3 DEF KeptInv
  <2>4. CASE work'[w].pc \notin {"check", "mkdir", "extract", "settle"}
    BY <1>7, <2>4
  <2>5. CASE work[w].pc \in {"mkdir", "extract"} /\ work'[w].src = work[w].src /\ work'[w].task = work[w].task
    <3>1. Whole(work'[w]) <=> Whole(work[w])
      BY <2>5 DEF Whole
    <3> QED BY <1>1, <1>3, <1>7, <2>1, <2>5, <3>1 DEF OwnInv
  <2>6. CASE /\ work[w].pc = "check" /\ work'[w].pc \in {"mkdir", "settle"} /\ work'[w].src = work[w].src
             /\ work'[w].task = work[w].task /\ Beside(work[w].src) \notin DOMAIN fs
    <3> DEFINE d == Beside(work[w].src)
    <3>1. Whole(work'[w]) <=> Whole(work[w])
      BY <2>6 DEF Whole
    <3>2. ~ Whole(work[w]) => work[w].src \notin Extracts(r, i)
      BY <1>1, <1>3, <2>1, <2>6 DEF OwnInv
    <3>3. d \notin Extracts(r, i)
      <4> SUFFICES ASSUME NEW p, p = d, p \in Extracts(r, i) PROVE FALSE
        OBVIOUS
      <4>1. Done(p) /\ ~ InRegion(w, p)
        BY <2>2, <2>6
      <4>2. Tasked(p)
        BY <4>1 DEF Done, Tasked
      <4>3. CarveDir(work[w]) \in Paths /\ CarveDir(work'[w]) = CarveDir(work[w])
        BY <1>1, <2>6, RegionMembers DEF LocalInv, CarveDir
      <4>4. p \in Paths /\ Under(p, CarveDir(work[w]))
        <5>1. CASE Whole(work[w])
          BY <4>3, <5>1, UnderOrder DEF Whole, CarveDir
        <5>2. CASE ~ Whole(work[w])
          <6>1. Child(d, CarveDir(work[w])) /\ work[w].src \in Paths
            BY <1>1, <2>6, <5>2, RegionMembers DEF LocalInv, InRegion
          <6> QED BY <6>1, BesideFacts DEF Child
        <5> QED BY <5>1, <5>2
      <4>5. Engaged(work'[w])
        BY <2>6 DEF Engaged
      <4> HIDE DEF d
      <4>6. InRegion(w, p)'
        BY <4>3, <4>4, <4>5 DEF InRegion
      <4>7. Goes(w, new)
        BY <1>1, <1>2, <1>7, StepMoves DEF StepOK, Busy
      <4> QED BY <4>1, <4>2, <4>6, <4>7 DEF Goes
    <3> QED BY <1>7, <2>6, <3>1, <3>2, <3>3
  <2>7. CASE /\ work[w].pc = "carve" /\ work'[w].pc = "check"
             /\ work'[w].src = ChunkPath(work[w], work[w].todo) /\ work'[w].src \notin DOMAIN fs
    <3> DEFINE q == ChunkPath(work[w], work[w].todo)
    <3>1. /\ work[w].content \in Files /\ work[w].task.path \in Paths
          /\ work[w].todo \in 1..Len(Chunks(work[w].content))
      BY <1>1, <2>7, OwnFile DEF FileLocal, FilePcs
    <3>2. q \in Paths /\ Under(q, CarveDir(work[w]))
      BY <3>1, PieceFacts DEF Child
    <3>3. InRegion(w, q)
      BY <2>7, <3>2 DEF InRegion, Engaged
    <3> QED BY <1>7, <2>2, <2>7, <3>3
  <2> QED BY <1>7, <2>3, <2>4, <2>5, <2>6, <2>7, OwnNext
<1> QED BY <1>6, <1>7

\* The three parts together.
LEMMA StepLost ==
  ASSUME IInv, IInv', OutcomeInv, LostInv, NEW w \in Workers, WorkHere(w), ~ TakeTaskHere(w), StepOK(w)
  PROVE  LostInv'
BY StepKeeps, StepSafe, StepOwn DEF LostInv

\* A task that is taken: nothing is found in the file whose result comes at once.
LEMMA TakeStarts ==
  ASSUME IInv, NEW w \in Workers, TakeTaskHere(w)
  PROVE  /\ \A r : Finished(r) => Finished(r)'
         /\ \A r : Finished(r)' /\ Processed(r) => Finished(r) \/ Pieces(r.content) = 0
         /\ Busy(w)' => \/ work'[w].pc = "dir_handler" /\ work'[w].content = "dir"
                        \/ /\ work'[w].pc = "check" /\ Whole(work'[w])
                           /\ work'[w].content \in Files /\ Pieces(work'[w].content) = 1
                        \/ /\ work'[w].pc = "unknown" /\ work'[w].todo = 1
                           /\ work'[w].content \in Files /\ Pieces(work'[w].content) # 1
<1> DEFINE t == Head(queue)
           c == fs[t.path]
           a == Job(t, c, "none")
           b == Report(Report(a, "CarveDirectory"), "OutputExists")
           j1 == Job(t, c, "dir_handler")  j2 == Job(t, c, "check")
           j3 == Report(Starting(t, c), "CarveDirectory")
<1>1. phase = "run" /\ work[w] = Idle /\ queue # <<>> /\ results' = results /\ TypeOK
  BY DEF TakeTaskHere, IInv
<1>2. t \in Tasks /\ t.path \in DOMAIN fs /\ c \in Nodes /\ c # "piece"
  BY <1>1, FirstTask
<1>3. /\ work \in [Workers -> Jobs \cup {Idle}] /\ Files \cap {"piece", "dir", "special"} = {}
      /\ Files \cap DOMAIN Links = {}
  BY <1>1, ProcessingAssumption DEF TypeOK
<1>4. \/ Ignored(t) /\ Return(w, a)
      \/ c = "dir" /\ Continue(w, j1)
      \/ ~ Ignored(t) /\ c # "dir" /\ Pieces(c) = 1 /\ Continue(w, j2)
      \/ Return(w, b)
      \/ ~ Ignored(t) /\ c # "dir" /\ Pieces(c) # 1 /\ Continue(w, j3)
  BY <1>2 DEF TakeTaskHere, Exists, Starting
<1>5. /\ a.task = t /\ a.content = c /\ a.subtasks = <<>> /\ a.reports = {}
      /\ b.task = t /\ b.content = c /\ b.subtasks = <<>> /\ b.reports = {"CarveDirectory", "OutputExists"}
  BY DEF Job, Report
<1>6. ResultOfJob(a) \in TaskResults /\ ResultOfJob(b) \in TaskResults
  <2>1. <<>> \in Seq(Tasks) /\ {} \subseteq Reports /\ {"CarveDirectory", "OutputExists"} \subseteq Reports
    BY DEF Reports
  <2> HIDE DEF a, b, t, c
  <2> QED BY <1>2, <1>5, <2>1 DEF ResultOfJob, TaskResults
<1>7. Ignored(t) /\ Processed(ResultOfJob(a)) => Pieces(ResultOfJob(a).content) = 0
  <2>1. t.depth \in Nat /\ config.max_depth \in Nat
    BY <1>1, <1>2, ProcessingAssumption DEF Tasks, TypeOK, ConfigOK
  <2>2. ResultOfJob(a).task = t /\ ResultOfJob(a).content = c
    BY <1>5 DEF ResultOfJob
  <2> HIDE DEF a, t
  <2> QED BY <1>3, <2>1, <2>2 DEF Ignored, IsLink, Processed
<1>8. ~ Processed(ResultOfJob(b))
  BY <1>5 DEF Processed, ResultOfJob
<1>9. /\ j1.pc = "dir_handler" /\ j1.content = c
      /\ j2.pc = "check" /\ j2.content = c /\ Whole(j2)
      /\ j3.pc = "unknown" /\ j3.content = c /\ j3.todo = 1
  BY DEF Job, Starting, Report, Whole
<1>10. ~ Ignored(t) /\ c # "dir" => c \in Files
  BY <1>2, NotIgnored
<1> HIDE DEF a, b, t, c, j1, j2, j3
<1>11. CASE Ignored(t) /\ Return(w, a)
  <2>1. \A r : Finished(r)' <=> Finished(r) \/ r = ResultOfJob(a)
    BY <1>1, <1>6, <1>11, StepFinished
  <2>2. ~ Busy(w)'
    BY <1>3, <1>11 DEF Busy, Return
  <2> QED BY <1>7, <1>11, <2>1, <2>2
<1>12. CASE Return(w, b)
  <2>1. \A r : Finished(r)' <=> Finished(r) \/ r = ResultOfJob(b)
    BY <1>1, <1>6, <1>12, StepFinished
  <2>2. ~ Busy(w)'
    BY <1>3, <1>12 DEF Busy, Return
  <2> QED BY <1>8, <2>1, <2>2
<1>13. ASSUME NEW j \in {j1, j2, j3}, Continue(w, j)
       PROVE  work'[w] = j /\ \A r : Finished(r)' <=> Finished(r)
  <2>1. work'[w] = j /\ outbox' = outbox
    BY <1>3, <1>13 DEF Continue
  <2> QED BY <1>1, <2>1, StepFinished
<1>14. CASE c = "dir" /\ Continue(w, j1)
  BY <1>9, <1>13, <1>14
<1>15. CASE ~ Ignored(t) /\ c # "dir" /\ Pieces(c) = 1 /\ Continue(w, j2)
  BY <1>9, <1>10, <1>13, <1>15
<1>16. CASE ~ Ignored(t) /\ c # "dir" /\ Pieces(c) # 1 /\ Continue(w, j3)
  BY <1>9, <1>10, <1>13, <1>16
<1> QED BY <1>4, <1>11, <1>12, <1>14, <1>15, <1>16

\* A file without pieces has no gaps and no chunks.
LEMMA NoPieces ==
  ASSUME NEW c \in Files, Pieces(c) = 0
  PROVE  Content[c].unknown = {} /\ 1..Len(Chunks(c)) = {}
<1> DEFINE U == Content[c].unknown  n == Len(Chunks(c))  m == Cardinality(U)
<1>1. n \in Nat /\ IsFiniteSet(U)
  BY ContentFacts
<1>2. m \in Nat /\ (m = 0 <=> U = {})
  BY <1>1, FS_CardinalityType, FS_EmptySet
<1>3. n + m = 0
  BY DEF Pieces
<1> HIDE DEF U, n, m
<1>4. n = 0 /\ m = 0
  BY <1>1, <1>2, <1>3
<1> QED BY <1>2, <1>4 DEF U, n, m

\* A task that is taken touches no file.
LEMMA TakeLost ==
  ASSUME IInv, LostInv, NEW w \in Workers, TakeTaskHere(w)
  PROVE  LostInv'
<1>1. /\ fs' = fs /\ config' = config /\ TypeOK /\ work[w] = Idle
      /\ \A v \in Workers : v # w => work'[v] = work[v]
  BY DEF IInv, TakeTaskHere, host, TypeOK, Return, Continue
<1>2. /\ \A r : Finished(r) => Finished(r)'
      /\ \A r : Finished(r)' /\ Processed(r) => Finished(r) \/ Pieces(r.content) = 0
      /\ Busy(w)' => \/ work'[w].pc = "dir_handler" /\ work'[w].content = "dir"
                     \/ /\ work'[w].pc = "check" /\ Whole(work'[w])
                        /\ work'[w].content \in Files /\ Pieces(work'[w].content) = 1
                     \/ /\ work'[w].pc = "unknown" /\ work'[w].todo = 1
                        /\ work'[w].content \in Files /\ Pieces(work'[w].content) # 1
  BY TakeStarts
<1>3. KeptInv /\ SafeInv /\ OwnInv
  BY DEF LostInv
<1>4. \A r : Processed(r)' <=> Processed(r)
  BY <1>1 DEF Processed
<1>5. \A r : Finished(r)' /\ Processed(r) /\ ~ Finished(r) =>
        Content[r.content].unknown = {} /\ 1..Len(Chunks(r.content)) = {}
  BY <1>2, NoPieces DEF Processed
<1>6. KeptInv'
  <2> SUFFICES ASSUME NEW v \in Workers, Busy(v)'
               PROVE  IF work'[v].pc \in FilePcs THEN JobKept(work'[v], fs') ELSE work'[v].content = "dir"
    BY DEF KeptInv
  <2>1. CASE v # w
    BY <1>1, <1>3, <2>1 DEF KeptInv, Busy
  <2>2. CASE v = w
    BY <1>2, <2>2 DEF JobKept, Single, FilePcs
  <2> QED BY <2>1, <2>2
<1>7. SafeInv'
  <2>1. \A p : Deleted(p) => Deleted(p)'
    BY <1>2 DEF Deleted
  <2>2. ASSUME NEW r, Finished(r), Processed(r) PROVE Safe(r)'
    <3>1. Safe(r)
      BY <1>3, <2>2 DEF SafeInv
    <3> QED BY <1>1, <2>1, <3>1 DEF Safe
  <2>3. ASSUME NEW r, Finished(r)', Processed(r), ~ Finished(r) PROVE Safe(r)'
    <3>1. Content[r.content].unknown = {} /\ 1..Len(Chunks(r.content)) = {}
      BY <1>5, <2>3
    <3>2. Gaps(r) = {}
      BY <3>1 DEF Gaps, UnknownPaths
    <3> QED BY <3>1, <3>2 DEF Safe
  <2> QED BY <1>4, <2>2, <2>3 DEF SafeInv
<1>8. OwnInv'
  <2> SUFFICES ASSUME NEW v \in Workers, Busy(v)', NEW r, Finished(r)', Processed(r),
                      NEW i \in 1..Len(Chunks(r.content))
               PROVE  /\ work'[v].pc \in {"mkdir", "extract", "settle"} => Beside(work'[v].src) \notin Extracts(r, i)
                      /\ work'[v].pc \in {"check", "mkdir", "extract", "settle"} /\ ~ Whole(work'[v]) =>
                           work'[v].src \notin Extracts(r, i)
    BY <1>4 DEF OwnInv
  <2>1. Finished(r)
    BY <1>5
  <2>2. CASE v # w
    BY <1>1, <1>3, <2>1, <2>2 DEF OwnInv, Busy
  <2>3. CASE v = w
    BY <1>2, <2>3
  <2> QED BY <2>2, <2>3
<1> QED BY <1>6, <1>7, <1>8 DEF LostInv

\* Steps that leave workers and files alone and keep the results that there are.
LEMMA SameLost ==
  ASSUME LostInv, fs' = fs, config' = config, work' = work, \A r : Finished(r)' <=> Finished(r)
  PROVE  LostInv'
<1>1. \A r : Processed(r)' <=> Processed(r)
  BY DEF Processed
<1>2. \A p : Deleted(p)' <=> Deleted(p)
  BY DEF Deleted
<1>3. \A r : Safe(r)' <=> Safe(r)
  BY <1>2 DEF Safe
<1>4. KeptInv'
  BY DEF LostInv, KeptInv, Busy
<1>5. SafeInv'
  BY <1>1, <1>3 DEF LostInv, SafeInv
<1>6. OwnInv'
  BY <1>1 DEF LostInv, OwnInv, Busy
<1> QED BY <1>4, <1>5, <1>6 DEF LostInv

\* Every step keeps the invariant.
LEMMA NextLost ==
  ASSUME NamesApart, Inv, Inv', OutcomeInv, LostInv, [NextHere]_vars
  PROVE  LostInv'
<1>1. IInv /\ IInv'
  BY DEF Inv
<1>2. ASSUME NEW w \in Workers, WorkHere(w) PROVE LostInv'
  <2>1. CASE TakeTaskHere(w)
    BY <1>1, <2>1, TakeLost
  <2>2. CASE ~ TakeTaskHere(w)
    <3>1. StepOK(w)
      BY <1>1, <1>2, <2>2, WorkOK
    <3> QED BY <1>1, <1>2, <2>2, <3>1, StepLost
  <2> QED BY <2>1, <2>2
<1>3. CASE outbox' = <<>> /\ results' = <<>> /\ \A w \in Workers : work'[w] = Idle
  <2>1. \A r : ~ Finished(r)'
    BY <1>3 DEF Finished
  <2>2. \A w \in Workers : ~ Busy(w)'
    BY <1>3 DEF Busy
  <2> QED BY <2>1, <2>2 DEF LostInv, KeptInv, SafeInv, OwnInv
<1>4. CASE Crash \/ Rerun \/ RemoveOldHere \/ PrepareReport
  <2>1. outbox' = <<>> /\ results' = <<>> /\ \A w \in Workers : work'[w] = Idle
    BY <1>1, <1>4 DEF Crash, Rerun, RemoveOldHere, PrepareReport, IInv, Quiet
  <2> QED BY <1>3, <2>1
<1>5. CASE Register
  <2>1. \A r : Finished(r)' <=> Finished(r)
    BY <1>5, RegisterFinished
  <2> QED BY <1>5, <2>1, SameLost DEF Register, host
<1>6. CASE WriteReport \/ Over \/ UNCHANGED vars
  <2>1. fs' = fs /\ config' = config /\ work' = work /\ outbox' = outbox /\ results' = results
    BY <1>6 DEF WriteReport, Over, vars
  <2>2. \A r : Finished(r)' <=> Finished(r)
    BY <2>1 DEF Finished
  <2> QED BY <2>1, <2>2, SameLost
<1> QED BY <1>2, <1>4, <1>5, <1>6 DEF NextHere, HostHere

\* When a run is over, everything that was found in a file that was processed is there:
\* each gap that carve_unknown_chunk carved, each chunk that could not be extracted, and
\* each file that an extractor made of one, unless --delete-extracted removed that file
\* after it was extracted in turn and its result says so.  This is so whatever the files
\* hold, however many workers remove carved chunks, empty directories and extracted files
\* while others are at work, and whatever an earlier run left.
LEMMA HereNothingIsLost ==
  ASSUME NamesApart
  PROVE  HereSpec => []NothingLost
<1>1. Init => OutcomeInv /\ LostInv
  <2> SUFFICES ASSUME Init PROVE OutcomeInv /\ LostInv
    OBVIOUS
  <2>1. (\A r : ~ Finished(r)) /\ \A w \in Workers : ~ Busy(w)
    BY DEF Init, Finished, Busy
  <2> QED BY <2>1 DEF OutcomeInv, LostInv, KeptInv, SafeInv, OwnInv
<1>2. Inv /\ Inv' /\ OutcomeInv /\ LostInv /\ [NextHere]_vars => OutcomeInv' /\ LostInv'
  BY NextOutcome, NextLost
<1>3. ASSUME Inv, LostInv PROVE NothingLost
  <2> SUFFICES ASSUME phase = "done", NEW r \in Range(results), Processed(r)
               PROVE  IF Pieces(r.content) = 1
                      THEN ChunkKept(r, r.task.path, Chunks(r.content)[1])
                      ELSE /\ \A p \in UnknownPaths(r) : Exists(p)
                           /\ \A j \in 1..Len(Chunks(r.content)) :
                                /\ ChunkKept(r, ChunkPath(r, j), Chunks(r.content)[j])
                                /\ Exists(ChunkPath(r, j)) \/ Chunks(r.content)[j].result = "ok"
    BY DEF NothingLost
  <2>1. outbox = <<>>
    BY <1>3 DEF Inv, IInv, Quiet
  <2>2. Range(results) = {results[i] : i \in DOMAIN results}
    BY DEF Range
  <2>3. \A x : Finished(x) <=> x \in Range(results)
    BY <2>1, <2>2 DEF Finished
  <2>4. Safe(r) /\ r.content \in Files
    BY <1>3, <2>3 DEF LostInv, SafeInv, Processed
  <2>5. \A p : p \in DOMAIN fs \/ Deleted(p) => Kept(p)
    BY <2>3 DEF Deleted, Kept, Exists, ResultOf
  <2>6. ASSUME NEW i \in 1..Len(Chunks(r.content)) PROVE ChunkKept(r, From(r, i), Chunks(r.content)[i])
    <3> DEFINE k == Chunks(r.content)[i]  d == Beside(From(r, i))
    <3>1. \A p \in Extracts(r, i) : Kept(p)
      BY <2>4, <2>5, <2>6 DEF Safe
    <3>2. k.result # "silent" => \A q \in DOMAIN k.tree : d \o q \in Extracts(r, i)
      BY DEF Extracts
    <3> QED BY <3>1, <3>2 DEF ChunkKept, TreeKept
  <2>7. CASE Pieces(r.content) = 1
    <3>1. 1 \in 1..Len(Chunks(r.content))
      BY <2>4, <2>7, SomeChunk
    <3>2. From(r, 1) = r.task.path
      BY <2>7 DEF From
    <3> QED BY <2>6, <2>7, <3>1, <3>2
  <2>8. CASE Pieces(r.content) # 1
    <3>1. \A i : From(r, i) = ChunkPath(r, i)
      BY <2>8 DEF From
    <3>2. \A p \in UnknownPaths(r) : Exists(p)
      BY <2>4, <2>8 DEF Safe, Gaps, Exists
    <3>3. \A i \in 1..Len(Chunks(r.content)) : Exists(ChunkPath(r, i)) \/ Chunks(r.content)[i].result = "ok"
      BY <2>4, <2>8 DEF Safe, Lefts, Exists
    <3> QED BY <2>6, <2>8, <3>1, <3>2, <3>3
  <2> QED BY <2>7, <2>8
<1> QED BY <1>1, <1>2, <1>3, HereInvariance, PTL DEF HereSpec

-----------------------------------------------------------------------------
(* --force starts afresh                                                   *)

\* What follows a prefix is determined by the whole.
LEMMA ConcatSame ==
  ASSUME NEW d \in Paths, NEW r \in Paths, NEW s \in Paths, d \o r = d \o s
  PROVE  r = s
<1>1. PICK n \in Nat \ {0}, m \in Nat \ {0}, l \in Nat \ {0} : n = Len(d) /\ m = Len(r) /\ l = Len(s)
  BY DEF Paths
<1>2. Len(d \o r) = n + m /\ \A i \in 1..m : (d \o r)[n + i] = r[i]
  BY <1>1, ConcatNames
<1>3. Len(d \o s) = n + l /\ \A i \in 1..l : (d \o s)[n + i] = s[i]
  BY <1>1, ConcatNames
<1>4. m = l
  <2>1. n + m = n + l
    BY <1>2, <1>3
  <2> QED BY <2>1
<1>5. \A i \in 1..m : r[i] = s[i]
  BY <1>2, <1>3, <1>4
<1> QED BY <1>1, <1>4, <1>5, SamePath

\* The directory beside a path below d is below d.
LEMMA BesideConcat ==
  ASSUME NEW d \in Paths, NEW r \in Paths
  PROVE  Beside(d \o r) = d \o Beside(r)
<1>1. PICK n \in Nat \ {0}, m \in Nat \ {0} : n = Len(d) /\ m = Len(r)
  BY DEF Paths
<1> DEFINE p == d \o r  e == Beside(p)  s == Beside(r)  q == d \o s
<1>2. /\ p \in Paths /\ Len(p) = n + m
      /\ \A i \in 1..n : p[i] = d[i]
      /\ \A i \in 1..m : p[n + i] = r[i]
  BY <1>1, ConcatNames
<1>3. /\ s \in Paths /\ Len(s) = m /\ s[m] = Suffixed(r[m]) /\ \A i \in 1..m : i # m => s[i] = r[i]
  BY <1>1, BesideNames
<1> HIDE DEF p, s
<1>4. /\ e \in Paths /\ Len(e) = n + m /\ e[n + m] = Suffixed(p[n + m])
      /\ \A i \in 1..(n + m) : i # n + m => e[i] = p[i]
  BY <1>1, <1>2, BesideNames
<1>5. /\ q \in Paths /\ Len(q) = n + m
      /\ \A i \in 1..n : q[i] = d[i]
      /\ \A i \in 1..m : q[n + i] = s[i]
  BY <1>1, <1>3, ConcatNames
<1> HIDE DEF e, q
<1>6. ASSUME NEW i \in 1..(n + m) PROVE e[i] = q[i]
  <2>1. CASE i \in 1..n
    <3>1. i # n + m
      BY <2>1
    <3> QED BY <1>2, <1>4, <1>5, <2>1, <3>1
  <2>2. CASE i \notin 1..n
    <3>1. PICK k \in 1..m : i = n + k
      <4>1. i - n \in 1..m /\ i = n + (i - n)
        BY <2>2
      <4> QED BY <4>1
    <3>2. p[i] = r[k] /\ q[i] = s[k]
      BY <1>2, <1>5, <3>1
    <3>3. CASE k = m
      BY <1>2, <1>3, <1>4, <3>1, <3>2, <3>3
    <3>4. CASE k # m
      <4>1. i # n + m
        BY <3>1, <3>4
      <4> QED BY <1>3, <1>4, <3>1, <3>2, <3>4, <4>1
    <3> QED BY <3>3, <3>4
  <2> QED BY <2>1, <2>2
<1>7. e = q
  BY <1>4, <1>5, <1>6, SamePath
<1> QED BY <1>7 DEF e, q, p, s

\* A step makes no directory beside a file but its own, and no file beside its directory.
Makes(w) ==
  /\ \A p \in DOMAIN fs : fs[p] \in Files /\ Beside(p) \in DOMAIN fs' \ DOMAIN fs =>
       p = Path(w) /\ work[w].pc \in FilePcs
  /\ \A p \in DOMAIN fs' \ DOMAIN fs : fs'[p] \in Files => Beside(p) \notin DOMAIN fs' /\ FreeName(p)

LEMMA MakesTree ==
  ASSUME NEW w, FsOK(fs), NEW d \in DOMAIN fs, fs[d] = "dir", Bare(fs, d), NEW tree, TreeOK(tree), FreshTree(tree),
         fs' = WithTree(fs, d, tree)
  PROVE  Makes(w)
<1> DEFINE g == WithTree(fs, d, tree)
<1>1. /\ DOMAIN g = DOMAIN fs \cup {d \o r : r \in DOMAIN tree}
      /\ \A r \in DOMAIN tree : g[d \o r] = tree[r] /\ d \o r \notin DOMAIN fs
  BY WithTreeFacts, Zenon
<1>2. g = fs'
  OBVIOUS
<1> HIDE DEF g
<1>3. /\ DOMAIN fs' = DOMAIN fs \cup {d \o r : r \in DOMAIN tree}
      /\ \A r \in DOMAIN tree : fs'[d \o r] = tree[r] /\ d \o r \notin DOMAIN fs
  BY <1>1, <1>2
<1>4. DOMAIN fs \subseteq Paths /\ d \in Paths /\ DOMAIN tree \subseteq Paths /\ "dir" \notin Files
  BY ProcessingAssumption DEF FsOK, FileTree, TreeOK
<1>5. ASSUME NEW p \in DOMAIN fs, fs[p] \in Files, Beside(p) \in DOMAIN fs' \ DOMAIN fs PROVE FALSE
  <2>1. PICK r \in DOMAIN tree : Beside(p) = d \o r
    BY <1>3, <1>5
  <2>2. Under(Beside(p), d) /\ d # Beside(p)
    BY <1>4, <2>1, ConcatFacts
  <2>3. Under(p, d)
    BY <1>4, <2>2, BesideFacts
  <2> QED BY <1>4, <1>5, <2>3 DEF Bare
<1>6. ASSUME NEW p \in DOMAIN fs' \ DOMAIN fs, fs'[p] \in Files PROVE Beside(p) \notin DOMAIN fs' /\ FreeName(p)
  <2>1. PICK r \in DOMAIN tree : p = d \o r
    BY <1>3, <1>6
  <2>2. tree[r] \in Files /\ r \in Paths
    BY <1>3, <1>4, <1>6, <2>1
  <2>3. Beside(r) \notin DOMAIN tree /\ FreeName(r) /\ Beside(r) \in Paths
    BY <2>2, BesideFacts DEF FreshTree
  <2>4. FreeName(p)
    <3>1. Last(p) = Last(r)
      BY <1>4, <2>1, <2>2, ConcatFacts
    <3> QED BY <2>3, <3>1 DEF FreeName
  <2>5. Beside(p) = d \o Beside(r)
    BY <1>4, <2>1, <2>2, BesideConcat
  <2>6. Beside(p) \notin DOMAIN fs
    <3>1. Under(Beside(p), d) /\ Beside(p) # d
      BY <1>4, <2>3, <2>5, ConcatFacts
    <3> QED BY <3>1 DEF Bare
  <2>7. \A s \in DOMAIN tree : Beside(p) # d \o s
    <3> SUFFICES ASSUME NEW s \in DOMAIN tree, d \o Beside(r) = d \o s PROVE FALSE
      BY <2>5
    <3>1. Beside(r) = s
      BY <1>4, <2>3, ConcatSame
    <3> QED BY <2>3, <3>1
  <2> QED BY <1>3, <2>4, <2>6, <2>7
<1> QED BY <1>5, <1>6 DEF Makes

LEMMA MakesNothing ==
  ASSUME NEW w, DOMAIN fs' \subseteq DOMAIN fs
  PROVE  Makes(w)
BY DEF Makes

LEMMA MakesOne ==
  ASSUME NEW w, NEW d \in Paths, fs' = With(fs, {d}, "dir"),
         \A p \in DOMAIN fs : fs[p] \in Files /\ Beside(p) = d => p = Path(w) /\ work[w].pc \in FilePcs
  PROVE  Makes(w)
<1>1. DOMAIN fs' = DOMAIN fs \cup {d} /\ \A p \in DOMAIN fs' \ DOMAIN fs : fs'[p] = "dir"
  BY DEF With
<1>2. "dir" \notin Files
  BY ProcessingAssumption
<1> QED BY <1>1, <1>2 DEF Makes

\* Carving makes the directory of the file, and pieces, whose names have no suffix.
LEMMA CarveMakes ==
  ASSUME IInv, NEW w \in Workers, CarveUnknownHere(w) \/ CarveChunkHere(w)
  PROVE  Makes(w)
<1> DEFINE job == work[w]  c == CarveDir(job)
<1>1. Busy(w) /\ job.pc \in {"unknown", "carve"} /\ job.pc \in FilePcs
  BY DEF CarveUnknownHere, CarveChunkHere, Busy, FilePcs
<1>2. /\ Path(w) \in Paths /\ c = Beside(Path(w)) /\ c \in Paths /\ DOMAIN fs \subseteq Paths
      /\ job.content \in Files /\ job.todo \in 1..Len(Chunks(job.content))
  BY <1>1, OwnFile DEF FileLocal
<1>3. PICK files, next : /\ CarveHere(w, job, files, next)
                         /\ \A p \in files : \E m \in Names : p = Append(c, m) /\ m.ext = 0
  <2>1. CASE CarveUnknownHere(w)
    <3>1. \A p \in UnknownPaths(job) : \E m \in Names : p = Append(c, m) /\ m.ext = 0
      BY <1>2, ContentFacts, NameFacts DEF UnknownPaths
    <3> QED BY <2>1, <3>1 DEF CarveUnknownHere
  <2>2. CASE CarveChunkHere(w)
    <3> DEFINE q == ChunkPath(job, job.todo)
    <3>1. \A p \in {q} : \E m \in Names : p = Append(c, m) /\ m.ext = 0
      BY <1>2, ContentFacts, NameFacts DEF ChunkPath
    <3> QED BY <2>2, <3>1 DEF CarveChunkHere
  <2> QED BY <2>1, <2>2
<1>4. CASE fs' = fs
  BY <1>4, MakesNothing
<1>5. CASE fs' = With(With(fs, IF files = {} THEN {} ELSE {c}, "dir"), files, "piece")
  <2> DEFINE C == IF files = {} THEN {} ELSE {c}
             g == With(fs, C, "dir")
  <2>1. C \subseteq {c}
    OBVIOUS
  <2>2. fs' = With(g, files, "piece")
    BY <1>5
  <2> HIDE DEF C
  <2>3. DOMAIN g = DOMAIN fs \cup C /\ \A p \in DOMAIN g \ DOMAIN fs : g[p] = "dir"
    BY DEF With
  <2> HIDE DEF g
  <2>4. /\ DOMAIN fs' = DOMAIN g \cup files /\ \A p \in DOMAIN g : fs'[p] = g[p]
        /\ \A p \in DOMAIN fs' \ DOMAIN g : fs'[p] = "piece"
    BY <2>2 DEF With
  <2>5. \A p \in DOMAIN fs' \ DOMAIN fs : fs'[p] \notin Files
    BY <2>3, <2>4, ProcessingAssumption
  <2>6. ASSUME NEW p \in DOMAIN fs, Beside(p) \in DOMAIN fs' \ DOMAIN fs PROVE p = Path(w)
    <3>1. Beside(p) = c \/ Beside(p) \in files
      BY <2>1, <2>3, <2>4, <2>6
    <3>2. Beside(p) \notin files
      <4> SUFFICES ASSUME NEW m \in Names, Beside(p) = Append(c, m), m.ext = 0 PROVE FALSE
        BY <1>3
      <4>1. Last(Beside(p)).ext # 0
        BY <1>2, BesideFacts
      <4>2. Last(Append(c, m)) = m
        BY <1>2, AppendFacts
      <4> QED BY <4>1, <4>2
    <3> QED BY <1>2, <3>1, <3>2, BesideFacts
  <2> QED BY <1>1, <2>5, <2>6 DEF Makes
<1> QED BY <1>3, <1>4, <1>5 DEF CarveHere

LEMMA StepMakes ==
  ASSUME IInv, FreshNames, FilesFresh, NEW w \in Workers, WorkHere(w), ~ TakeTaskHere(w)
  PROVE  Makes(w)
<1> DEFINE job == work[w]
<1>1. CASE CarveUnknownHere(w) \/ CarveChunkHere(w)
  BY <1>1, CarveMakes
<1>2. CASE CheckDirHere(w) \/ Iterate(w) \/ SettleHere(w) \/ DeleteExtracted(w)
  <2>1. DOMAIN fs' \subseteq DOMAIN fs
    BY <1>2 DEF CheckDirHere, Iterate, SettleHere, DeleteExtracted, Without
  <2> QED BY <2>1, MakesNothing
<1>3. CASE MakeDirHere(w)
  <2> DEFINE d == Beside(job.src)
  <2>1. Busy(w) /\ job.pc = "mkdir" /\ job.pc \in FilePcs
    BY <1>3 DEF MakeDirHere, Busy, FilePcs
  <2>2. d \in Paths /\ job.src \in Paths /\ DOMAIN fs \subseteq Paths /\ job.task.path = Path(w) /\ d \notin DOMAIN fs
    BY <2>1, OwnFile, TheTree DEF FileLocal, Jobs
  <2>3. fs' = With(fs, {d}, "dir")
    BY <1>3, <2>2 DEF MakeDirHere, Exists
  <2>4. ASSUME NEW p \in DOMAIN fs, fs[p] \in Files, Beside(p) = d PROVE p = Path(w)
    <3>1. p = job.src
      BY <2>2, <2>4, BesideFacts
    <3>2. Whole(job)
      BY <2>1, <2>4, <3>1, CarvedIn, ProcessingAssumption
    <3> QED BY <2>2, <3>1, <3>2 DEF Whole
  <2> QED BY <2>1, <2>2, <2>3, <2>4, MakesOne
<1>4. CASE ExtractHere(w)
  <2> DEFINE d == Beside(job.src)  tree == TheChunk(job).tree
  <2>1. Busy(w) /\ job.pc = "extract" /\ job.pc \in FilePcs /\ fs' = WithTree(fs, d, tree)
    BY <1>4 DEF ExtractHere, Busy, FilePcs
  <2>2. /\ FsOK(fs) /\ d \in DOMAIN fs /\ fs[d] = "dir" /\ Bare(fs, d)
        /\ job.content \in Files /\ job.todo \in 1..Len(Chunks(job.content))
    BY <2>1, OwnFile DEF FileLocal
  <2>3. TreeOK(tree) /\ FreshTree(tree)
    BY <2>1, <2>2, TheTree DEF FreshNames, TheChunk
  <2> QED BY <2>1, <2>2, <2>3, MakesTree
<1>5. CASE DirHandlerHere(w)
  <2>1. Busy(w) /\ job.pc = "dir_handler" /\ job.todo <= Len(DirHandlers)
    BY <1>5 DEF DirHandlerHere, Busy
  <2>2. /\ Path(w) \in Paths /\ job.task.path = Path(w) /\ DOMAIN fs \subseteq Paths /\ job.todo \in 1..Len(DirHandlers)
    BY <2>1, OwnDir DEF TypeOK
  <2> DEFINE h == DirHandlers[job.todo].name  q == Path(w)
  <2>3. h \in Names /\ Suffixed(h) \in Names
    BY <2>2, ProcessingAssumption, HandlerFacts DEF HandlerOK
  <2>4. MultiHere(job) = Append(q, Suffixed(h))
    BY <2>2 DEF MultiHere, Handler
  <2>5. CASE fs' = fs
    BY <2>5, MakesNothing
  <2>6. CASE fs' = With(fs, {MultiHere(job)}, "dir")
    <3> HIDE DEF h, q
    <3>1. ASSUME NEW p \in DOMAIN fs, fs[p] \in Files, Beside(p) = MultiHere(job) PROVE FALSE
      <4>1. Append(q, h) \in Paths /\ Last(Append(q, h)) = h /\ Len(Append(q, h)) # 1
        <5>1. q \in Paths
          BY <2>2 DEF q
        <5>2. Child(Append(q, h), q) /\ Len(q) \in Nat \ {0}
          BY <2>3, <5>1, AppendFacts DEF Paths
        <5> QED BY <2>3, <5>1, <5>2, AppendFacts DEF Child
      <4>2. Beside(Append(q, h)) = Append(q, Suffixed(h))
        BY <2>2, <2>3, BesideAppend DEF q
      <4>3. p = Append(q, h)
        BY <2>2, <2>4, <3>1, <4>1, <4>2, BesideFacts
      <4>4. p # InputPath
        BY <4>1, <4>3 DEF InputPath
      <4>5. FreeName(p)
        BY <3>1, <4>4 DEF FilesFresh
      <4> QED BY <2>2, <4>1, <4>3, <4>5 DEF FreeName, h
    <3>2. MultiHere(job) \in Paths
      BY <2>2, <2>3, <2>4, AppendFacts DEF q
    <3> QED BY <2>6, <3>1, <3>2, MakesOne
  <2> QED BY <1>5, <2>5, <2>6 DEF DirHandlerHere
<1>6. CASE ExtractMultiHere(w)
  <2> DEFINE m == MultiHere(job)  tree == Handler(job).tree
  <2>1. Busy(w) /\ job.pc = "multi"
    BY <1>6 DEF ExtractMultiHere, Busy
  <2>2. /\ FsOK(fs) /\ job.todo \in 1..Len(DirHandlers) /\ Bare(fs, m) /\ (m \in DOMAIN fs => fs[m] = "dir")
    BY <2>1, OwnDir DEF DirLocal
  <2>3. CASE Exists(m)
    <3>1. fs' = WithTree(fs, m, tree) /\ m \in DOMAIN fs
      BY <1>6, <2>3 DEF ExtractMultiHere, Exists
    <3>2. TreeOK(tree) /\ FreshTree(tree)
      BY <2>2, HandlerFacts DEF FreshNames, Handler
    <3> QED BY <2>2, <3>1, <3>2, MakesTree
  <2>4. CASE ~ Exists(m)
    <3>1. fs' = fs
      BY <1>6, <2>4 DEF ExtractMultiHere
    <3> QED BY <3>1, MakesNothing
  <2> QED BY <2>3, <2>4
<1> QED BY <1>1, <1>2, <1>3, <1>4, <1>5, <1>6 DEF WorkHere

\* What a step of a worker ends with: no output directory that was there before.
FreshStep(w, j) ==
  /\ "OutputExists" \notin j.reports
  /\ Return(w, j) \/ (Continue(w, j) /\ JobFresh(j, fs') /\ (work[w].pc \in FilePcs => Engaged(j)))

\* Pieces, and what is extracted of one chunk, are not the directory of another.
LEMMA DirsAheadOn ==
  ASSUME NEW x, x.task.path \in Paths, x.content \in Files, NEW f, NEW g, NEW n \in Nat, DirsAhead(x, n, f),
         \A p \in DOMAIN g \ DOMAIN f :
           \/ p = CarveDir(x) \/ p \in UnknownPaths(x)
           \/ \E i \in 1..Len(Chunks(x.content)) :
                p = ChunkPath(x, i) \/ (i <= n /\ p \in Paths /\ Under(p, Beside(ChunkPath(x, i))))
  PROVE  DirsAhead(x, n, g)
<1> SUFFICES ASSUME NEW k \in 1..Len(Chunks(x.content)), k > n, Beside(ChunkPath(x, k)) \in DOMAIN g
             PROVE  FALSE
  BY DEF DirsAhead
<1> DEFINE c == CarveDir(x)  e == Beside(ChunkPath(x, k))
<1>1. e \notin DOMAIN f
  BY DEF DirsAhead
<1>2. /\ c \in Paths /\ e \in Paths /\ Child(e, c) /\ e \notin UnknownPaths(x) /\ Len(Chunks(x.content)) \in Nat
      /\ \A i \in 1..Len(Chunks(x.content)) :
           /\ e # ChunkPath(x, i)
           /\ Beside(ChunkPath(x, i)) \in Paths /\ Child(Beside(ChunkPath(x, i)), c)
           /\ e = Beside(ChunkPath(x, i)) => k = i
  BY PieceFacts
<1> HIDE DEF c, e
<1>3. e # c
  BY <1>2, ChildFacts
<1>4. PICK i \in 1..Len(Chunks(x.content)) : i <= n /\ Under(e, Beside(ChunkPath(x, i)))
  BY <1>1, <1>2, <1>3 DEF c, e
<1>5. e = Beside(ChunkPath(x, i))
  BY <1>2, <1>4, ChildFacts
<1>6. k = i /\ i <= n /\ k > n /\ i \in Nat
  BY <1>2, <1>4, <1>5
<1> QED BY <1>6

LEMMA SameAhead ==
  ASSUME NEW x, NEW y, x.task = y.task, x.content = y.content
  PROVE  \A n, f : DirsAhead(x, n, f) => DirsAhead(y, n, f)
<1>1. \A i : ChunkPath(x, i) = ChunkPath(y, i)
  BY Alike
<1> QED BY <1>1 DEF DirsAhead

LEMMA FewerAhead ==
  ASSUME NEW x, x.content \in Files, NEW n \in Nat, NEW m \in Nat, n <= m, NEW f, NEW g, DOMAIN g \subseteq DOMAIN f
  PROVE  DirsAhead(x, n, f) => DirsAhead(x, m, g)
<1>1. Len(Chunks(x.content)) \in Nat
  BY ContentFacts
<1>2. \A i \in 1..Len(Chunks(x.content)) : i > m => i > n
  BY <1>1
<1> QED BY <1>2 DEF DirsAhead

\* A worker goes on with the next chunk, or returns after the last.
LEMMA AdvanceFresh ==
  ASSUME NEW w, NEW j \in Jobs, "OutputExists" \notin j.reports,
         ~ Whole(j) => DirsAhead(j, j.todo, fs'), Advance(w, j)
  PROVE  \E k : FreshStep(w, k)
<1>1. CASE ~ Whole(j) /\ j.todo < Len(Chunks(j.content))
  <2> DEFINE t == j.todo + 1
             k == [j EXCEPT !.pc = "carve", !.todo = t]
  <2>1. Continue(w, [j EXCEPT !.pc = "carve", !.todo = @ + 1])
    BY <1>1 DEF Advance
  <2>2. [j EXCEPT !.pc = "carve", !.todo = @ + 1] = [j EXCEPT !.pc = "carve", !.todo = t]
    BY Zenon
  <2>3. t - 1 = j.todo
    BY DEF Jobs
  <2> HIDE DEF t
  <2>4. Continue(w, k)
    BY <2>1, <2>2, Zenon
  <2>5. k.task = j.task /\ k.content = j.content /\ k.reports = j.reports /\ k.pc = "carve" /\ k.todo = t
    BY Zenon DEF Jobs
  <2> HIDE DEF k
  <2>6. DirsAhead(k, k.todo - 1, fs')
    <3>1. DirsAhead(j, j.todo, fs')
      BY <1>1
    <3>2. k.todo - 1 = j.todo
      BY <2>3, <2>5
    <3> QED BY <2>5, <3>1, <3>2, SameAhead
  <2>7. JobFresh(k, fs') /\ Engaged(k)
    BY <2>5, <2>6 DEF JobFresh, Engaged
  <2> QED BY <2>4, <2>5, <2>7 DEF FreshStep
<1>2. CASE ~ (~ Whole(j) /\ j.todo < Len(Chunks(j.content)))
  <2>1. Return(w, j)
    BY <1>2 DEF Advance
  <2> QED BY <2>1 DEF FreshStep
<1> QED BY <1>1, <1>2

\* Carving makes no directory of a chunk.
LEMMA CarveFresh ==
  ASSUME IInv, NEW w \in Workers, CarveUnknownHere(w) \/ CarveChunkHere(w), JobFresh(work[w], fs)
  PROVE  \E j : FreshStep(w, j)
<1> DEFINE job == work[w]  c == CarveDir(job)  n == job.todo - 1  r == Report(job, "UnknownError")
<1>1. Busy(w) /\ job.pc \in {"unknown", "carve"} /\ job.pc \in FilePcs /\ "OutputExists" \notin job.reports
  BY DEF CarveUnknownHere, CarveChunkHere, Busy, FilePcs, JobFresh
<1>2. /\ job \in Jobs /\ job.task.path \in Paths /\ c \in Paths /\ job.content \in Files /\ DOMAIN fs \subseteq Paths
      /\ job.todo \in 1..Len(Chunks(job.content)) /\ c = Beside(Path(w)) /\ Path(w) \in Paths /\ FileLocal(w)
  BY <1>1, OwnFile DEF FileLocal
<1>3. n \in Nat /\ job.todo \in Nat
  BY <1>2 DEF Jobs
<1>4. DirsAhead(job, n, fs)
  <2>1. CASE job.pc = "carve"
    BY <2>1 DEF JobFresh, Single
  <2>2. CASE job.pc = "unknown"
    <3>1. c \notin DOMAIN fs
      BY <1>2, <2>2 DEF FileLocal
    <3>2. \A p \in DOMAIN fs : ~ Under(p, c)
      BY <1>1, <1>2, <3>1, NothingThere
    <3> QED BY <1>2, <3>2, PieceFacts DEF DirsAhead, Child
  <2> QED BY <1>1, <2>1, <2>2
<1>5. "OutputExists" \notin r.reports
  BY <1>1, <1>2 DEF Report, Jobs
<1> HIDE DEF r
<1>6. ASSUME NEW files, NEW next, CarveHere(w, job, files, next), Continue(w, next),
             fs' = With(With(fs, IF files = {} THEN {} ELSE {c}, "dir"), files, "piece"),
             \A p \in files : p \in UnknownPaths(job) \/ \E i \in 1..Len(Chunks(job.content)) : p = ChunkPath(job, i),
             next.task = job.task, next.content = job.content, next.reports = job.reports, next.todo = job.todo,
             next.pc \in {"carve", "check"}, next.pc = "check" => ~ Whole(next)
      PROVE  FreshStep(w, next)
  <2> DEFINE C == IF files = {} THEN {} ELSE {c}
             g == With(fs, C, "dir")
  <2>1. C \subseteq {c}
    OBVIOUS
  <2>2. fs' = With(g, files, "piece")
    BY <1>6
  <2> HIDE DEF C
  <2>3. DOMAIN g = DOMAIN fs \cup C
    BY DEF With
  <2> HIDE DEF g
  <2>4. DOMAIN fs' = DOMAIN g \cup files
    BY <2>2 DEF With
  <2>5. \A p \in DOMAIN fs' \ DOMAIN fs :
           \/ p = CarveDir(job) \/ p \in UnknownPaths(job)
           \/ \E i \in 1..Len(Chunks(job.content)) :
                p = ChunkPath(job, i) \/ (i <= n /\ p \in Paths /\ Under(p, Beside(ChunkPath(job, i))))
    BY <1>6, <2>1, <2>3, <2>4
  <2>6. DirsAhead(job, n, fs')
    <3> HIDE DEF n
    <3> QED BY <1>2, <1>3, <1>4, <2>5, DirsAheadOn
  <2>7. DirsAhead(next, next.todo - 1, fs')
    BY <1>6, <2>6, SameAhead
  <2>8. JobFresh(next, fs') /\ Engaged(next)
    BY <1>1, <1>6, <2>7 DEF JobFresh, Engaged
  <2> QED BY <1>1, <1>6, <2>8 DEF FreshStep
<1>7. ASSUME NEW files, NEW next, CarveHere(w, job, files, next)
      PROVE  \/ FreshStep(w, r)
             \/ /\ Continue(w, next)
                /\ fs' = With(With(fs, IF files = {} THEN {} ELSE {c}, "dir"), files, "piece")
  BY <1>5, <1>7 DEF CarveHere, FreshStep, r
<1>8. CASE CarveUnknownHere(w)
  <2> DEFINE next == [job EXCEPT !.pc = "carve"]
  <2>1. CarveHere(w, job, UnknownPaths(job), next)
    BY <1>8 DEF CarveUnknownHere
  <2>2. /\ next.task = job.task /\ next.content = job.content /\ next.reports = job.reports
        /\ next.todo = job.todo /\ next.pc = "carve"
    BY <1>2 DEF Jobs
  <2> HIDE DEF next
  <2> QED BY <1>6, <1>7, <2>1, <2>2
<1>9. CASE CarveChunkHere(w)
  <2> DEFINE q == ChunkPath(job, job.todo)
             next == [job EXCEPT !.pc = "check", !.src = q]
  <2>1. CarveHere(w, job, {q}, next)
    BY <1>9 DEF CarveChunkHere
  <2>2. q # job.task.path /\ \A p \in {q} : \E i \in 1..Len(Chunks(job.content)) : p = ChunkPath(job, i)
    BY <1>2, PieceFacts
  <2> HIDE DEF q
  <2>3. /\ next.task = job.task /\ next.content = job.content /\ next.reports = job.reports
        /\ next.todo = job.todo /\ next.pc = "check" /\ next.src = q
    BY <1>2, Zenon DEF Jobs
  <2> HIDE DEF next
  <2>4. ~ Whole(next)
    BY <2>2, <2>3 DEF Whole
  <2> QED BY <1>6, <1>7, <2>1, <2>2, <2>3, <2>4
<1> QED BY <1>8, <1>9

\* A worker that looks for its output directory is the first to be there.
LEMMA NothingMade ==
  ASSUME IInv, FilesFresh, NEW w \in Workers, Busy(w), work[w].pc = "check", JobFresh(work[w], fs)
  PROVE  ~ Exists(Beside(work[w].src))
<1> DEFINE job == work[w]
<1> SUFFICES ASSUME Beside(job.src) \in DOMAIN fs PROVE FALSE
  BY DEF Exists
<1>1. job.pc \in FilePcs
  BY DEF FilePcs
<1>2. /\ Unique /\ job \in Jobs /\ FileLocal(w) /\ job.content \in Files /\ Path(w) \in DOMAIN fs /\ fs[Path(w)] \in Files
      /\ job.task.path = Path(w) /\ job.todo \in 1..Len(Chunks(job.content)) /\ Len(Chunks(job.content)) \in Nat
  BY <1>1, OwnFile, ContentFacts DEF FileLocal, IInv
<1>3. CASE Whole(job)
  <2>1. Begun(Path(w))
    BY <1>2, <1>3 DEF FilesFresh, Whole
  <2>2. At("work", w, 0, Path(w))
    BY DEF At, Busy, Path
  <2>3. ~ Done(Path(w))
    BY <1>2, <2>2 DEF Unique, Done
  <2>4. PICK v \in Workers : Busy(v) /\ Path(v) = Path(w) /\ Engaged(work[v])
    BY <2>1, <2>3 DEF Begun
  <2>5. At("work", v, 0, Path(w))
    BY <2>4 DEF At, Busy, Path
  <2>6. v = w
    BY <1>2, <2>2, <2>5 DEF Unique
  <2> QED BY <1>3, <2>4, <2>6 DEF Engaged
<1>4. CASE ~ Whole(job)
  <2>1. job.src = ChunkPath(job, job.todo)
    BY <1>2, <1>4 DEF FileLocal
  <2>2. DirsAhead(job, job.todo - 1, fs)
    BY <1>4 DEF JobFresh, Single
  <2>3. job.todo > job.todo - 1
    BY <1>2 DEF Jobs
  <2> QED BY <1>2, <2>1, <2>2, <2>3 DEF DirsAhead
<1> QED BY <1>3, <1>4

\* A worker goes on with the same chunk.
LEMMA GoesFresh ==
  ASSUME IInv, NEW w \in Workers, Busy(w), work[w].pc \in {"check", "mkdir", "extract"}, JobFresh(work[w], fs),
         NEW j, Carries(j, work[w]), j.reports = work[w].reports, j.src = work[w].src, j.todo = work[w].todo,
         j.pc \in {"mkdir", "extract", "settle"}, Continue(w, j),
         \A p \in DOMAIN fs' \ DOMAIN fs : p \in Paths /\ Under(p, Beside(work[w].src))
  PROVE  FreshStep(w, j)
<1> DEFINE job == work[w]  n == job.todo
<1>1. work[w].pc \in FilePcs
  BY DEF FilePcs
<1>2. /\ job \in Jobs /\ job.content \in Files /\ job.task.path \in Paths /\ n \in 1..Len(Chunks(job.content))
      /\ Whole(job) \/ job.src = ChunkPath(job, n)
  BY <1>1, OwnFile DEF FileLocal
<1>3. j.task = job.task /\ j.content = job.content
  BY DEF Carries
<1>4. Engaged(j) /\ (Single(j) <=> Single(job)) /\ "OutputExists" \notin j.reports
  BY <1>3 DEF Single, Whole, Engaged, JobFresh
<1>5. CASE Single(job)
  BY <1>4, <1>5 DEF FreshStep, JobFresh
<1>6. CASE ~ Single(job)
  <2>1. job.src = ChunkPath(job, n) /\ n \in Nat /\ n - 1 \in Nat /\ n - 1 <= n
    BY <1>2, <1>6 DEF Single, Jobs
  <2>2. DirsAhead(job, n, fs)
    <3>1. DirsAhead(job, n - 1, fs) \/ DirsAhead(job, n, fs)
      BY <1>6 DEF JobFresh
    <3> HIDE DEF n
    <3>2. DirsAhead(job, n - 1, fs) => DirsAhead(job, n, fs)
      BY <1>2, <2>1, FewerAhead
    <3> QED BY <3>1, <3>2
  <2> HIDE DEF n
  <2>3. \A p \in DOMAIN fs' \ DOMAIN fs :
           \/ p = CarveDir(job) \/ p \in UnknownPaths(job)
           \/ \E i \in 1..Len(Chunks(job.content)) :
                p = ChunkPath(job, i) \/ (i <= n /\ p \in Paths /\ Under(p, Beside(ChunkPath(job, i))))
    <3>1. n <= n
      BY <2>1
    <3> QED BY <1>2, <2>1, <3>1
  <2>4. DirsAhead(job, n, fs')
    BY <1>2, <2>1, <2>2, <2>3, DirsAheadOn
  <2>5. DirsAhead(j, j.todo, fs')
    BY <1>3, <2>4, SameAhead DEF n
  <2> QED BY <1>4, <2>5 DEF FreshStep, JobFresh
<1> QED BY <1>5, <1>6

LEMMA CheckDirFresh ==
  ASSUME IInv, FilesFresh, NEW w \in Workers, CheckDirHere(w), JobFresh(work[w], fs)
  PROVE  \E j : FreshStep(w, j)
<1> DEFINE job == work[w]
           r == TheChunk(job).result
           pc == IF r = "silent" THEN "settle" ELSE "mkdir"
           e == Beside(job.src)
           j == [job EXCEPT !.outcome = r, !.extract_dir = e, !.pc = pc]
<1>1. Busy(w) /\ job.pc = "check" /\ job.pc \in FilePcs /\ fs' = fs
  BY DEF CheckDirHere, Busy, FilePcs
<1>2. job \in Jobs /\ ~ Exists(Beside(job.src))
  BY <1>1, OwnFile, NothingMade
<1>3. Continue(w, j)
  BY <1>2 DEF CheckDirHere
<1>4. pc \in {"settle", "mkdir"}
  OBVIOUS
<1> HIDE DEF r, pc, e
<1>5. j.reports = job.reports /\ j.todo = job.todo
  BY <1>2, Zenon DEF Jobs
<1>6. Carries(j, job) /\ j.pc = pc /\ j.src = job.src
  <2>1. j = WithOutcome(job, r, e, pc)
    BY DEF WithOutcome
  <2> HIDE DEF j
  <2> QED BY <1>2, <2>1, CarriesOutcome
<1> HIDE DEF j
<1> QED BY <1>1, <1>3, <1>4, <1>5, <1>6, GoesFresh

LEMMA MakeDirFresh ==
  ASSUME IInv, NEW w \in Workers, MakeDirHere(w), JobFresh(work[w], fs)
  PROVE  \E j : FreshStep(w, j)
<1> DEFINE job == work[w]  d == Beside(job.src)  j == [job EXCEPT !.pc = "extract"]
<1>1. Busy(w) /\ job.pc = "mkdir" /\ job.pc \in FilePcs
  BY DEF MakeDirHere, Busy, FilePcs
<1>2. job \in Jobs /\ d \notin DOMAIN fs /\ d \in Paths
  BY <1>1, OwnFile, TheTree DEF FileLocal
<1>3. Continue(w, j) /\ fs' = With(fs, {d}, "dir")
  BY <1>2 DEF MakeDirHere, Exists
<1>4. Carries(j, job) /\ j.pc = "extract" /\ j.src = job.src /\ j.todo = job.todo /\ j.reports = job.reports
  BY <1>2, CarriesOn DEF Jobs
<1> HIDE DEF j, d
<1>5. DOMAIN fs' = DOMAIN fs \cup {d}
  BY <1>3 DEF With
<1>6. \A p \in DOMAIN fs' \ DOMAIN fs : p \in Paths /\ Under(p, Beside(job.src))
  BY <1>2, <1>5, UnderOrder DEF d
<1> QED BY <1>1, <1>3, <1>4, <1>6, GoesFresh

LEMMA ExtractFresh ==
  ASSUME IInv, NEW w \in Workers, ExtractHere(w), JobFresh(work[w], fs)
  PROVE  \E j : FreshStep(w, j)
<1> DEFINE job == work[w]  d == Beside(job.src)  j == [job EXCEPT !.pc = "settle"]  tree == TheChunk(job).tree
<1>1. Busy(w) /\ job.pc = "extract" /\ job.pc \in FilePcs /\ Continue(w, j) /\ fs' = WithTree(fs, d, tree)
  BY DEF ExtractHere, Busy, FilePcs
<1>2. job \in Jobs /\ d \in Paths /\ DOMAIN tree \subseteq Paths
  BY <1>1, OwnFile, TheTree
<1>3. Carries(j, job) /\ j.pc = "settle" /\ j.src = job.src /\ j.todo = job.todo /\ j.reports = job.reports
  BY <1>2, CarriesOn DEF Jobs
<1> HIDE DEF j, d, tree
<1>4. DOMAIN fs' = DOMAIN fs \cup {d \o r : r \in DOMAIN tree}
  BY <1>1 DEF WithTree
<1>5. \A p \in DOMAIN fs' \ DOMAIN fs : p \in Paths /\ Under(p, Beside(job.src))
  <2>1. \A r \in DOMAIN tree : d \o r \in Paths /\ Under(d \o r, d)
    BY <1>2, ConcatFacts
  <2> QED BY <1>4, <2>1 DEF d
<1> QED BY <1>1, <1>3, <1>5, GoesFresh

LEMMA SettleFresh ==
  ASSUME IInv, NEW w \in Workers, SettleHere(w), JobFresh(work[w], fs)
  PROVE  \E j : FreshStep(w, j)
<1> DEFINE job == work[w]  d == Beside(job.src)  t == job.todo
           empty == Exists(d) /\ \A p \in DOMAIN fs : ~ Child(p, d)
           reported == IF job.outcome = "error" THEN Report(job, "ExtractError") ELSE job
           ts == <<SubTask(d, job.task.depth + 1)>>
           j == IF Exists(d) /\ ~ empty THEN Spawn(reported, ts) ELSE reported
           R == (IF empty THEN {d} ELSE {})
                \cup (IF ~ Whole(job) /\ job.outcome = "ok" /\ ~ config.keep THEN {job.src} ELSE {})
<1>1. /\ Busy(w) /\ job.pc = "settle" /\ job.pc \in FilePcs /\ fs' = Without(fs, R)
      /\ IF ShouldDelete(job) THEN Continue(w, [j EXCEPT !.pc = "delete"]) ELSE Advance(w, j)
  BY DEF SettleHere, Busy, FilePcs
<1>2. job \in Jobs /\ d \in Paths /\ job.content \in Files /\ "OutputExists" \notin job.reports
  BY <1>1, OwnFile, TheTree DEF FileLocal, JobFresh
<1>3. /\ j \in Jobs /\ j.src = job.src /\ j.todo = t /\ j.task = job.task /\ j.content = job.content
      /\ "OutputExists" \notin j.reports
  <2>1. \A x \in {reported, Spawn(reported, ts)} :
          x \in Jobs /\ x.outcome = job.outcome /\ x.src = job.src /\ x.todo = job.todo /\ x.content = job.content
    BY <1>2, SettledJob
  <2>2. j \in {reported, Spawn(reported, ts)}
    OBVIOUS
  <2>3. reported.task = job.task /\ "OutputExists" \notin reported.reports
    BY <1>2 DEF Report, Jobs
  <2>4. Spawn(reported, ts).task = reported.task /\ Spawn(reported, ts).reports = reported.reports
    <3>1. reported \in Jobs
      BY <2>1
    <3> HIDE DEF reported, ts
    <3> QED BY <3>1 DEF Spawn, Jobs
  <2> HIDE DEF reported, ts, j
  <2> QED BY <2>1, <2>2, <2>3, <2>4
<1> HIDE DEF j, R
<1>4. DOMAIN fs' \subseteq DOMAIN fs
  BY <1>1 DEF Without
<1>5. CASE ShouldDelete(job)
  <2> DEFINE next == [j EXCEPT !.pc = "delete"]
  <2>1. Continue(w, next)
    BY <1>1, <1>5
  <2>2. next.pc = "delete" /\ next.reports = j.reports
    BY <1>3 DEF Jobs
  <2> HIDE DEF next
  <2>3. JobFresh(next, fs') /\ Engaged(next)
    BY <1>3, <2>2 DEF JobFresh, Engaged
  <2> QED BY <1>3, <2>1, <2>2, <2>3 DEF FreshStep
<1>6. CASE ~ ShouldDelete(job)
  <2>1. Advance(w, j)
    BY <1>1, <1>6
  <2>2. ASSUME ~ Whole(j) PROVE DirsAhead(j, j.todo, fs')
    <3>1. ~ Single(job)
      BY <1>3, <2>2 DEF Single, Whole
    <3>2. DirsAhead(job, t, fs)
      BY <1>1, <3>1 DEF JobFresh
    <3>3. DirsAhead(job, t, fs')
      BY <1>4, <3>2 DEF DirsAhead
    <3> QED BY <1>3, <3>3, SameAhead
  <2> QED BY <1>3, <2>1, <2>2, AdvanceFresh
<1> QED BY <1>5, <1>6

LEMMA DeleteFresh ==
  ASSUME IInv, NEW w \in Workers, DeleteExtracted(w), JobFresh(work[w], fs)
  PROVE  \E j : FreshStep(w, j)
<1> DEFINE job == work[w]  r == Report(job, "Deleted")
<1>1. Busy(w) /\ job.pc \in FilePcs /\ "OutputExists" \notin job.reports
  BY DEF DeleteExtracted, Busy, FilePcs, JobFresh
<1>2. job \in Jobs
  BY <1>1, OwnFile
<1>3. "OutputExists" \notin r.reports
  BY <1>1, <1>2 DEF Report, Jobs
<1> HIDE DEF r
<1>4. Return(w, r) \/ Return(w, job)
  BY DEF DeleteExtracted, r
<1> QED BY <1>1, <1>3, <1>4 DEF FreshStep

\* A worker on a directory extracts nothing of its own.
LEMMA DirFresh ==
  ASSUME IInv, NEW w \in Workers, DirHandlerHere(w) \/ ExtractMultiHere(w) \/ Iterate(w), JobFresh(work[w], fs)
  PROVE  \E j : FreshStep(w, j)
<1> DEFINE job == work[w]
<1>1. /\ Busy(w) /\ job.pc \in {"dir_handler", "multi"} /\ job.pc \notin FilePcs /\ "OutputExists" \notin job.reports
  BY DEF DirHandlerHere, ExtractMultiHere, Iterate, Busy, FilePcs, JobFresh
<1>2. job \in Jobs
  BY <1>1, OwnDir
<1>3. ASSUME NEW j, Continue(w, j) \/ Return(w, j), "OutputExists" \notin j.reports, j.pc \in {"dir_handler", "multi"}
      PROVE  \E k : FreshStep(w, k)
  BY <1>1, <1>3 DEF FreshStep, JobFresh
<1>4. CASE Iterate(w)
  <2>1. PICK s : Return(w, Spawn(job, s))
    BY <1>4 DEF Iterate
  <2> DEFINE j == Spawn(job, s)
  <2>2. Return(w, j) /\ j.reports = job.reports /\ j.pc = job.pc
    BY <1>2, <2>1 DEF Spawn, Jobs
  <2> HIDE DEF j
  <2> QED BY <1>1, <1>3, <2>2
<1>5. CASE DirHandlerHere(w)
  <2>1. \/ Continue(w, [job EXCEPT !.todo = @ + 1])
        \/ Return(w, Report(job, "MultiFileCollision"))
        \/ Return(w, Report(job, "MultiOutputExists"))
        \/ Continue(w, [job EXCEPT !.pc = "multi", !.extract_dir = MultiHere(job)])
    BY <1>5 DEF DirHandlerHere
  <2>2. ASSUME NEW x, x \in {[job EXCEPT !.todo = @ + 1], Report(job, "MultiFileCollision"),
                             Report(job, "MultiOutputExists"),
                             [job EXCEPT !.pc = "multi", !.extract_dir = MultiHere(job)]}
        PROVE  "OutputExists" \notin x.reports /\ x.pc \in {"dir_handler", "multi"}
    <3> DEFINE m == MultiHere(job)  y == [job EXCEPT !.pc = "multi", !.extract_dir = m]
    <3>1. y.reports = job.reports /\ y.pc = "multi"
      <4> HIDE DEF m
      <4> QED BY <1>2 DEF Jobs
    <3> HIDE DEF y
    <3>2. CASE x = y
      BY <1>1, <3>1, <3>2
    <3>3. CASE x # y
      BY <1>1, <1>2, <2>2, <3>3 DEF Jobs, Report, y, m
    <3> QED BY <3>2, <3>3
  <2> QED BY <1>3, <2>1, <2>2
<1>6. CASE ExtractMultiHere(w)
  <2> DEFINE reported == IF Handler(job).result = "error" THEN Report(job, "MultiError") ELSE job
             S == Parts(job)
             next == [reported EXCEPT !.processed = @ \cup S, !.todo = @ + 1, !.pc = "dir_handler"]
             d == MultiHere(job)
             more == [next EXCEPT !.extract_dirs = @ \cup {d}]
             last == Spawn(more, <<SubTask(d, job.task.depth + 1)>>)
  <2>1. Continue(w, last) \/ Continue(w, next)
    BY <1>6 DEF ExtractMultiHere
  <2>2. "OutputExists" \notin reported.reports
    BY <1>1, <1>2 DEF Report, Jobs
  <2>3. DOMAIN reported = DOMAIN job
    BY DEF Report
  <2>4. DOMAIN job = {"task", "content", "pc", "todo", "src", "carve_dir",
                  "extract_dir", "outcome", "subtasks", "reports", "processed", "extract_dirs"}
    BY <1>2 DEF Jobs
  <2> HIDE DEF reported, S
  <2>5. next.reports = reported.reports /\ next.pc = "dir_handler" /\ DOMAIN next = DOMAIN reported
    BY <2>3, <2>4, Zenon
  <2> HIDE DEF next
  <2>6. more.reports = next.reports /\ more.pc = next.pc /\ DOMAIN more = DOMAIN next
    BY <2>3, <2>4, <2>5
  <2> HIDE DEF more
  <2>7. last.reports = more.reports /\ last.pc = more.pc
    BY <2>3, <2>4, <2>5, <2>6 DEF Spawn
  <2> HIDE DEF last
  <2> QED BY <1>3, <2>1, <2>2, <2>5, <2>6, <2>7
<1> QED BY <1>4, <1>5, <1>6

LEMMA StepFresh ==
  ASSUME IInv, FilesFresh, NEW w \in Workers, WorkHere(w), ~ TakeTaskHere(w), JobFresh(work[w], fs)
  PROVE  \E j : FreshStep(w, j)
<1>1. CASE CarveUnknownHere(w) \/ CarveChunkHere(w)
  BY <1>1, CarveFresh
<1>2. CASE CheckDirHere(w)
  BY <1>2, CheckDirFresh
<1>3. CASE MakeDirHere(w)
  BY <1>3, MakeDirFresh
<1>4. CASE ExtractHere(w)
  BY <1>4, ExtractFresh
<1>5. CASE SettleHere(w)
  BY <1>5, SettleFresh
<1>6. CASE DeleteExtracted(w)
  BY <1>6, DeleteFresh
<1>7. CASE DirHandlerHere(w) \/ ExtractMultiHere(w) \/ Iterate(w)
  BY <1>7, DirFresh
<1> QED BY <1>1, <1>2, <1>3, <1>4, <1>5, <1>6, <1>7 DEF WorkHere

\* Other workers make none of the directories that a worker is about to make.
LEMMA FreshFrame ==
  ASSUME IInv, NEW v \in Workers, Busy(v), JobFresh(work[v], fs), \A p : InRegion(v, p) => Same(fs, fs', p)
  PROVE  JobFresh(work[v], fs')
<1> DEFINE job == work[v]
<1>1. CASE Single(job) \/ job.pc \notin {"carve", "check", "mkdir", "extract", "settle"}
  BY <1>1 DEF JobFresh
<1>2. CASE ~ Single(job) /\ job.pc \in {"carve", "check", "mkdir", "extract", "settle"}
  <2>1. job.pc \in FilePcs /\ Engaged(job)
    BY <1>2 DEF FilePcs, Engaged, Single
  <2>2. job.content \in Files /\ job.task.path \in Paths
    BY <2>1, OwnFile DEF FileLocal
  <2>3. \A i \in 1..Len(Chunks(job.content)) : InRegion(v, Beside(ChunkPath(job, i)))
    BY <2>1, <2>2, PieceFacts DEF InRegion, Child
  <2>4. \A n : DirsAhead(job, n, fs) => DirsAhead(job, n, fs')
    BY <2>3 DEF DirsAhead, Same
  <2> QED BY <2>4 DEF JobFresh
<1> QED BY <1>1, <1>2

\* A file that was processed, or is, stays so.
LEMMA BegunStays ==
  ASSUME IInv, IInv', NEW w \in Workers, StepOK(w), NEW p, Begun(p),
         Busy(w)' /\ work[w].pc \in FilePcs => Engaged(work'[w])
  PROVE  Begun(p)'
<1>1. PICK new : Effect(w, new) /\ (Goes(w, new) \/ Returns(w, new))
  BY DEF StepOK
<1>2. Busy(w) /\ UNCHANGED <<queue, results, host>>
  BY DEF StepOK
<1>3. /\ Moved(new) /\ \A v \in Workers : v # w => work'[v] = work[v]
      /\ Goes(w, new) => work'[w] \in Jobs /\ work'[w].task = work[w].task
      /\ ~ Goes(w, new) => work'[w] = Idle /\ \A q : q = Path(w) => Done(q)'
  BY <1>1, <1>2, StepMoves
<1>4. CASE Done(p)
  BY <1>3, <1>4 DEF Moved, Begun
<1>5. ASSUME NEW v \in Workers, Busy(v), Path(v) = p, Engaged(work[v]) PROVE Begun(p)'
  <2>1. CASE v # w
    <3>1. work'[v] = work[v]
      BY <1>3, <2>1
    <3>2. Busy(v)' /\ Path(v)' = p /\ Engaged(work'[v])
      BY <1>5, <3>1 DEF Busy, Path
    <3> QED BY <3>2 DEF Begun
  <2>2. CASE v = w /\ ~ Goes(w, new)
    BY <1>3, <1>5, <2>2 DEF Begun
  <2>3. CASE v = w /\ Goes(w, new)
    <3>1. work[w].pc \in FilePcs
      BY <1>5, <2>3 DEF Engaged, FilePcs
    <3>2. Busy(w)' /\ Path(w)' = p
      BY <1>3, <1>5, <2>3, IdleAssumption DEF Busy, Path
    <3> QED BY <3>1, <3>2 DEF Begun
  <2> QED BY <2>1, <2>2, <2>3
<1> QED BY <1>4, <1>5 DEF Begun

\* A worker that has made a directory beside its file is at work on it, or has ended.
LEMMA BegunNow ==
  ASSUME IInv, IInv', NEW w \in Workers, StepOK(w), Busy(w)' => Engaged(work'[w])
  PROVE  \A p : p = Path(w) => Begun(p)'
<1>1. PICK new : Effect(w, new) /\ (Goes(w, new) \/ Returns(w, new))
  BY DEF StepOK
<1>2. Busy(w) /\ UNCHANGED <<queue, results, host>>
  BY DEF StepOK
<1>3. /\ Goes(w, new) => work'[w] \in Jobs /\ work'[w].task = work[w].task
      /\ ~ Goes(w, new) => work'[w] = Idle /\ \A q : q = Path(w) => Done(q)'
  BY <1>1, <1>2, StepMoves
<1>4. CASE ~ Goes(w, new)
  BY <1>3, <1>4 DEF Begun
<1>5. CASE Goes(w, new)
  <2>1. Busy(w)' /\ \A p : p = Path(w) => Path(w)' = p
    BY <1>3, <1>5, IdleAssumption DEF Busy, Path
  <2> QED BY <2>1 DEF Begun
<1> QED BY <1>4, <1>5

\* A step of a worker keeps the invariant.
LEMMA StepFreshInv ==
  ASSUME IInv, IInv', FreshNames, FreshInv, NEW w \in Workers, WorkHere(w), ~ TakeTaskHere(w), StepOK(w)
  PROVE  FreshInv'
<1>1. /\ Busy(w) /\ TypeOK /\ Unique /\ RegionInv /\ Quiet /\ results' = results /\ config' = config /\ phase' = phase
  BY DEF IInv, StepOK, host
<1> SUFFICES ASSUME config.force
             PROVE  /\ phase' = "prepare" => Beside(InputPath) \notin DOMAIN fs'
                    /\ phase' = "run" => FilesFresh'
                    /\ \A v \in Workers : Busy(v)' => JobFresh(work'[v], fs')
                    /\ \A r : Finished(r)' => "OutputExists" \notin r.reports
  BY <1>1 DEF FreshInv
<1>2. phase = "run" /\ FilesFresh
  BY <1>1 DEF Quiet, Busy, FreshInv
<1>3. PICK new : Effect(w, new) /\ (Goes(w, new) \/ Returns(w, new))
  BY DEF StepOK
<1>4. PICK j : FreshStep(w, j)
  BY <1>1, <1>2, StepFresh DEF FreshInv
<1>5. /\ Return(w, j) => work'[w] = Idle /\ ResultOfJob(j) \in TaskResults
      /\ Continue(w, j) => work'[w] = j /\ Busy(w)' /\ outbox' = outbox
  BY <1>1, <1>4, StepEnds DEF FreshStep, Ends
<1>6. ASSUME NEW v \in Workers, Busy(v)' PROVE JobFresh(work'[v], fs')
  <2>1. CASE v # w
    <3>1. work'[v] = work[v] /\ Busy(v)
      BY <1>1, <1>3, <1>6, <2>1, StepMoves DEF StepOK, Busy
    <3>2. \A p : InRegion(v, p) => Same(fs, fs', p)
      BY <1>1, <1>3, <2>1, <3>1, WorkersApart DEF Effect
    <3>3. JobFresh(work[v], fs')
      BY <3>1, <3>2, FreshFrame DEF FreshInv
    <3> QED BY <3>1, <3>3
  <2>2. CASE v = w
    BY <1>4, <1>5, <1>6, <2>2 DEF FreshStep, Busy
  <2> QED BY <2>1, <2>2
<1>7. ASSUME NEW r, Finished(r)' PROVE "OutputExists" \notin r.reports
  <2>1. CASE Finished(r)
    BY <2>1 DEF FreshInv
  <2>2. CASE ~ Finished(r)
    <3>1. Return(w, j) /\ r = ResultOfJob(j)
      BY <1>1, <1>4, <1>5, <1>7, <2>2, StepFinished DEF FreshStep
    <3>2. r.reports = j.reports
      BY <3>1 DEF ResultOfJob
    <3> QED BY <1>4, <3>2 DEF FreshStep
  <2> QED BY <2>1, <2>2
<1>8. Busy(w)' /\ work[w].pc \in FilePcs => Engaged(work'[w])
  BY <1>4, <1>5 DEF FreshStep, Busy
<1>9. Makes(w)
  BY <1>2, StepMakes
<1>10. ASSUME NEW p \in DOMAIN fs', fs'[p] \in Files
       PROVE  (p # InputPath => FreeName(p)) /\ (Beside(p) \in DOMAIN fs' => Begun(p)')
  <2>1. CASE p \notin DOMAIN fs
    BY <1>9, <1>10, <2>1 DEF Makes
  <2>2. CASE p \in DOMAIN fs
    <3>1. fs[p] \in Files
      BY <1>3, <1>10, <2>2 DEF Effect
    <3>2. (p # InputPath => FreeName(p)) /\ (Beside(p) \in DOMAIN fs => Begun(p))
      BY <1>2, <2>2, <3>1 DEF FilesFresh
    <3>3. CASE Beside(p) \in DOMAIN fs
      BY <1>8, <3>2, <3>3, BegunStays
    <3>4. CASE Beside(p) \in DOMAIN fs' \ DOMAIN fs
      <4>1. p = Path(w) /\ work[w].pc \in FilePcs
        BY <1>9, <2>2, <3>1, <3>4 DEF Makes
      <4> QED BY <1>8, <3>2, <4>1, BegunNow
    <3> QED BY <3>2, <3>3, <3>4
  <2> QED BY <2>1, <2>2
<1>11. FilesFresh'
  BY <1>10 DEF FilesFresh, FreeName
<1> QED BY <1>1, <1>2, <1>6, <1>7, <1>11

LEMMA DoneFinished ==
  ASSUME NEW p, Done(p)
  PROVE  \E r : Finished(r) /\ p = r.task.path
<1>1. PICK k, x, i : k \in {"out", "res"} /\ At(k, x, i, p)
  BY DEF Done
<1>2. CASE k = "out"
  BY <1>1, <1>2 DEF At, Finished
<1>3. CASE k = "res"
  BY <1>1, <1>3 DEF At, Finished
<1> QED BY <1>1, <1>2, <1>3

\* Files and the tasks that have ended stay; so do the workers that are busy.
LEMMA SameFiles ==
  ASSUME FilesFresh, fs' = fs, \A r : Finished(r) => Finished(r)',
         \A v \in Workers : Busy(v) => work'[v] = work[v]
  PROVE  FilesFresh'
<1>1. \A p : Done(p) => Done(p)'
  <2>1. ASSUME NEW p, NEW r, Finished(r)', p = r.task.path PROVE Done(p)'
    <3>1. (\E i : At("out", i, 0, p)') \/ (\E i : At("res", i, 0, p)')
      BY <2>1 DEF Finished, At
    <3> QED BY <3>1 DEF Done
  <2> QED BY <2>1, DoneFinished
<1>2. ASSUME NEW v \in Workers, Busy(v), NEW p, Path(v) = p, Engaged(work[v])
      PROVE  Busy(v)' /\ Path(v)' = p /\ Engaged(work'[v])
  BY <1>2 DEF Busy, Path
<1>3. \A p : Begun(p) => Begun(p)'
  BY <1>1, <1>2 DEF Begun
<1>4. ASSUME NEW p \in DOMAIN fs, fs[p] \in Files
      PROVE  (p # InputPath => FreeName(p)) /\ (Beside(p) \in DOMAIN fs => Begun(p)')
  BY <1>3, <1>4 DEF FilesFresh
<1> QED BY <1>4 DEF FilesFresh, FreeName

\* A file that is taken from the queue has no extraction directory yet.
LEMMA TakeFresh ==
  ASSUME IInv, FreshInv, NEW w \in Workers, TakeTaskHere(w)
  PROVE  FreshInv'
<1> DEFINE t == Head(queue)
           c == fs[t.path]
           a == Job(t, c, "none")
           j1 == Job(t, c, "dir_handler")  j2 == Job(t, c, "check")
           j3 == Report(Starting(t, c), "CarveDirectory")
<1>1. /\ phase = "run" /\ work[w] = Idle /\ queue # <<>> /\ results' = results /\ fs' = fs
      /\ config' = config /\ phase' = phase /\ TypeOK /\ Unique
      /\ \A v \in Workers : v # w => work'[v] = work[v]
  BY DEF TakeTaskHere, IInv, host, TypeOK, Return, Continue
<1> SUFFICES ASSUME config.force
             PROVE  /\ FilesFresh'
                    /\ \A v \in Workers : Busy(v)' => JobFresh(work'[v], fs)
                    /\ \A r : Finished(r)' => "OutputExists" \notin r.reports
  BY <1>1 DEF FreshInv
<1>2. t \in Tasks /\ t.path \in Paths /\ t.path \in DOMAIN fs /\ c \in Nodes /\ c # "piece"
  BY <1>1, FirstTask
<1>3. /\ work \in [Workers -> Jobs \cup {Idle}] /\ FilesFresh
  BY <1>1 DEF TypeOK, FreshInv
<1>4. ~ Ignored(t) /\ c # "dir" => ~ Exists(Beside(t.path))
  <2> SUFFICES ASSUME ~ Ignored(t), c # "dir", Beside(t.path) \in DOMAIN fs PROVE FALSE
    BY DEF Exists
  <2>1. c \in Files
    BY <1>2, NotIgnored
  <2>2. Begun(t.path)
    BY <1>2, <1>3, <2>1 DEF FilesFresh
  <2>3. 1 \in DOMAIN queue /\ t = queue[1]
    BY <1>1, TailCases DEF TypeOK
  <2> HIDE DEF t, c
  <2>4. At("queue", 0, 1, t.path)
    BY <2>3 DEF At
  <2>5. ~ Done(t.path)
    BY <1>1, <2>4 DEF Unique, Done
  <2>6. PICK v \in Workers : Busy(v) /\ Path(v) = t.path
    BY <2>2, <2>5 DEF Begun
  <2>7. At("work", v, 0, t.path)
    BY <2>6 DEF At, Busy, Path
  <2> QED BY <1>1, <2>4, <2>7 DEF Unique
<1>5. Return(w, a) \/ Continue(w, j1) \/ Continue(w, j2) \/ Continue(w, j3)
  BY <1>2, <1>4 DEF TakeTaskHere, Exists, Starting
<1>6. a.task = t /\ a.content = c /\ a.subtasks = <<>> /\ a.reports = {}
  BY DEF Job
<1>7. ResultOfJob(a) \in TaskResults /\ ResultOfJob(a).reports = {}
  <2>1. <<>> \in Seq(Tasks) /\ {} \subseteq Reports
    OBVIOUS
  <2> HIDE DEF a, t, c
  <2> QED BY <1>2, <1>6, <2>1 DEF ResultOfJob, TaskResults
<1>8. JobFresh(j1, fs) /\ JobFresh(j2, fs) /\ JobFresh(j3, fs)
  <2>1. /\ j1.pc = "dir_handler" /\ j1.reports = {}
        /\ j2.pc = "check" /\ Whole(j2) /\ j2.reports = {}
        /\ j3.pc = "unknown" /\ j3.reports = {"CarveDirectory"}
    BY DEF Job, Starting, Report, Whole
  <2> HIDE DEF j1, j2, j3
  <2> QED BY <2>1 DEF JobFresh, Single
<1> HIDE DEF a, t, c, j1, j2, j3
<1>9. CASE Return(w, a)
  <2>1. \A r : Finished(r)' <=> Finished(r) \/ r = ResultOfJob(a)
    BY <1>1, <1>7, <1>9, StepFinished
  <2>2. work'[w] = Idle
    BY <1>3, <1>9 DEF Return
  <2>3. \A v \in Workers : Busy(v)' => work'[v] = work[v] /\ Busy(v)
    BY <1>1, <2>2 DEF Busy
  <2>4. FilesFresh'
    BY <1>1, <1>3, <2>1, SameFiles DEF Busy
  <2>5. \A v \in Workers : Busy(v)' => JobFresh(work'[v], fs)
    BY <2>3 DEF FreshInv
  <2>6. \A r : Finished(r)' => "OutputExists" \notin r.reports
    BY <1>7, <2>1 DEF FreshInv
  <2> QED BY <2>4, <2>5, <2>6
<1>10. ASSUME NEW j \in {j1, j2, j3}, Continue(w, j)
       PROVE  /\ FilesFresh'
              /\ \A v \in Workers : Busy(v)' => JobFresh(work'[v], fs)
              /\ \A r : Finished(r)' => "OutputExists" \notin r.reports
  <2>1. work'[w] = j /\ outbox' = outbox
    BY <1>3, <1>10 DEF Continue
  <2>2. \A r : Finished(r)' <=> Finished(r)
    BY <1>1, <2>1, StepFinished
  <2>3. FilesFresh'
    BY <1>1, <1>3, <2>2, SameFiles DEF Busy
  <2>4. ASSUME NEW v \in Workers, Busy(v)' PROVE JobFresh(work'[v], fs)
    <3>1. CASE v = w
      BY <1>8, <1>10, <2>1, <3>1
    <3>2. CASE v # w
      BY <1>1, <2>4, <3>2 DEF FreshInv, Busy
    <3> QED BY <3>1, <3>2
  <2>5. \A r : Finished(r)' => "OutputExists" \notin r.reports
    BY <2>2 DEF FreshInv
  <2> QED BY <2>3, <2>4, <2>5
<1> QED BY <1>5, <1>9, <1>10

\* The run starts with nothing but the input file.
LEMMA PrepareFresh ==
  ASSUME Inv, FreshInv, PrepareReport
  PROVE  FreshInv'
<1>1. /\ phase = "prepare" /\ phase' \in {"run", "refused"} /\ fs' = fs /\ config' = config /\ work' = work
      /\ outbox' = <<>> /\ results' = <<>> /\ \A w \in Workers : work'[w] = Idle
  BY DEF PrepareReport, Inv, IInv, Quiet
<1> SUFFICES ASSUME config.force PROVE FilesFresh'
  BY <1>1 DEF FreshInv, Busy, Finished
<1>2. Beside(InputPath) \notin DOMAIN fs
  BY <1>1 DEF FreshInv
<1>3. \A p \in DOMAIN fs : ~ Under(p, Beside(InputPath))
  BY <1>2, InputFacts, NothingThere DEF Inv
<1>4. \A p \in DOMAIN fs : p = InputPath
  BY <1>3 DEF Inv, RootInv, RootFs
<1> QED BY <1>1, <1>2, <1>4 DEF FilesFresh

\* Every step keeps the invariant.
LEMMA NextFresh ==
  ASSUME NamesApart, FreshNames, Inv, Inv', FreshInv, [NextHere]_vars
  PROVE  FreshInv'
<1>1. IInv /\ IInv'
  BY DEF Inv
<1>2. ASSUME NEW w \in Workers, WorkHere(w) PROVE FreshInv'
  <2>1. CASE TakeTaskHere(w)
    BY <1>1, <2>1, TakeFresh
  <2>2. CASE ~ TakeTaskHere(w)
    <3>1. StepOK(w)
      BY <1>1, <1>2, <2>2, WorkOK
    <3> QED BY <1>1, <1>2, <2>2, <3>1, StepFreshInv
  <2> QED BY <2>1, <2>2
<1>3. CASE Crash \/ Rerun
  BY <1>1, <1>3 DEF Crash, Rerun, IInv, Quiet, FreshInv, Finished, Busy
<1>4. CASE RemoveOldHere
  <2>1. /\ outbox' = <<>> /\ results' = <<>> /\ phase' = "prepare" /\ config' = config
        /\ \A w \in Workers : work'[w] = Idle
    BY <1>1, <1>4 DEF RemoveOldHere, IInv, Quiet
  <2>2. config.force => Beside(InputPath) \notin DOMAIN fs'
    <3>1. config.force => DOMAIN fs' = DOMAIN fs \ {p \in DOMAIN fs : Under(p, Beside(InputPath))}
      BY <1>4 DEF RemoveOldHere, Without
    <3>2. Under(Beside(InputPath), Beside(InputPath))
      BY InputFacts, UnderOrder
    <3> QED BY <3>1, <3>2
  <2> QED BY <2>1, <2>2 DEF FreshInv, Finished, Busy
<1>5. CASE PrepareReport
  BY <1>5, PrepareFresh
<1>6. CASE Register
  <2>1. \A r : Finished(r)' <=> Finished(r)
    BY <1>6, RegisterFinished
  <2>2. fs' = fs /\ config' = config /\ work' = work /\ phase' = phase
    BY <1>6 DEF Register, host
  <2>3. FilesFresh => FilesFresh'
    BY <2>1, <2>2, SameFiles
  <2> QED BY <2>1, <2>2, <2>3 DEF FreshInv, Busy
<1>7. CASE WriteReport \/ Over \/ UNCHANGED vars
  <2>1. /\ fs' = fs /\ config' = config /\ work' = work /\ outbox' = outbox /\ results' = results
        /\ phase' \in {phase, "done"}
    BY <1>7 DEF WriteReport, Over, vars
  <2>2. \A r : Finished(r)' <=> Finished(r)
    BY <2>1 DEF Finished
  <2>3. FilesFresh => FilesFresh'
    BY <2>1, <2>2, SameFiles
  <2> QED BY <2>1, <2>2, <2>3 DEF FreshInv, Busy
<1> QED BY <1>2, <1>3, <1>4, <1>5, <1>6, <1>7 DEF NextHere, HostHere

\* With --force, no task of a run finds the directory it extracts to already there: what an
\* earlier run left, also one that was killed, is gone, and within the run each directory is
\* made by the one task that is entitled to it, however the workers interleave.  FreshNames
\* is needed: an archive that holds a file and, beside it, an entry with the name of the
\* directory the file is to be extracted to makes the check in _extract_chunk fail.
LEMMA HereForceStartsFresh ==
  ASSUME NamesApart, FreshNames
  PROVE  HereSpec => []ForceIsFresh
<1>1. Init => FreshInv
  <2> SUFFICES ASSUME Init PROVE FreshInv
    OBVIOUS
  <2>1. (\A r : ~ Finished(r)) /\ (\A w \in Workers : ~ Busy(w)) /\ phase = "start"
    BY DEF Init, Finished, Busy
  <2> QED BY <2>1 DEF FreshInv
<1>2. Inv /\ Inv' /\ FreshInv /\ [NextHere]_vars => FreshInv'
  BY NextFresh
<1>3. FreshInv => ForceIsFresh
  <2> SUFFICES ASSUME FreshInv, config.force, NEW r \in Range(results) PROVE "OutputExists" \notin r.reports
    BY DEF ForceIsFresh
  <2>1. Range(results) = {results[i] : i \in DOMAIN results}
    BY DEF Range
  <2>2. Finished(r)
    BY <2>1 DEF Finished
  <2> QED BY <2>2 DEF FreshInv
<1> QED BY <1>1, <1>2, <1>3, HereInvariance, PTL DEF HereSpec
=============================================================================
