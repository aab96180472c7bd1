-------------------------- MODULE ExtractionProofs --------------------------
(***************************************************************************)
(* Proofs about the extractors (Extractors): nothing is ever done outside  *)
(* the output directory, for trees, paths, link limits, disks, archives    *)
(* and logs of any size.                                                   *)
(*                                                                         *)
(* The argument has four parts.  A walk along a path is defined by         *)
(* recursion: Recursion shows that such a definition has a solution, and   *)
(* what holds of every walk is shown at a least walk where it would fail.  *)
(* StrictWalk and PrefixInside then compare what Path.resolve says before  *)
(* a call with what the kernel does in it; SameInside and EnsureOK carry   *)
(* the check over the directories that are made in between; and each       *)
(* method, then each step of each extractor, keeps ExtractInv.             *)
(***************************************************************************)
EXTENDS Extractors, FiniteSetTheorems, WellFoundedInduction, SequenceTheorems, TLAPS

\* Every set of elements of D has a least one.
HasLeast(R, D) == \A T \in SUBSET D : T # {} => \E x \in T : \A y \in T : <<y, x>> \notin R

\* body tells the value at x from the values below x.
Determined(body, R, D, V) ==
  /\ body \in [D -> [[D -> V] -> V]]
  /\ \A x \in D : \A f, g \in [D -> V] :
       (\A y \in D : <<y, x>> \in R => f[y] = g[y]) => body[x][f] = body[x][g]
HasFixpoint(body, D, V) == \E f \in [D -> V] : \A x \in D : f[x] = body[x][f]

\* A definition by recursion defines a function: if the value at x is determined by
\* the values below x, some function satisfies the equation everywhere.
LEMMA Recursion ==
  ASSUME NEW D, NEW V, V # {}, NEW R, HasLeast(R, D), IsTransitivelyClosedOn(R, D),
         NEW body, Determined(body, R, D, V)
  PROVE  HasFixpoint(body, D, V)
<1> SUFFICES ASSUME NEW v0 \in V
             PROVE  \E f \in [D -> V] : \A x \in D : f[x] = body[x][f]
  BY DEF HasFixpoint
<1> USE DEF Determined
<1> DEFINE Upto(x) == {y \in D : y = x \/ <<y, x>> \in R}
           Good(g, x) == \A y \in Upto(x) : g[y] = body[y][g]
<1>1. ASSUME NEW x \in D, NEW g \in [D -> V], NEW h \in [D -> V], Good(g, x), Good(h, x)
      PROVE  g[x] = h[x]
  <2> DEFINE T == {y \in Upto(x) : g[y] # h[y]}
  <2>1. SUFFICES ASSUME T # {} PROVE FALSE
    OBVIOUS
  <2>2. T \subseteq D
    OBVIOUS
  <2>3. PICK y \in T : \A z \in T : <<z, y>> \notin R
    BY <2>1, <2>2 DEF HasLeast
  <2>4. \A z \in D : <<z, y>> \in R => z \in Upto(x)
    BY <2>3 DEF IsTransitivelyClosedOn
  <2>5. \A z \in D : <<z, y>> \in R => g[z] = h[z]
    BY <2>3, <2>4
  <2>6. body[y][g] = body[y][h]
    BY <2>2, <2>3, <2>5
  <2> QED BY <1>1, <2>3, <2>6
<1>2. ASSUME NEW x \in D, NEW z \in D, NEW g, Good(g, x), <<z, x>> \in R PROVE Good(g, z)
  BY <1>2 DEF IsTransitivelyClosedOn
<1>3. ASSUME NEW x \in D PROVE \E g \in [D -> V] : Good(g, x)
  <2> DEFINE T == {y \in D : ~ \E g \in [D -> V] : Good(g, y)}
             Sol(z) == CHOOSE g \in [D -> V] : Good(g, z)
  <2>1. SUFFICES ASSUME T # {} PROVE FALSE
    BY <2>1
  <2>2. PICK y \in T : \A z \in T : <<z, y>> \notin R
    <3>1. T \subseteq D
      OBVIOUS
    <3> HIDE DEF T
    <3> QED BY <2>1, <3>1 DEF HasLeast
  <2>3. \A z \in D : <<z, y>> \in R => Sol(z) \in [D -> V] /\ Good(Sol(z), z)
    BY <2>2
  <2> DEFINE below == [z \in D |-> IF <<z, y>> \in R THEN Sol(z)[z] ELSE v0]
             upto == [z \in D |-> IF <<z, y>> \in R THEN below[z] ELSE body[z][below]]
  <2>4. below \in [D -> V]
    <3> HIDE DEF Sol, Good
    <3>1. \A z \in D : <<z, y>> \in R => Sol(z)[z] \in V
      BY <2>3
    <3> QED BY <3>1
  <2>5. upto \in [D -> V]
    <3> HIDE DEF below
    <3>1. \A z \in D : below[z] \in V /\ body[z][below] \in V
      BY <2>4
    <3> QED BY <3>1
  <2>6. ASSUME NEW z \in D, <<z, y>> \in R PROVE below[z] = body[z][below]
    <3>1. \A u \in D : <<u, z>> \in R => Sol(z)[u] = below[u]
      <4>1. SUFFICES ASSUME NEW u \in D, <<u, z>> \in R PROVE Sol(z)[u] = below[u]
        OBVIOUS
      <4>2. <<u, y>> \in R
        BY <2>6, <4>1, <2>2 DEF IsTransitivelyClosedOn
      <4>3. Sol(u) \in [D -> V] /\ Good(Sol(u), u) /\ Sol(z) \in [D -> V] /\ Good(Sol(z), z)
        BY <2>3, <2>6, <4>2
      <4>4. Good(Sol(z), u)
        <5> HIDE DEF Sol, Good
        <5> QED BY <1>2, <4>1, <4>3
      <4>5. Sol(z)[u] = Sol(u)[u]
        <5> HIDE DEF Sol, Good
        <5> QED BY <1>1, <4>3, <4>4
      <4> QED BY <4>2, <4>5
    <3>2. Sol(z) \in [D -> V] /\ Good(Sol(z), z)
      BY <2>3, <2>6
    <3>3. below[z] = Sol(z)[z] /\ Sol(z)[z] = body[z][Sol(z)]
      BY <2>6, <3>2
    <3>4. body[z][Sol(z)] = body[z][below]
      <4> HIDE DEF Sol, Good, below
      <4> QED BY <3>1, <3>2, <2>4
    <3> QED BY <3>3, <3>4
  <2>7. \A z \in D : <<z, y>> \in R => upto[z] = below[z]
    OBVIOUS
  <2>8. ASSUME NEW z \in Upto(y) PROVE upto[z] = body[z][upto]
    <3>1. \A u \in D : <<u, z>> \in R => below[u] = upto[u]
      BY <2>2, <2>7 DEF IsTransitivelyClosedOn
    <3>2. body[z][below] = body[z][upto]
      <4> HIDE DEF below, upto
      <4> QED BY <3>1, <2>4, <2>5
    <3>3. upto[z] = body[z][below]
      BY <2>6
    <3> QED BY <3>2, <3>3
  <2> QED BY <2>2, <2>5, <2>8
<1>4. \A z \in D : \E g \in [D -> V] : Good(g, z)
  BY <1>3
<1> DEFINE Sol(z) == CHOOSE g \in [D -> V] : Good(g, z)
           all == [z \in D |-> Sol(z)[z]]
<1>5. \A z \in D : Sol(z) \in [D -> V] /\ Good(Sol(z), z)
  BY <1>4
<1>6. all \in [D -> V]
  BY <1>5
<1>7. ASSUME NEW z \in D PROVE all[z] = body[z][all]
  <2>1. \A u \in D : <<u, z>> \in R => Sol(z)[u] = all[u]
    <3>1. SUFFICES ASSUME NEW u \in D, <<u, z>> \in R PROVE Sol(z)[u] = all[u]
      OBVIOUS
    <3>2. Sol(u) \in [D -> V] /\ Good(Sol(u), u) /\ Sol(z) \in [D -> V] /\ Good(Sol(z), z)
      BY <1>5
    <3>3. Good(Sol(z), u)
      <4> HIDE DEF Sol, Good
      <4> QED BY <1>2, <3>1, <3>2
    <3>4. Sol(z)[u] = Sol(u)[u]
      <4> HIDE DEF Sol, Good
      <4> QED BY <1>1, <3>2, <3>3
    <3> QED BY <3>4
  <2>2. Sol(z) \in [D -> V] /\ Sol(z)[z] = body[z][Sol(z)]
    BY <1>5
  <2>3. all[z] = Sol(z)[z]
    OBVIOUS
  <2> HIDE DEF Sol, all
  <2> QED BY <2>1, <2>2, <2>3, <1>6
<1> QED BY <1>6, <1>7

\* The numbers are well founded.
LEMMA NatLeast == ASSUME NEW T, T \subseteq Nat, T # {} PROVE \E x \in T : \A y \in T : x <= y
<1>1. PICK x \in T : \A y \in T : <<y, x>> \notin OpToRel(<, Nat)
  BY NatLessThanWellFounded, WFMin
<1>2. \A y \in T : ~ (y < x)
  BY <1>1 DEF OpToRel
<1> QED BY <1>2

-----------------------------------------------------------------------------
(* Walks *)

Before == {p \in Walks \X Walks : \/ p[1].links < p[2].links
                                  \/ p[1].links = p[2].links /\ Len(p[1].parts) < Len(p[2].parts)}

\* The fields of what is left of a walk.
LEMMA WalkTypes ==
  ASSUME NEW w \in Walks
  PROVE  w.at \in Seq(Names) /\ w.parts \in Seq(Names) /\ w.links \in Nat /\ Len(w.parts) \in Nat
BY LinksAssumption DEF Walks

\* One walk is before another if it has fewer links to follow, or as many and
\* fewer parts to come.
LEMMA BeforeDef ==
  ASSUME NEW v \in Walks, NEW w \in Walks
  PROVE  <<v, w>> \in Before <=> (v.links < w.links \/ (v.links = w.links /\ Len(v.parts) < Len(w.parts)))
BY DEF Before

\* Any set of walks has one that none is before ...
LEMMA BeforeLeast == HasLeast(Before, Walks)
<1> SUFFICES ASSUME NEW T \in SUBSET Walks, T # {}
             PROVE  \E w \in T : \A v \in T : <<v, w>> \notin Before
  BY DEF HasLeast
<1> DEFINE K == {w.links : w \in T}
<1>1. PICK n \in K : \A m \in K : n <= m
  <2>1. K \subseteq Nat /\ K # {}
    BY WalkTypes
  <2> HIDE DEF K
  <2> QED BY <2>1, NatLeast
<1> DEFINE U == {w \in T : w.links = n}
           L == {Len(w.parts) : w \in U}
<1>2. PICK l \in L : \A m \in L : l <= m
  <2>1. L \subseteq Nat
    BY WalkTypes
  <2>2. L # {}
    BY <1>1
  <2> HIDE DEF L
  <2> QED BY <2>1, <2>2, NatLeast
<1>3. PICK w \in U : Len(w.parts) = l
  BY <1>2
<1>4. ASSUME NEW v \in T, <<v, w>> \in Before PROVE FALSE
  <2>1. v.links < w.links \/ (v.links = w.links /\ Len(v.parts) < Len(w.parts))
    BY <1>3, <1>4, BeforeDef
  <2>2. v.links \in Nat /\ w.links \in Nat /\ Len(v.parts) \in Nat /\ Len(w.parts) \in Nat
    BY <1>3, WalkTypes
  <2>3. v.links \in K /\ w.links = n
    BY <1>3
  <2>4. v.links = w.links /\ Len(v.parts) < Len(w.parts)
    <3>1. n <= v.links
      <4> HIDE DEF K
      <4> QED BY <1>1, <2>3
    <3> QED BY <2>1, <2>2, <2>3, <3>1
  <2>5. Len(v.parts) \in L
    BY <2>3, <2>4
  <2> QED BY <2>2, <2>4, <2>5, <1>2, <1>3
<1> QED BY <1>3, <1>4

\* ... and the order is transitive, so that Recursion applies to it.
LEMMA BeforeTransitive == IsTransitivelyClosedOn(Before, Walks)
<1> SUFFICES ASSUME NEW u \in Walks, NEW v \in Walks, NEW w \in Walks,
                    <<u, v>> \in Before, <<v, w>> \in Before
             PROVE  <<u, w>> \in Before
  BY DEF IsTransitivelyClosedOn
<1>1. /\ u.links < v.links \/ (u.links = v.links /\ Len(u.parts) < Len(v.parts))
      /\ v.links < w.links \/ (v.links = w.links /\ Len(v.parts) < Len(w.parts))
  BY BeforeDef
<1>2. /\ u.links \in Nat /\ v.links \in Nat /\ w.links \in Nat
      /\ Len(u.parts) \in Nat /\ Len(v.parts) \in Nat /\ Len(w.parts) \in Nat
  BY WalkTypes
<1>3. u.links < w.links \/ (u.links = w.links /\ Len(u.parts) < Len(w.parts))
  BY <1>1, <1>2
<1> QED BY <1>3, BeforeDef

TreeOK(t) ==
  /\ DOMAIN t \subseteq Seq(Names)
  /\ \A l \in DOMAIN t : t[l].kind = "link" => t[l].to \in Pathnames

\* How a walk may end.
Ends == {At(l) : l \in Seq(Names)} \cup {Outside} \cup {Errno(e) : e \in {"enoent", "enotdir", "eloop"}}

UpFrom(w) == [at |-> Front(w.at), parts |-> Tail(w.parts), links |-> w.links]
Down(w) == [at |-> Append(w.at, Head(w.parts)), parts |-> Tail(w.parts), links |-> w.links]
Through(tree, w) ==
  [at |-> w.at, parts |-> tree[Append(w.at, Head(w.parts))].to.parts \o Tail(w.parts),
   links |-> w.links - 1]

\* All but the last of a sequence.
LEMMA FrontType == ASSUME NEW S, NEW s \in Seq(S) PROVE Front(s) \in Seq(S)
BY DEF Front

\* A step up ...
LEMMA UpBefore ==
  ASSUME NEW w \in Walks, w.parts # <<>>
  PROVE  UpFrom(w) \in Walks /\ <<UpFrom(w), w>> \in Before
<1>1. UpFrom(w) \in Walks
  BY FrontType DEF UpFrom, Walks
<1>2. UpFrom(w).links = w.links /\ Len(UpFrom(w).parts) < Len(w.parts)
  BY WalkTypes DEF UpFrom
<1> QED BY <1>1, <1>2, BeforeDef

\* ... a step down ...
LEMMA DownBefore ==
  ASSUME NEW w \in Walks, w.parts # <<>>
  PROVE  /\ Down(w) \in Walks /\ <<Down(w), w>> \in Before
         /\ Append(w.at, Head(w.parts)) \in Seq(Names)
<1>1. Down(w) \in Walks
  BY DEF Down, Walks
<1>2. Down(w).links = w.links /\ Len(Down(w).parts) < Len(w.parts)
  BY WalkTypes DEF Down
<1> QED BY <1>1, <1>2, BeforeDef, WalkTypes

\* ... and a step through a link leave less of the walk.
LEMMA ThroughBefore ==
  ASSUME NEW tree, TreeOK(tree), NEW w \in Walks, w.parts # <<>>, w.links # 0,
         Is(tree, Append(w.at, Head(w.parts)), "link")
  PROVE  Through(tree, w) \in Walks /\ <<Through(tree, w), w>> \in Before
<1>1. tree[Append(w.at, Head(w.parts))].to.parts \in Seq(Names)
  BY DEF Is, TreeOK, Pathnames
<1>2. Tail(w.parts) \in Seq(Names)
  BY WalkTypes, HeadTailProperties
<1>3. w.links \in 0 .. MaxLinks /\ w.links - 1 \in 0 .. MaxLinks /\ w.links - 1 < w.links
  BY LinksAssumption DEF Walks
<1>4. Through(tree, w) \in Walks
  <2>1. tree[Append(w.at, Head(w.parts))].to.parts \o Tail(w.parts) \in Seq(Names)
    BY <1>1, <1>2, ConcatProperties
  <2>2. w.at \in Seq(Names)
    BY WalkTypes
  <2> QED BY <2>1, <2>2, <1>3 DEF Through, Walks
<1>5. Through(tree, w).links < w.links
  BY <1>3 DEF Through
<1> QED BY <1>4, <1>5, BeforeDef

\* A step of a walk, by cases.
LEMMA StepCases ==
  ASSUME NEW tree, NEW lax, NEW f, NEW w \in Walks
  PROVE  LET loc == Append(w.at, Head(w.parts)) IN
         WalkStep(tree, lax, f, w) =
           IF w.parts = <<>> THEN At(w.at)
           ELSE IF ~lax /\ ~Is(tree, w.at, "dir")
           THEN Errno(IF w.at \in DOMAIN tree THEN "enotdir" ELSE "enoent")
           ELSE IF Head(w.parts) = Up THEN IF w.at = <<>> THEN Outside ELSE f[UpFrom(w)]
           ELSE IF ~Is(tree, loc, "link") THEN f[Down(w)]
           ELSE IF w.links = 0 THEN Errno("eloop")
           ELSE IF tree[loc].to.abs THEN Outside
           ELSE f[Through(tree, w)]
BY DEF WalkStep, UpFrom, Down, Through

\* A step of Path.resolve, with the three ways on named ...
LEMMA LaxStep ==
  ASSUME NEW t, NEW f, NEW w \in Walks, NEW loc, loc = Append(w.at, Head(w.parts))
  PROVE  WalkStep(t, TRUE, f, w) =
           IF w.parts = <<>> THEN At(w.at)
           ELSE IF Head(w.parts) = Up THEN IF w.at = <<>> THEN Outside ELSE f[UpFrom(w)]
           ELSE IF ~Is(t, loc, "link") THEN f[Down(w)]
           ELSE IF w.links = 0 THEN Errno("eloop")
           ELSE IF t[loc].to.abs THEN Outside
           ELSE f[Through(t, w)]
BY StepCases

\* ... and a step of the kernel, which wants a directory to step from.
LEMMA StrictStep ==
  ASSUME NEW t, NEW f, NEW w \in Walks, NEW loc, loc = Append(w.at, Head(w.parts))
  PROVE  WalkStep(t, FALSE, f, w) =
           IF w.parts = <<>> THEN At(w.at)
           ELSE IF ~Is(t, w.at, "dir")
           THEN Errno(IF w.at \in DOMAIN t THEN "enotdir" ELSE "enoent")
           ELSE IF Head(w.parts) = Up THEN IF w.at = <<>> THEN Outside ELSE f[UpFrom(w)]
           ELSE IF ~Is(t, loc, "link") THEN f[Down(w)]
           ELSE IF w.links = 0 THEN Errno("eloop")
           ELSE IF t[loc].to.abs THEN Outside
           ELSE f[Through(t, w)]
BY StepCases

WalkFcn(tree, lax) == CHOOSE f : f = [w \in Walks |-> WalkStep(tree, lax, f, w)]

\* Walk as the function on walks that it is a value of.
LEMMA WalkIs ==
  ASSUME NEW tree, NEW path, NEW lax
  PROVE  Walk(tree, path, lax) = WalkFcn(tree, lax)[[at |-> <<>>, parts |-> path, links |-> MaxLinks]]
BY DEF Walk, WalkFcn

\* A step ends the walk as a lookup may end if the rest of the walk does.
LEMMA StepTyped ==
  ASSUME NEW tree, TreeOK(tree), NEW lax \in BOOLEAN, NEW f \in [Walks -> Ends], NEW w \in Walks
  PROVE  WalkStep(tree, lax, f, w) \in Ends
<1>1. /\ \A l \in Seq(Names) : At(l) \in Ends
      /\ Outside \in Ends
      /\ Errno("enoent") \in Ends /\ Errno("enotdir") \in Ends /\ Errno("eloop") \in Ends
  BY DEF Ends
<1>2. w.parts # <<>> => f[UpFrom(w)] \in Ends /\ f[Down(w)] \in Ends
  BY UpBefore, DownBefore
<1>3. w.parts # <<>> /\ Is(tree, Append(w.at, Head(w.parts)), "link") /\ w.links # 0
        => f[Through(tree, w)] \in Ends
  BY ThroughBefore
<1>4. w.at \in Seq(Names)
  BY WalkTypes
<1> HIDE DEF Ends
<1> QED BY <1>1, <1>2, <1>3, <1>4, StepCases

\* A step looks only at what is left after it.
LEMMA StepDepends ==
  ASSUME NEW tree, TreeOK(tree), NEW lax \in BOOLEAN, NEW f, NEW g,
         NEW w \in Walks, \A v \in Walks : <<v, w>> \in Before => f[v] = g[v]
  PROVE  WalkStep(tree, lax, f, w) = WalkStep(tree, lax, g, w)
<1>1. w.parts # <<>> => f[UpFrom(w)] = g[UpFrom(w)] /\ f[Down(w)] = g[Down(w)]
  BY UpBefore, DownBefore
<1>2. w.parts # <<>> /\ Is(tree, Append(w.at, Head(w.parts)), "link") /\ w.links # 0
        => f[Through(tree, w)] = g[Through(tree, w)]
  BY ThroughBefore
<1> QED BY <1>1, <1>2, StepCases

\* The recursive definition of a walk has a solution: its value is one step of it.
LEMMA WalkEquation ==
  ASSUME NEW tree, TreeOK(tree), NEW lax \in BOOLEAN
  PROVE  WalkFcn(tree, lax) = [w \in Walks |-> WalkStep(tree, lax, WalkFcn(tree, lax), w)]
<1> DEFINE body == [w \in Walks |-> [f \in [Walks -> Ends] |-> WalkStep(tree, lax, f, w)]]
<1>1. body \in [Walks -> [[Walks -> Ends] -> Ends]]
  BY StepTyped
<1>2. \A w \in Walks : \A f \in [Walks -> Ends] : body[w][f] = WalkStep(tree, lax, f, w)
  OBVIOUS
<1>3. \A w \in Walks : \A f, g \in [Walks -> Ends] :
        (\A v \in Walks : <<v, w>> \in Before => f[v] = g[v]) => body[w][f] = body[w][g]
  BY StepDepends
<1>4. Outside \in Ends
  BY DEF Ends
<1> HIDE DEF body
<1>5. \E f \in [Walks -> Ends] : \A w \in Walks : f[w] = body[w][f]
  <2>1. Determined(body, Before, Walks, Ends)
    BY <1>1, <1>3 DEF Determined
  <2>2. HasFixpoint(body, Walks, Ends)
    BY <1>4, <2>1, Recursion, BeforeLeast, BeforeTransitive
  <2> QED BY <2>2 DEF HasFixpoint
<1>6. PICK f \in [Walks -> Ends] : \A w \in Walks : f[w] = WalkStep(tree, lax, f, w)
  BY <1>2, <1>5
<1>7. f = [w \in Walks |-> WalkStep(tree, lax, f, w)]
  BY <1>6
<1> QED BY <1>7 DEF WalkFcn

\* The values of a walk, from the equation.
LEMMA WalkUnfolds ==
  ASSUME NEW tree, TreeOK(tree), NEW lax \in BOOLEAN, NEW w \in Walks
  PROVE  WalkFcn(tree, lax)[w] = WalkStep(tree, lax, WalkFcn(tree, lax), w)
<1> DEFINE f == WalkFcn(tree, lax)
<1>1. f = [v \in Walks |-> WalkStep(tree, lax, f, v)]
  BY WalkEquation
<1> HIDE DEF f
<1>2. f[w] = [v \in Walks |-> WalkStep(tree, lax, f, v)][w]
  BY <1>1
<1> QED BY <1>2 DEF f

\* Induction over walks: of the walks in T one comes first.
LEMMA FirstWalk ==
  ASSUME NEW T, T \subseteq Walks, T # {}
  PROVE  \E w \in T : \A v \in Walks : <<v, w>> \in Before => v \notin T
BY BeforeLeast DEF HasLeast

\* Every walk ends at a location below the root, outside, or with an errno.
LEMMA WalkTyped ==
  ASSUME NEW tree, TreeOK(tree), NEW lax \in BOOLEAN, NEW w \in Walks
  PROVE  WalkFcn(tree, lax)[w] \in Ends
<1> DEFINE f == WalkFcn(tree, lax)
           T == {v \in Walks : f[v] \notin Ends}
           g == [v \in Walks |-> IF f[v] \in Ends THEN f[v] ELSE Outside]
<1> SUFFICES ASSUME T # {} PROVE FALSE
  OBVIOUS
<1>1. PICK v \in T : \A u \in Walks : <<u, v>> \in Before => u \notin T
  <2>1. T \subseteq Walks
    OBVIOUS
  <2> HIDE DEF T
  <2> QED BY <2>1, FirstWalk
<1>2. g \in [Walks -> Ends]
  <2>1. Outside \in Ends
    BY DEF Ends
  <2> HIDE DEF f
  <2> QED BY <2>1
<1>3. \A u \in Walks : <<u, v>> \in Before => f[u] = g[u]
  BY <1>1
<1>4. f[v] = WalkStep(tree, lax, f, v)
  BY WalkUnfolds
<1>5. WalkStep(tree, lax, f, v) = WalkStep(tree, lax, g, v)
  <2> HIDE DEF f, g
  <2> QED BY <1>3, StepDepends
<1>6. WalkStep(tree, lax, g, v) \in Ends
  <2> HIDE DEF f, g
  <2> QED BY <1>2, StepTyped
<1> QED BY <1>4, <1>5, <1>6

\* The two trees have the same links.
SameLinks(t, u) ==
  \A l \in Seq(Names) :
    /\ Is(t, l, "link") <=> Is(u, l, "link")
    /\ Is(t, l, "link") => t[l] = u[l]

\* resolve() sees nothing of a tree but its links.
LEMMA SameWalk ==
  ASSUME NEW t, TreeOK(t), NEW u, TreeOK(u), SameLinks(t, u), NEW w \in Walks
  PROVE  WalkFcn(t, TRUE)[w] = WalkFcn(u, TRUE)[w]
<1> DEFINE f == WalkFcn(t, TRUE)
           g == WalkFcn(u, TRUE)
           T == {v \in Walks : f[v] # g[v]}
<1> SUFFICES ASSUME T # {} PROVE FALSE
  OBVIOUS
<1>1. PICK v \in T : \A x \in Walks : <<x, v>> \in Before => x \notin T
  <2>1. T \subseteq Walks
    OBVIOUS
  <2> HIDE DEF T
  <2> QED BY <2>1, FirstWalk
<1> DEFINE loc == Append(v.at, Head(v.parts))
<1>2. f[v] = WalkStep(t, TRUE, f, v) /\ g[v] = WalkStep(u, TRUE, g, v)
  BY WalkUnfolds
<1>3. v.parts # <<>> => f[UpFrom(v)] = g[UpFrom(v)] /\ f[Down(v)] = g[Down(v)] /\ loc \in Seq(Names)
  <2> HIDE DEF f, g
  <2> QED BY <1>1, UpBefore, DownBefore
<1>4. v.parts # <<>> /\ Is(t, loc, "link") /\ v.links # 0 => f[Through(t, v)] = g[Through(t, v)]
  <2> HIDE DEF f, g
  <2> QED BY <1>1, ThroughBefore
<1>5. v.parts # <<>> /\ Is(t, loc, "link") => Through(t, v) = Through(u, v) /\ t[loc] = u[loc]
  BY <1>3 DEF SameLinks, Through
<1>6. v.parts # <<>> => (Is(t, loc, "link") <=> Is(u, loc, "link"))
  BY <1>3 DEF SameLinks
<1>7. f[v] = g[v]
  <2> HIDE DEF f, g, loc
  <2>1. WalkStep(t, TRUE, f, v) =
           IF v.parts = <<>> THEN At(v.at)
           ELSE IF Head(v.parts) = Up THEN IF v.at = <<>> THEN Outside ELSE f[UpFrom(v)]
           ELSE IF ~Is(t, loc, "link") THEN f[Down(v)]
           ELSE IF v.links = 0 THEN Errno("eloop")
           ELSE IF t[loc].to.abs THEN Outside
           ELSE f[Through(t, v)]
    BY LaxStep DEF loc
  <2>2. WalkStep(u, TRUE, g, v) =
           IF v.parts = <<>> THEN At(v.at)
           ELSE IF Head(v.parts) = Up THEN IF v.at = <<>> THEN Outside ELSE g[UpFrom(v)]
           ELSE IF ~Is(u, loc, "link") THEN g[Down(v)]
           ELSE IF v.links = 0 THEN Errno("eloop")
           ELSE IF u[loc].to.abs THEN Outside
           ELSE g[Through(u, v)]
    BY LaxStep DEF loc
  <2> QED BY <1>2, <1>3, <1>4, <1>5, <1>6, <2>1, <2>2
<1> QED BY <1>1, <1>7

\* The kernel goes where resolve() went, or fails on something that is not there.
LEMMA StrictWalk ==
  ASSUME NEW t, TreeOK(t), NEW w \in Walks
  PROVE  WalkFcn(t, FALSE)[w] \in {WalkFcn(t, TRUE)[w], Errno("enoent"), Errno("enotdir")}
<1> DEFINE f == WalkFcn(t, FALSE)
           g == WalkFcn(t, TRUE)
           T == {v \in Walks : f[v] \notin {g[v], Errno("enoent"), Errno("enotdir")}}
<1> SUFFICES ASSUME T # {} PROVE FALSE
  OBVIOUS
<1>1. PICK v \in T : \A x \in Walks : <<x, v>> \in Before => x \notin T
  <2>1. T \subseteq Walks
    OBVIOUS
  <2> HIDE DEF T
  <2> QED BY <2>1, FirstWalk
<1> DEFINE loc == Append(v.at, Head(v.parts))
           Near(x) == f[x] \in {g[x], Errno("enoent"), Errno("enotdir")}
<1>2. f[v] = WalkStep(t, FALSE, f, v) /\ g[v] = WalkStep(t, TRUE, g, v)
  BY WalkUnfolds
<1>3. v.parts # <<>> => Near(UpFrom(v)) /\ Near(Down(v))
  <2> HIDE DEF f, g
  <2> QED BY <1>1, UpBefore, DownBefore
<1>4. v.parts # <<>> /\ Is(t, loc, "link") /\ v.links # 0 => Near(Through(t, v))
  <2> HIDE DEF f, g
  <2> QED BY <1>1, ThroughBefore
<1>5. Near(v)
  <2> HIDE DEF f, g, loc
  <2>1. WalkStep(t, FALSE, f, v) =
           IF v.parts = <<>> THEN At(v.at)
           ELSE IF ~Is(t, v.at, "dir")
           THEN Errno(IF v.at \in DOMAIN t THEN "enotdir" ELSE "enoent")
           ELSE IF Head(v.parts) = Up THEN IF v.at = <<>> THEN Outside ELSE f[UpFrom(v)]
           ELSE IF ~Is(t, loc, "link") THEN f[Down(v)]
           ELSE IF v.links = 0 THEN Errno("eloop")
           ELSE IF t[loc].to.abs THEN Outside
           ELSE f[Through(t, v)]
    BY StrictStep DEF loc
  <2>2. WalkStep(t, TRUE, g, v) =
           IF v.parts = <<>> THEN At(v.at)
           ELSE IF Head(v.parts) = Up THEN IF v.at = <<>> THEN Outside ELSE g[UpFrom(v)]
           ELSE IF ~Is(t, loc, "link") THEN g[Down(v)]
           ELSE IF v.links = 0 THEN Errno("eloop")
           ELSE IF t[loc].to.abs THEN Outside
           ELSE g[Through(t, v)]
    BY LaxStep DEF loc
  <2> QED BY <1>2, <1>3, <1>4, <2>1, <2>2
<1> QED BY <1>1, <1>5

\* A walk with one more name to go.
Longer(w, n) == [at |-> w.at, parts |-> Append(w.parts, n), links |-> w.links]

\* A walk with one more name to come takes the same steps ...
LEMMA LongerSteps ==
  ASSUME NEW w \in Walks, NEW n \in Names
  PROVE  /\ Longer(w, n) \in Walks
         /\ Longer(w, n).parts # <<>>
         /\ w.parts # <<>> =>
              /\ Head(Longer(w, n).parts) = Head(w.parts)
              /\ UpFrom(Longer(w, n)) = Longer(UpFrom(w), n)
              /\ Down(Longer(w, n)) = Longer(Down(w), n)
<1>1. w.parts \in Seq(Names)
  BY WalkTypes
<1>2. Longer(w, n) \in Walks
  BY <1>1, AppendProperties DEF Longer, Walks
<1>3. Append(w.parts, n) # <<>>
  BY <1>1, AppendProperties
<1>4. w.parts # <<>> => /\ Head(Append(w.parts, n)) = Head(w.parts)
                        /\ Tail(Append(w.parts, n)) = Append(Tail(w.parts), n)
  BY <1>1, HeadTailAppend
<1> QED BY <1>2, <1>3, <1>4 DEF Longer, UpFrom, Down

\* ... and follows the same links.
LEMMA LongerThrough ==
  ASSUME NEW t, TreeOK(t), NEW w \in Walks, NEW n \in Names, w.parts # <<>>,
         Is(t, Append(w.at, Head(w.parts)), "link")
  PROVE  Through(t, Longer(w, n)) = Longer(Through(t, w), n)
<1> DEFINE to == t[Append(w.at, Head(w.parts))].to.parts
<1>1. w.parts \in Seq(Names)
  BY WalkTypes
<1>2. to \in Seq(Names)
  BY DEF Is, TreeOK, Pathnames
<1>3. Tail(w.parts) \in Seq(Names)
  BY <1>1, HeadTailProperties
<1>4. /\ Head(Append(w.parts, n)) = Head(w.parts)
      /\ Tail(Append(w.parts, n)) = Append(Tail(w.parts), n)
  BY <1>1, HeadTailAppend
<1>5. to \o Append(Tail(w.parts), n) = Append(to \o Tail(w.parts), n)
  <2> DEFINE r == Tail(w.parts)
  <2>1. r \in Seq(Names) /\ <<n>> \in Seq(Names)
    BY <1>3
  <2> HIDE DEF r, to
  <2>2. Append(r, n) = r \o <<n>>
    BY <2>1, AppendIsConcat
  <2>3. to \o r \in Seq(Names)
    BY <1>2, <2>1, ConcatProperties
  <2>4. Append(to \o r, n) = (to \o r) \o <<n>>
    BY <2>3, AppendIsConcat
  <2>5. (to \o r) \o <<n>> = to \o (r \o <<n>>)
    BY <1>2, <2>1, ConcatAssociative
  <2>6. to \o Append(r, n) = Append(to \o r, n)
    BY <2>2, <2>4, <2>5
  <2> QED BY <2>6 DEF r
<1> HIDE DEF to
<1>6. Through(t, w) = [at |-> w.at, parts |-> to \o Tail(w.parts), links |-> w.links - 1]
  BY DEF Through, to
<1>7. Through(t, Longer(w, n)) = [at |-> w.at, parts |-> to \o Append(Tail(w.parts), n), links |-> w.links - 1]
  BY <1>4 DEF Through, Longer, to
<1>8. Longer(Through(t, w), n) =
        [at |-> w.at, parts |-> Append(to \o Tail(w.parts), n), links |-> w.links - 1]
  BY <1>6 DEF Longer
<1> QED BY <1>5, <1>7, <1>8, Zenon

\* What resolve() ends with does not change when the walk is longer, unless it got somewhere;
\* from the root, ".." leads out.
LEMMA LongerWalk ==
  ASSUME NEW t, TreeOK(t), NEW w \in Walks, NEW n \in Names
  PROVE  /\ WalkFcn(t, TRUE)[w].st # "at" => WalkFcn(t, TRUE)[Longer(w, n)] = WalkFcn(t, TRUE)[w]
         /\ WalkFcn(t, TRUE)[w] = At(<<>>) /\ n = Up => WalkFcn(t, TRUE)[Longer(w, n)] = Outside
<1> DEFINE f == WalkFcn(t, TRUE)
           Ok(v) == /\ f[v].st # "at" => f[Longer(v, n)] = f[v]
                    /\ f[v] = At(<<>>) /\ n = Up => f[Longer(v, n)] = Outside
           T == {v \in Walks : ~Ok(v)}
<1> SUFFICES ASSUME T # {} PROVE FALSE
  OBVIOUS
<1>1. PICK v \in T : \A x \in Walks : <<x, v>> \in Before => x \notin T
  <2>1. T \subseteq Walks
    OBVIOUS
  <2> HIDE DEF T
  <2> QED BY <2>1, FirstWalk
<1> DEFINE loc == Append(v.at, Head(v.parts))
           u == Longer(v, n)
<1>2. f[v] = WalkStep(t, TRUE, f, v) /\ f[u] = WalkStep(t, TRUE, f, u)
  BY WalkUnfolds, LongerSteps
<1>3. v.parts # <<>> => Ok(UpFrom(v)) /\ Ok(Down(v))
  <2> HIDE DEF Ok
  <2> QED BY <1>1, UpBefore, DownBefore
<1>4. v.parts # <<>> /\ Is(t, loc, "link") /\ v.links # 0 => Ok(Through(t, v))
  <2> HIDE DEF Ok
  <2> QED BY <1>1, ThroughBefore
<1>5. u \in Walks /\ u.parts # <<>> /\ u.at = v.at /\ u.links = v.links
  BY LongerSteps DEF Longer
<1>6. CASE v.parts = <<>>
  <2>1. f[v] = At(v.at)
    BY <1>2, <1>6, LaxStep
  <2>2. v.at \in Seq(Names) /\ Head(u.parts) = n
    BY <1>6, WalkTypes DEF Longer
  <2>3. ASSUME v.at = <<>>, n = Up PROVE f[u] = Outside
    BY <1>2, <1>5, <2>2, <2>3, LaxStep
  <2>4. f[v].st = "at" /\ f[v].loc = v.at
    <3> HIDE DEF f
    <3> QED BY <2>1 DEF At
  <2>5. f[v] = At(<<>>) => v.at = <<>>
    <3> HIDE DEF f
    <3>1. At(<<>>).loc = <<>>
      BY DEF At
    <3> QED BY <2>4, <3>1
  <2>6. Ok(v)
    <3> HIDE DEF f
    <3> QED BY <2>3, <2>4, <2>5
  <2> QED BY <1>1, <2>6
<1>7. CASE v.parts # <<>>
  <2> HIDE DEF f, loc, u
  <2>1. /\ Head(u.parts) = Head(v.parts)
        /\ UpFrom(u) = Longer(UpFrom(v), n)
        /\ Down(u) = Longer(Down(v), n)
        /\ Is(t, loc, "link") => Through(t, u) = Longer(Through(t, v), n)
    BY <1>7, LongerSteps, LongerThrough DEF u, loc
  <2>2. f[v] = IF Head(v.parts) = Up THEN IF v.at = <<>> THEN Outside ELSE f[UpFrom(v)]
           ELSE IF ~Is(t, loc, "link") THEN f[Down(v)]
           ELSE IF v.links = 0 THEN Errno("eloop")
           ELSE IF t[loc].to.abs THEN Outside
           ELSE f[Through(t, v)]
    BY <1>2, <1>7, LaxStep DEF loc
  <2>3. loc = Append(u.at, Head(u.parts))
    BY <1>5, <2>1 DEF loc
  <2>4. f[u] = IF Head(v.parts) = Up THEN IF v.at = <<>> THEN Outside ELSE f[UpFrom(u)]
           ELSE IF ~Is(t, loc, "link") THEN f[Down(u)]
           ELSE IF v.links = 0 THEN Errno("eloop")
           ELSE IF t[loc].to.abs THEN Outside
           ELSE f[Through(t, u)]
    BY <1>2, <1>5, <2>1, <2>3, LaxStep
  <2>5. Ok(v)
    <3>1. Outside # At(<<>>) /\ Errno("eloop") # At(<<>>)
      BY DEF Outside, At, Errno
    <3>2. f[u] = f[Longer(v, n)]
      BY DEF u
    <3> QED BY <1>3, <1>4, <1>7, <2>1, <2>2, <2>4, <3>1, <3>2
  <2> QED BY <1>1, <2>5
<1> QED BY <1>6, <1>7

-----------------------------------------------------------------------------
(* Lookups from the root.                                                  *)

\* resolve() stays below the root.
Inside(t, p) == Resolve(t, p).st = "at"

From(p) == [at |-> <<>>, parts |-> p, links |-> MaxLinks]

\* Path.resolve and the kernel's lookup of a path as walks.
LEMMA Lookups ==
  ASSUME NEW t, TreeOK(t), NEW p \in Seq(Names)
  PROVE  /\ From(p) \in Walks
         /\ Resolve(t, p) = WalkFcn(t, TRUE)[From(p)]
         /\ Follow(t, p) = WalkFcn(t, FALSE)[From(p)]
<1>1. From(p) \in Walks
  BY LinksAssumption DEF From, Walks
<1>2. Resolve(t, p) = WalkFcn(t, TRUE)[From(p)]
  BY WalkIs DEF Resolve, From
<1>3. Follow(t, p) = WalkFcn(t, FALSE)[From(p)]
  BY WalkIs DEF Follow, From
<1> QED BY <1>1, <1>2, <1>3

\* What an end of a walk is.
LEMMA EndIs ==
  ASSUME NEW r \in Ends
  PROVE  /\ r.st \in {"at", "out", "enoent", "enotdir", "eloop"}
         /\ r.st = "at" => r.loc \in Seq(Names) /\ r = At(r.loc)
         /\ r.st = "out" => r = Outside
BY DEF Ends, At, Outside, Errno

\* How they end; the kernel finds what resolve found, or nothing.
LEMMA LookupsTyped ==
  ASSUME NEW t, TreeOK(t), NEW p \in Seq(Names)
  PROVE  /\ Resolve(t, p) \in Ends
         /\ Follow(t, p) \in Ends
         /\ Follow(t, p) \in {Resolve(t, p), Errno("enoent"), Errno("enotdir")}
<1>1. From(p) \in Walks
  BY Lookups
<1>2. WalkFcn(t, TRUE)[From(p)] \in Ends /\ WalkFcn(t, FALSE)[From(p)] \in Ends
  BY <1>1, WalkTyped
<1>3. WalkFcn(t, FALSE)[From(p)] \in {WalkFcn(t, TRUE)[From(p)], Errno("enoent"), Errno("enotdir")}
  BY <1>1, StrictWalk
<1> QED BY <1>2, <1>3, Lookups, Zenon

\* The kernel does not leave a path that resolve() did not leave.
LEMMA InsideFollow ==
  ASSUME NEW t, TreeOK(t), NEW p \in Seq(Names), Inside(t, p)
  PROVE  Follow(t, p).st # "out"
<1> DEFINE f == Follow(t, p)
           r == Resolve(t, p)
<1>1. f \in {r, Errno("enoent"), Errno("enotdir")} /\ r.st = "at"
  BY LookupsTyped DEF Inside
<1> HIDE DEF f, r
<1>2. f.st # "out"
  BY <1>1 DEF Errno
<1> QED BY <1>2 DEF f

\* If a path is inside, so is the directory it names something in; from the root
\* there is no way up but out.
LEMMA LongerLookup ==
  ASSUME NEW t, TreeOK(t), NEW p \in Seq(Names), NEW n \in Names
  PROVE  /\ Append(p, n) \in Seq(Names)
         /\ Inside(t, Append(p, n)) => Inside(t, p)
         /\ Resolve(t, p) = At(<<>>) /\ n = Up => Resolve(t, Append(p, n)) = Outside
<1> DEFINE f == WalkFcn(t, TRUE)
<1>1. Append(p, n) \in Seq(Names)
  BY AppendProperties
<1>2. From(p) \in Walks /\ Resolve(t, p) = f[From(p)] /\ Resolve(t, Append(p, n)) = f[From(Append(p, n))]
  BY <1>1, Lookups
<1>3. From(Append(p, n)) = Longer(From(p), n)
  BY DEF From, Longer
<1>4. /\ f[From(p)].st # "at" => f[Longer(From(p), n)] = f[From(p)]
      /\ f[From(p)] = At(<<>>) /\ n = Up => f[Longer(From(p), n)] = Outside
  BY <1>2, LongerWalk
<1> HIDE DEF f
<1> QED BY <1>1, <1>2, <1>3, <1>4 DEF Inside

\* A path is its directory and its last name.
LEMMA Divide ==
  ASSUME NEW p \in Seq(Names), p # <<>>
  PROVE  Front(p) \in Seq(Names) /\ Last(p) \in Names /\ p = Append(Front(p), Last(p))
BY DEF Front, Last

\* A last name that is not followed is outside only if its directory is, or if it
\* is the way up from the root.
LEMMA NameInTyped ==
  ASSUME NEW t, NEW d \in Ends, NEW n \in Names
  PROVE  /\ NameIn(t, d, n) \in Ends
         /\ NameIn(t, d, n).st = "out" => d.st = "out" \/ (d = At(<<>>) /\ n = Up)
<1>1. /\ \A l \in Seq(Names) : At(l) \in Ends /\ At(l).st # "out"
      /\ Outside \in Ends
      /\ Errno("enoent") \in Ends /\ Errno("enotdir") \in Ends
      /\ Errno("enoent").st # "out" /\ Errno("enotdir").st # "out"
  BY DEF Ends, At, Errno
<1>2. d.st = "at" => d.loc \in Seq(Names) /\ d = At(d.loc)
  BY EndIs
<1>3. d.st = "at" => Front(d.loc) \in Seq(Names) /\ Append(d.loc, n) \in Seq(Names)
  BY <1>2, FrontType
<1> HIDE DEF Ends
<1> QED BY <1>1, <1>2, <1>3 DEF NameIn

\* ... nor when it does not follow the last name.
LEMMA InsideNoFollow ==
  ASSUME NEW t, TreeOK(t), NEW p \in Seq(Names)
  PROVE  /\ NoFollow(t, p) \in Ends
         /\ Inside(t, p) => NoFollow(t, p).st # "out"
<1>1. CASE p = <<>>
  BY <1>1 DEF NoFollow, Ends, At
<1>2. CASE p # <<>>
  <2> DEFINE d == Follow(t, Front(p))
             n == Last(p)
  <2>1. Front(p) \in Seq(Names) /\ n \in Names /\ p = Append(Front(p), n)
    BY <1>2, Divide
  <2>2. d \in Ends /\ d \in {Resolve(t, Front(p)), Errno("enoent"), Errno("enotdir")}
    BY <2>1, LookupsTyped
  <2>3. NoFollow(t, p) = NameIn(t, d, n)
    BY <1>2 DEF NoFollow
  <2>4. NoFollow(t, p) \in Ends
    <3> HIDE DEF d, n
    <3> QED BY <2>1, <2>2, <2>3, NameInTyped
  <2>5. ASSUME Inside(t, p) PROVE NoFollow(t, p).st # "out"
    <3>1. Inside(t, Front(p))
      BY <2>1, <2>5, LongerLookup
    <3>2. d.st # "out"
      BY <2>1, <3>1, InsideFollow
    <3>3. ~(Resolve(t, Front(p)) = At(<<>>) /\ n = Up)
      <4>1. Outside.st # "at"
        BY DEF Outside
      <4>2. Resolve(t, Front(p)) = At(<<>>) /\ n = Up => Resolve(t, Append(Front(p), n)) = Outside
        <5> HIDE DEF n
        <5> QED BY <2>1, LongerLookup
      <4>3. Resolve(t, Append(Front(p), n)).st = "at"
        <5> HIDE DEF n
        <5> QED BY <2>1, <2>5, Zenon DEF Inside
      <4> QED BY <4>1, <4>2, <4>3, Zenon
    <3>4. d = At(<<>>) => d = Resolve(t, Front(p))
      <4>1. At(<<>>) # Errno("enoent") /\ At(<<>>) # Errno("enotdir")
        BY DEF At, Errno
      <4> HIDE DEF d
      <4> QED BY <2>2, <4>1
    <3> HIDE DEF d, n
    <3> QED BY <2>1, <2>2, <2>3, <3>2, <3>3, <3>4, NameInTyped
  <2> QED BY <2>4, <2>5
<1> QED BY <1>1, <1>2

\* Every directory on the way is inside, too.
LEMMA PrefixInside ==
  ASSUME NEW t, TreeOK(t), NEW p \in Seq(Names), Inside(t, p)
  PROVE  \A k \in 0 .. Len(p) : SubSeq(p, 1, k) \in Seq(Names) /\ Inside(t, SubSeq(p, 1, k))
<1>1. \A k \in 0 .. Len(p) : SubSeq(p, 1, k) \in Seq(Names)
  BY SubSeqProperties
<1> DEFINE T == {j \in 0 .. Len(p) : ~Inside(t, SubSeq(p, 1, Len(p) - j))}
<1>2. SUFFICES ASSUME T # {} PROVE FALSE
  <2>1. \A k \in 0 .. Len(p) : Len(p) - k \in 0 .. Len(p) /\ Len(p) - (Len(p) - k) = k
    BY LenProperties
  <2> QED BY <1>1, <1>2, <2>1
<1>3. PICK j \in T : \A i \in T : j <= i
  <2>1. T \subseteq Nat
    OBVIOUS
  <2> HIDE DEF T
  <2> QED BY <1>2, <2>1, NatLeast
<1>4. j # 0
  <2>1. SubSeq(p, 1, Len(p)) = p
    BY SubSeqFull
  <2>2. Len(p) - 0 = Len(p)
    BY LenProperties
  <2>3. ~Inside(t, SubSeq(p, 1, Len(p) - j))
    BY <1>3
  <2> QED BY <2>1, <2>2, <2>3
<1> DEFINE k == Len(p) - j
<1>5. k \in 0 .. Len(p) /\ k + 1 \in 0 .. Len(p) /\ k + 1 = Len(p) - (j - 1) /\ j - 1 \in 0 .. Len(p)
  BY <1>3, <1>4, LenProperties
<1>6. Inside(t, SubSeq(p, 1, k + 1))
  <2>1. j - 1 \notin T
    BY <1>3
  <2> QED BY <1>5, <2>1
<1> HIDE DEF k
<1>7. SubSeq(p, 1, k + 1) = Append(SubSeq(p, 1, k), p[k + 1]) /\ p[k + 1] \in Names
  BY <1>5
<1>8. Inside(t, SubSeq(p, 1, k))
  BY <1>1, <1>5, <1>6, <1>7, LongerLookup
<1> QED BY <1>3, <1>8 DEF k

\* With the same links, paths resolve to the same place.
LEMMA SameInside ==
  ASSUME NEW t, TreeOK(t), NEW u, TreeOK(u), SameLinks(t, u), NEW p \in Seq(Names)
  PROVE  Resolve(t, p) = Resolve(u, p) /\ (Inside(t, p) <=> Inside(u, p))
<1>1. Resolve(t, p) = Resolve(u, p)
  BY Lookups, SameWalk
<1> QED BY <1>1 DEF Inside


-----------------------------------------------------------------------------
(* States of the output directory.                                         *)

IsFS(s) == s = [tree |-> s.tree, problems |-> s.problems, outcome |-> s.outcome,
                escaped |-> s.escaped]
FsOK(s) == IsFS(s) /\ TreeOK(s.tree) /\ s.escaped = FALSE

\* A fresh output directory is well formed, and nothing escaped yet.
LEMMA EmptyOK == FsOK(EmptyFS)
<1>1. IsFS(EmptyFS) /\ EmptyFS.escaped = FALSE /\ EmptyFS.tree = [loc \in {<<>>} |-> Dir]
  BY DEF IsFS, EmptyFS
<1>2. TreeOK([loc \in {<<>>} |-> Dir])
  BY DEF TreeOK, Dir
<1> QED BY <1>1, <1>2 DEF FsOK

\* What the updates of one field leave alone: by field ...
LEMMA Changes ==
  ASSUME NEW s, IsFS(s)
  PROVE  /\ IsFS(Raise(s)) /\ Raise(s).tree = s.tree /\ Raise(s).escaped = s.escaped
         /\ \A x : [s EXCEPT !.tree = x] = [tree |-> x, problems |-> s.problems,
                                            outcome |-> s.outcome, escaped |-> s.escaped]
         /\ \A x : [s EXCEPT !.outcome = x] = [tree |-> s.tree, problems |-> s.problems,
                                            outcome |-> x, escaped |-> s.escaped]
         /\ \A x : [s EXCEPT !.problems = x] = [tree |-> s.tree, problems |-> x,
                                            outcome |-> s.outcome, escaped |-> s.escaped]
BY DEF IsFS, Raise

\* ... of the tree ...
LEMMA NewTree ==
  ASSUME NEW s, FsOK(s), NEW x, TreeOK(x)
  PROVE  FsOK([s EXCEPT !.tree = x]) /\ [s EXCEPT !.tree = x].tree = x
<1>1. [s EXCEPT !.tree = x] = [tree |-> x, problems |-> s.problems,
                               outcome |-> s.outcome, escaped |-> s.escaped]
  BY Changes DEF FsOK
<1> QED BY <1>1 DEF FsOK, IsFS

\* ... of the outcome ...
LEMMA NewOutcome ==
  ASSUME NEW s, FsOK(s), NEW x
  PROVE  FsOK([s EXCEPT !.outcome = x]) /\ [s EXCEPT !.outcome = x].tree = s.tree
<1>1. [s EXCEPT !.outcome = x] = [tree |-> s.tree, problems |-> s.problems,
                               outcome |-> x, escaped |-> s.escaped]
  BY Changes DEF FsOK
<1> QED BY <1>1 DEF FsOK, IsFS

\* ... of the problems ...
LEMMA NewProblems ==
  ASSUME NEW s, FsOK(s), NEW x
  PROVE  FsOK([s EXCEPT !.problems = x]) /\ [s EXCEPT !.problems = x].tree = s.tree
                                          /\ [s EXCEPT !.problems = x].outcome = s.outcome
<1>1. [s EXCEPT !.problems = x] = [tree |-> s.tree, problems |-> x,
                               outcome |-> s.outcome, escaped |-> s.escaped]
  BY Changes DEF FsOK
<1> QED BY <1>1 DEF FsOK, IsFS

\* ... by an exception ...
LEMMA RaiseOK ==
  ASSUME NEW s, FsOK(s)
  PROVE  FsOK(Raise(s)) /\ Raise(s).tree = s.tree
BY NewOutcome DEF Raise

\* ... and by a reported problem.
LEMMA RecordOK ==
  ASSUME NEW s, FsOK(s), NEW problem, NEW path
  PROVE  /\ FsOK(Record(s, problem, path)) /\ Record(s, problem, path).tree = s.tree
         /\ Record(s, problem, path).outcome = s.outcome
BY NewProblems DEF Record

\* A node that may be put into a tree.
NodeOK(node) == node.kind = "link" => node.to \in Pathnames

\* A new node keeps the tree well formed and, if it is no link, every path where it
\* led.
LEMMA PutOK ==
  ASSUME NEW s, FsOK(s), NEW l \in Seq(Names), NEW node, NodeOK(node)
  PROVE  /\ FsOK(Put(s, l, node))
         /\ l \notin DOMAIN s.tree /\ node.kind # "link" => SameLinks(s.tree, Put(s, l, node).tree)
<1> DEFINE x == Bind(s.tree, l, node)
<1>1. /\ DOMAIN x = DOMAIN s.tree \cup {l}
      /\ x[l] = node /\ \A k \in DOMAIN s.tree : k # l => x[k] = s.tree[k]
  BY DEF Bind
<1> HIDE DEF x
<1>2. TreeOK(x)
  BY <1>1 DEF FsOK, TreeOK, NodeOK
<1>3. l \notin DOMAIN s.tree /\ node.kind # "link" => SameLinks(s.tree, x)
  BY <1>1 DEF SameLinks, Is
<1>4. Put(s, l, node) = [s EXCEPT !.tree = x]
  BY DEF Put, x
<1> QED BY <1>2, <1>3, <1>4, NewTree

\* The nodes that are made are well formed; only Link makes a link.
LEMMA PlainNodes ==
  /\ NodeOK(Dir) /\ NodeOK(Fifo) /\ NodeOK(Dev) /\ \A id : NodeOK(File(id)) /\ File(id).kind # "link"
  /\ Dir.kind # "link" /\ \A to \in Pathnames : NodeOK(Link(to))
BY DEF NodeOK, Dir, Fifo, Dev, File, Link

\* Removing a node keeps the tree well formed.
LEMMA DropOK ==
  ASSUME NEW s, FsOK(s), NEW l
  PROVE  FsOK(DropNode(s, l))
<1> DEFINE x == [k \in DOMAIN s.tree \ {l} |-> s.tree[k]]
<1>1. TreeOK(x)
  BY DEF FsOK, TreeOK
<1>2. DropNode(s, l) = [s EXCEPT !.tree = x]
  BY DEF DropNode
<1> QED BY <1>1, <1>2, NewTree

\* Having the same links is reflexive and transitive.
LEMMA SameLinksAgain ==
  /\ \A t : SameLinks(t, t)
  /\ \A t, u, v : SameLinks(t, u) /\ SameLinks(u, v) => SameLinks(t, v)
BY DEF SameLinks

\* mkdir of a path that is inside stays inside, and no path leads elsewhere after it.
LEMMA MakeDirOK ==
  ASSUME NEW s, FsOK(s), NEW p \in Seq(Names), Inside(s.tree, p)
  PROVE  FsOK(MakeDir(s, p)) /\ SameLinks(s.tree, MakeDir(s, p).tree)
<1> DEFINE d == Follow(s.tree, p)
           n == NoFollow(s.tree, p)
<1>1. d.st # "out" /\ n.st # "out" /\ n \in Ends
  BY InsideFollow, InsideNoFollow DEF FsOK
<1>2. n.st = "at" => n.loc \in Seq(Names)
  BY <1>1, EndIs
<1>3. MakeDir(s, p) = s \/ MakeDir(s, p) = Raise(s)
      \/ (MakeDir(s, p) = Put(s, n.loc, Dir) /\ n.st = "at" /\ n.loc \notin DOMAIN s.tree)
  BY <1>1 DEF MakeDir
<1> HIDE DEF d, n
<1>4. CASE MakeDir(s, p) = s
  BY <1>4, SameLinksAgain
<1>5. CASE MakeDir(s, p) = Raise(s)
  BY <1>5, SameLinksAgain, RaiseOK
<1>6. CASE MakeDir(s, p) = Put(s, n.loc, Dir) /\ n.st = "at" /\ n.loc \notin DOMAIN s.tree
  BY <1>6, <1>2, PutOK, PlainNodes
<1> QED BY <1>3, <1>4, <1>5, <1>6


-----------------------------------------------------------------------------
(* Loops: recursive functions of a number.                                 *)

Paths(entries, up) ==
  [id \in DOMAIN entries |->
     IF id = Root THEN [ok |-> TRUE, parts |-> <<>>]
     ELSE IF entries[id].parent \notin DOMAIN entries THEN [ok |-> FALSE, parts |-> <<>>]
     ELSE [up[entries[id].parent] EXCEPT !.parts = Append(@, entries[id].name)]]

\* One round of the loops of the model.
Round(loop, arg, k, x) ==
  CASE loop = "parents" -> MakeDir(x, SubSeq(arg, 1, k - 1))
    [] loop = "modes" -> ChMod(x, arg[k])
    [] OTHER -> Paths(arg, x)
Rounds(f, n, x0, loop, arg) == f = [k \in 0 .. n |-> IF k = 0 THEN x0 ELSE Round(loop, arg, k, f[k - 1])]

\* A loop of n rounds has an outcome after each of them.
LEMMA Loop ==
  ASSUME NEW n \in Nat, NEW x0, NEW loop, NEW arg
  PROVE  \E f : Rounds(f, n, x0, loop, arg)
<1> DEFINE Good(f, m) == \A k \in 0 .. m : f[k] = IF k = 0 THEN x0 ELSE Round(loop, arg, k, f[k - 1])
           T == {m \in 0 .. n : ~ \E f : Good(f, m)}
<1>1. T = {}
  <2> SUFFICES ASSUME T # {} PROVE FALSE
    OBVIOUS
  <2>1. PICK m \in T : \A i \in T : m <= i
    <3>1. T \subseteq Nat
      OBVIOUS
    <3> HIDE DEF T
    <3> QED BY <3>1, NatLeast
  <2>2. CASE m = 0
    <3> DEFINE f == [k \in 0 .. n |-> x0]
    <3>1. Good(f, m)
      BY <2>2
    <3> QED BY <2>1, <3>1
  <2>3. CASE m # 0
    <3>1. m - 1 \in 0 .. n /\ m \in Nat /\ m \in 0 .. n
      BY <2>1, <2>3
    <3>2. m - 1 \notin T
      <4> HIDE DEF T
      <4> QED BY <2>1, <3>1
    <3>3. PICK g : Good(g, m - 1)
      BY <3>1, <3>2
    <3> DEFINE f == [k \in 0 .. n |-> IF k < m THEN g[k] ELSE Round(loop, arg, m, g[m - 1])]
    <3>4. \A k \in 0 .. n : f[k] = IF k < m THEN g[k] ELSE Round(loop, arg, m, g[m - 1])
      OBVIOUS
    <3> HIDE DEF f
    <3>5. ASSUME NEW k \in 0 .. m PROVE f[k] = IF k = 0 THEN x0 ELSE Round(loop, arg, k, f[k - 1])
      <4>1. CASE k < m
        BY <3>1, <3>3, <3>4, <4>1
      <4>2. CASE k = m
        BY <3>1, <3>4, <4>2, <2>3
      <4> QED BY <3>1, <4>1, <4>2
    <3> QED BY <2>1, <3>5
  <2> QED BY <2>2, <2>3
<1>2. PICK g : Good(g, n)
  BY <1>1
<1> DEFINE f == [k \in 0 .. n |-> g[k]]
<1>3. ASSUME NEW k \in 0 .. n PROVE g[k] = IF k = 0 THEN x0 ELSE Round(loop, arg, k, f[k - 1])
  <2>1. k # 0 => k - 1 \in 0 .. n
    OBVIOUS
  <2>2. k # 0 => f[k - 1] = g[k - 1]
    BY <2>1
  <2> HIDE DEF f
  <2> QED BY <1>2, <2>2
<1>4. f = [k \in 0 .. n |-> IF k = 0 THEN x0 ELSE Round(loop, arg, k, f[k - 1])]
  BY <1>3
<1> QED BY <1>4 DEF Rounds

\* With is application.
LEMMA WithIs == ASSUME NEW x, NEW F(_) PROVE With(x, F) = F(x)
BY DEF With

\* parent.mkdir(parents=True) as a loop over the parents.
LEMMA EnsureIs ==
  ASSUME NEW s, NEW p \in Seq(Names)
  PROVE  \E f : Rounds(f, Len(p), s, "parents", p) /\ EnsureParentDir(s, p) = f[Len(p)]
<1> DEFINE Body(f) == [k \in 0 .. Len(p) |->
              IF k = 0 THEN s ELSE With(f[k - 1], LAMBDA t : MakeDir(t, SubSeq(p, 1, k - 1)))]
<1>1. \A f, k : With(f[k - 1], LAMBDA t : MakeDir(t, SubSeq(p, 1, k - 1))) = Round("parents", p, k, f[k - 1])
  BY DEF With, Round
<1>2. \A f : (f = Body(f)) <=> Rounds(f, Len(p), s, "parents", p)
  BY <1>1 DEF Rounds
<1>3. \E f : f = Body(f)
  <2>1. Len(p) \in Nat
    OBVIOUS
  <2> HIDE DEF Body
  <2> QED BY <1>2, <2>1, Loop
<1>4. EnsureParentDir(s, p) = (CHOOSE f : f = Body(f))[Len(p)]
  BY DEF EnsureParentDir
<1> DEFINE c == CHOOSE f : f = Body(f)
<1>5. c = Body(c)
  BY <1>3
<1> HIDE DEF c, Body
<1> QED BY <1>2, <1>4, <1>5 DEF c

\* Making the parents of a path that is inside stays inside, and what was inside
\* before is so after it: the check made before the parents exist still holds.
LEMMA EnsureOK ==
  ASSUME NEW s, FsOK(s), NEW p \in Seq(Names), Inside(s.tree, p)
  PROVE  /\ FsOK(EnsureParentDir(s, p))
         /\ SameLinks(s.tree, EnsureParentDir(s, p).tree)
         /\ \A q \in Seq(Names) : Inside(s.tree, q) => Inside(EnsureParentDir(s, p).tree, q)
<1>1. PICK f : Rounds(f, Len(p), s, "parents", p) /\ EnsureParentDir(s, p) = f[Len(p)]
  BY EnsureIs
<1>2. f = [k \in 0 .. Len(p) |-> IF k = 0 THEN s ELSE Round("parents", p, k, f[k - 1])]
  BY <1>1 DEF Rounds
<1>3. \A k \in 0 .. Len(p) : f[k] = IF k = 0 THEN s ELSE Round("parents", p, k, f[k - 1])
  BY <1>2
<1> DEFINE Ok(k) == FsOK(f[k]) /\ SameLinks(s.tree, f[k].tree)
           T == {k \in 0 .. Len(p) : ~Ok(k)}
<1>4. T = {}
  <2> SUFFICES ASSUME T # {} PROVE FALSE
    OBVIOUS
  <2>1. PICK k \in T : \A i \in T : k <= i
    <3>1. T \subseteq Nat
      OBVIOUS
    <3> HIDE DEF T
    <3> QED BY <3>1, NatLeast
  <2>2. k \in 0 .. Len(p) /\ Len(p) \in Nat
    OBVIOUS
  <2>3. CASE k = 0
    <3>1. f[0] = s
      BY <1>3, <2>2
    <3> QED BY <2>1, <2>3, <3>1, SameLinksAgain
  <2>4. CASE k # 0
    <3>1. k - 1 \in 0 .. Len(p) /\ k - 1 < k
      BY <2>2, <2>4
    <3>2. Ok(k - 1)
      <4>1. k - 1 \notin T
        <5> HIDE DEF T
        <5> QED BY <2>1, <2>2, <3>1
      <4> HIDE DEF Ok
      <4> QED BY <3>1, <4>1
    <3>3. f[k] = MakeDir(f[k - 1], SubSeq(p, 1, k - 1))
      <4>1. f[k] = Round("parents", p, k, f[k - 1])
        BY <1>3, <2>2, <2>4
      <4> QED BY <4>1 DEF Round
    <3> DEFINE x == f[k - 1]
               q == SubSeq(p, 1, k - 1)
    <3>4. q \in Seq(Names) /\ Inside(s.tree, q)
      BY <3>1, PrefixInside DEF FsOK
    <3>5. FsOK(x) /\ SameLinks(s.tree, x.tree)
      BY <3>2
    <3> HIDE DEF x, q
    <3>6. Inside(x.tree, q)
      BY <3>4, <3>5, SameInside DEF FsOK
    <3>7. FsOK(MakeDir(x, q)) /\ SameLinks(x.tree, MakeDir(x, q).tree)
      BY <3>4, <3>5, <3>6, MakeDirOK
    <3>8. SameLinks(s.tree, MakeDir(x, q).tree)
      BY <3>5, <3>7, SameLinksAgain
    <3>9. Ok(k)
      BY <3>3, <3>7, <3>8 DEF x, q
    <3> QED BY <2>1, <3>9
  <2> QED BY <2>3, <2>4
<1>5. Ok(Len(p))
  <2>1. Len(p) \in 0 .. Len(p)
    OBVIOUS
  <2> HIDE DEF Ok
  <2> QED BY <1>4, <2>1
<1> QED BY <1>1, <1>5, SameInside DEF FsOK

-----------------------------------------------------------------------------
(* The methods of FileSystem.                                              *)

\* The output directory itself is inside.
LEMMA RootInside ==
  ASSUME NEW t, TreeOK(t)
  PROVE  Inside(t, <<>>)
<1> DEFINE w == From(<<>>)
<1>1. w \in Walks /\ Resolve(t, <<>>) = WalkFcn(t, TRUE)[w]
  <2>1. <<>> \in Seq(Names)
    OBVIOUS
  <2> QED BY <2>1, Lookups
<1>2. w.parts = <<>>
  BY DEF From
<1> HIDE DEF w
<1>3. WalkFcn(t, TRUE)[w] = At(w.at)
  BY <1>1, <1>2, WalkUnfolds, LaxStep
<1>4. At(w.at).st = "at"
  BY DEF At
<1> QED BY <1>1, <1>3, <1>4, Zenon DEF Inside

\* A sequence of three.
LEMMA ThreeNames ==
  ASSUME NEW S, NEW x \in S, NEW y \in S, NEW z \in S
  PROVE  <<x, y, z>> \in Seq(S)
OBVIOUS

\* The path in the lost and found directory is one of names.
LEMMA LostPath ==
  ASSUME NEW path \in Pathnames, path.parts # <<>>
  PROVE  MakeLostAndFoundPath(path) \in Seq(Names)
<1> DEFINE n == IF Last(path.parts) = Up THEN "dot-dot" ELSE Last(path.parts)
           d == Slug(<<path.abs, Front(path.parts)>>)
<1>1. Last(path.parts) \in Names
  BY Divide DEF Pathnames
<1>2. NoName \in Names /\ "dot-dot" \in Names /\ LostAndFound \in Names
  BY NamesAssumption
<1>3. d \in Names
  BY <1>2, Zenon DEF Slug
<1>4. n \in Names
  BY <1>1, <1>2
<1>5. MakeLostAndFoundPath(path) = <<LostAndFound, d, n>>
  BY DEF MakeLostAndFoundPath
<1> HIDE DEF n, d
<1>6. <<LostAndFound, d, n>> \in Seq(Names)
  BY <1>2, <1>3, <1>4, ThreeNames, Zenon
<1> QED BY <1>5, <1>6

\* A path that _FSPath lets through, or redirects to, is inside.
LEMMA PathOK ==
  ASSUME NEW t, TreeOK(t), NEW path \in Pathnames
  PROVE  LET p == FSPath(t, path) IN
         p.parts \in Seq(Names) /\ (~p.fails => Inside(t, p.parts))
<1> DEFINE r == Resolve(t, path.parts)
           to == IF r.st = "out" THEN MakeLostAndFoundPath(path) ELSE path.parts
<1>1. FSPath(t, path) = [safe |-> r.st = "at", parts |-> to, fails |-> Resolve(t, to).st # "at"]
  BY DEF FSPath
<1>2. path.parts \in Seq(Names)
  BY DEF Pathnames
<1>3. r.st = "out" => path.parts # <<>>
  BY RootInside DEF Inside
<1>4. to \in Seq(Names)
  BY <1>2, <1>3, LostPath
<1> HIDE DEF r, to
<1>5. FSPath(t, path).parts = to /\ FSPath(t, path).fails = (Resolve(t, to).st # "at")
  BY <1>1
<1> QED BY <1>4, <1>5 DEF Inside

\* _get_extraction_path: what it returns is inside, and it changes no node.
LEMMA CheckedOK ==
  ASSUME NEW s, FsOK(s), NEW path \in Pathnames, NEW p, p = FSPath(s.tree, path)
  PROVE  /\ FsOK(GetExtractionPath(s, path, p))
         /\ GetExtractionPath(s, path, p).tree = s.tree
         /\ p.parts \in Seq(Names)
         /\ ~p.fails => Inside(GetExtractionPath(s, path, p).tree, p.parts)
<1>1. FsOK(GetExtractionPath(s, path, p)) /\ GetExtractionPath(s, path, p).tree = s.tree
  BY RaiseOK, RecordOK DEF GetExtractionPath
<1>2. p.parts \in Seq(Names) /\ (~p.fails => Inside(s.tree, p.parts))
  BY PathOK DEF FsOK
<1> QED BY <1>1, <1>2

\* A system call that makes a new name inside stays inside.
LEMMA CreateOK ==
  ASSUME NEW s, FsOK(s), NEW p \in Seq(Names), Inside(s.tree, p), NEW node, NodeOK(node)
  PROVE  FsOK(Create(s, p, node))
<1> DEFINE n == NoFollow(s.tree, p)
<1>1. n \in Ends /\ n.st # "out"
  BY InsideNoFollow DEF FsOK
<1>2. n.st = "at" => n.loc \in Seq(Names)
  BY <1>1, EndIs
<1>3. Create(s, p, node) \in {s, Raise(s)} \/ (n.st = "at" /\ Create(s, p, node) = Put(s, n.loc, node))
  BY <1>1 DEF Create
<1> HIDE DEF n
<1> QED BY <1>2, <1>3, PutOK, RaiseOK

\* open for writing of a path that is inside stays inside, through links too.
LEMMA OpenWriteOK ==
  ASSUME NEW s, FsOK(s), NEW p \in Seq(Names), Inside(s.tree, p), NEW id
  PROVE  FsOK(OpenWrite(s, p, id))
<1> DEFINE f == Follow(s.tree, p)
           x == [l \in DOMAIN s.tree |-> IF s.tree[l] = s.tree[f.loc] THEN File(id) ELSE s.tree[l]]
<1>1. f \in Ends /\ f.st # "out"
  BY InsideFollow, LookupsTyped DEF FsOK
<1>2. f.st = "at" => f.loc \in Seq(Names)
  BY <1>1, EndIs
<1>3. TreeOK(x)
  BY PlainNodes DEF FsOK, TreeOK, File
<1>4. \/ OpenWrite(s, p, id) \in {s, Raise(s), [s EXCEPT !.outcome = "blocked"], [s EXCEPT !.tree = x]}
      \/ f.st = "at" /\ OpenWrite(s, p, id) = Put(s, f.loc, File(id))
  BY <1>1 DEF OpenWrite
<1> HIDE DEF f, x
<1>5. CASE f.st = "at" /\ OpenWrite(s, p, id) = Put(s, f.loc, File(id))
  BY <1>2, <1>5, PutOK, PlainNodes
<1>6. CASE OpenWrite(s, p, id) \in {s, Raise(s), [s EXCEPT !.outcome = "blocked"], [s EXCEPT !.tree = x]}
  <2>1. FsOK(Raise(s)) /\ FsOK([s EXCEPT !.outcome = "blocked"]) /\ FsOK([s EXCEPT !.tree = x])
    BY <1>3, RaiseOK, NewOutcome, NewTree, Zenon
  <2> QED BY <1>6, <2>1, Zenon
<1> QED BY <1>4, <1>5, <1>6

\* The path a method works on, whether it gets to work, and the state it starts from.
Parts(s, path) == FSPath(s.tree, path).parts
Goes(s, path) == s.outcome = "ok" /\ ~FSPath(s.tree, path).fails
Checked(s, path) == GetExtractionPath(s, path, FSPath(s.tree, path))
Ready(s, path) == EnsureParentDir(Checked(s, path), Parts(s, path))

\* The state of a method once it has its path and made the parents: the path is
\* still inside.
LEMMA ReadyOK ==
  ASSUME NEW s, FsOK(s), NEW path \in Pathnames
  PROVE  /\ FsOK(Checked(s, path)) /\ Checked(s, path).tree = s.tree
         /\ Parts(s, path) \in Seq(Names)
         /\ Goes(s, path) => /\ Inside(s.tree, Parts(s, path))
                             /\ FsOK(Ready(s, path))
                             /\ Inside(Ready(s, path).tree, Parts(s, path))
<1> DEFINE p == FSPath(s.tree, path)
<1>1. /\ FsOK(Checked(s, path)) /\ Checked(s, path).tree = s.tree
      /\ p.parts \in Seq(Names) /\ (~p.fails => Inside(Checked(s, path).tree, p.parts))
  BY CheckedOK DEF Checked
<1>2. p.parts = Parts(s, path) /\ (Goes(s, path) => ~p.fails)
  BY DEF Parts, Goes
<1> HIDE DEF p
<1>3. Goes(s, path) => /\ FsOK(EnsureParentDir(Checked(s, path), Parts(s, path)))
                       /\ Inside(EnsureParentDir(Checked(s, path), Parts(s, path)).tree, Parts(s, path))
  BY <1>1, <1>2, EnsureOK
<1> QED BY <1>1, <1>2, <1>3 DEF Ready

\* write_bytes and write_chunks act inside ...
LEMMA WriteBytesOK ==
  ASSUME NEW s, FsOK(s), NEW path \in Pathnames, NEW id
  PROVE  FsOK(WriteBytes(s, path, id)) /\ FsOK(WriteChunks(s, path, id))
<1>1. WriteBytes(s, path, id) = IF Goes(s, path) THEN OpenWrite(Ready(s, path), Parts(s, path), id)
                                ELSE IF s.outcome = "ok" THEN Checked(s, path) ELSE s
  BY DEF WriteBytes, WithPath, Goes, Ready, Parts, Checked
<1>2. Goes(s, path) => FsOK(OpenWrite(Ready(s, path), Parts(s, path), id))
  BY ReadyOK, OpenWriteOK
<1> QED BY <1>1, <1>2, ReadyOK DEF WriteChunks

\* ... so do carve ...
LEMMA CarveOK ==
  ASSUME NEW s, FsOK(s), NEW path \in Pathnames, NEW id
  PROVE  FsOK(Carve(s, path, id))
<1>1. Carve(s, path, id) = IF Goes(s, path) THEN Create(Ready(s, path), Parts(s, path), File(id))
                           ELSE IF s.outcome = "ok" THEN Checked(s, path) ELSE s
  BY DEF Carve, WithPath, Goes, Ready, Parts, Checked
<1>2. Goes(s, path) => FsOK(Create(Ready(s, path), Parts(s, path), File(id)))
  BY ReadyOK, CreateOK, PlainNodes
<1> QED BY <1>1, <1>2, ReadyOK

\* ... mkdir ...
LEMMA MkDirOK ==
  ASSUME NEW s, FsOK(s), NEW path \in Pathnames, NEW parents, NEW exist_ok
  PROVE  FsOK(MkDir(s, path, parents, exist_ok))
<1> DEFINE u == IF parents THEN Ready(s, path) ELSE Checked(s, path)
<1>1. MkDir(s, path, parents, exist_ok) =
        IF Goes(s, path)
        THEN IF exist_ok THEN MakeDir(u, Parts(s, path)) ELSE Create(u, Parts(s, path), Dir)
        ELSE IF s.outcome = "ok" THEN Checked(s, path) ELSE s
  BY DEF MkDir, WithPath, Goes, Ready, Parts, Checked
<1>2. Goes(s, path) => FsOK(u) /\ Inside(u.tree, Parts(s, path))
  BY ReadyOK
<1> HIDE DEF u
<1>3. Goes(s, path) => FsOK(MakeDir(u, Parts(s, path))) /\ FsOK(Create(u, Parts(s, path), Dir))
  BY <1>2, ReadyOK, MakeDirOK, CreateOK, PlainNodes
<1> QED BY <1>1, <1>3, ReadyOK

\* ... mkfifo ...
LEMMA MkFifoOK ==
  ASSUME NEW s, FsOK(s), NEW path \in Pathnames
  PROVE  FsOK(MkFifo(s, path))
<1>1. MkFifo(s, path) = IF Goes(s, path) THEN Create(Ready(s, path), Parts(s, path), Fifo)
                        ELSE IF s.outcome = "ok" THEN Checked(s, path) ELSE s
  BY DEF MkFifo, WithPath, Goes, Ready, Parts, Checked
<1>2. Goes(s, path) => FsOK(Create(Ready(s, path), Parts(s, path), Fifo))
  BY ReadyOK, CreateOK, PlainNodes
<1> QED BY <1>1, <1>2, ReadyOK

\* ... mknod ...
LEMMA MkNodOK ==
  ASSUME NEW s, FsOK(s), NEW path \in Pathnames, NEW root
  PROVE  FsOK(MkNod(s, path, root))
<1>1. MkNod(s, path, root) =
        IF Goes(s, path)
        THEN IF root THEN Create(Ready(s, path), Parts(s, path), Dev)
             ELSE Record(Checked(s, path), "special", path)
        ELSE IF s.outcome = "ok" THEN Checked(s, path) ELSE s
  BY DEF MkNod, WithPath, Goes, Ready, Parts, Checked
<1>2. Goes(s, path) => FsOK(Create(Ready(s, path), Parts(s, path), Dev))
  BY ReadyOK, CreateOK, PlainNodes
<1>3. FsOK(Record(Checked(s, path), "special", path))
  BY ReadyOK, RecordOK
<1> QED BY <1>1, <1>2, <1>3, ReadyOK

\* ... open in any mode ...
LEMMA OpenOK ==
  ASSUME NEW s, FsOK(s), NEW path \in Pathnames, NEW mode, NEW id
  PROVE  FsOK(Open(s, path, mode, id))
<1> DEFINE u == Ready(s, path)
           p == Parts(s, path)
<1>1. Open(s, path, mode, id) = IF Goes(s, path) THEN OpenIn(u, p, mode, id)
                                ELSE IF s.outcome = "ok" THEN Checked(s, path) ELSE s
  BY DEF Open, WithPath, Goes, Ready, Parts, Checked
<1>2. ASSUME Goes(s, path) PROVE FsOK(OpenIn(u, p, mode, id))
  <2>1. FsOK(u) /\ Inside(u.tree, p) /\ p \in Seq(Names)
    BY <1>2, ReadyOK
  <2> HIDE DEF u, p
  <2>2. Follow(u.tree, p).st # "out"
    BY <2>1, InsideFollow DEF FsOK
  <2>3. OpenIn(u, p, mode, id) \in {u, Raise(u), Create(u, p, File(id)), OpenWrite(u, p, id)}
    BY <2>2 DEF OpenIn
  <2>4. FsOK(Raise(u)) /\ FsOK(Create(u, p, File(id))) /\ FsOK(OpenWrite(u, p, id))
    BY <2>1, RaiseOK, CreateOK, OpenWriteOK, PlainNodes
  <2> QED BY <2>1, <2>3, <2>4
<1> QED BY <1>1, <1>2, ReadyOK

\* ... unlink ...
LEMMA UnlinkOK ==
  ASSUME NEW s, FsOK(s), NEW path \in Pathnames
  PROVE  FsOK(Unlink(s, path))
<1> DEFINE t == Checked(s, path)
           n == NoFollow(t.tree, Parts(s, path))
<1>1. Unlink(s, path) =
        IF Goes(s, path)
        THEN IF n.st = "out" THEN Escape(t)
             ELSE IF Missing(t.tree, n) THEN t
             ELSE IF n.st # "at" \/ Is(t.tree, n.loc, "dir") THEN Raise(t)
             ELSE DropNode(t, n.loc)
        ELSE IF s.outcome = "ok" THEN t ELSE s
  BY DEF Unlink, WithPath, Goes, Parts, Checked
<1>2. FsOK(t) /\ (Goes(s, path) => n.st # "out")
  BY ReadyOK, InsideNoFollow DEF FsOK
<1> HIDE DEF t, n
<1> QED BY <1>1, <1>2, RaiseOK, DropOK

\* ... rmdir ...
LEMMA RmDirOK ==
  ASSUME NEW s, FsOK(s), NEW path \in Pathnames
  PROVE  FsOK(RmDir(s, path))
<1> DEFINE t == Checked(s, path)
           n == NoFollow(t.tree, Parts(s, path))
<1>1. RmDir(s, path) =
        IF Goes(s, path)
        THEN IF n.st = "out" THEN Escape(t)
             ELSE IF Missing(t.tree, n) THEN Record(t, "not found", path)
             ELSE IF n.st = "at" /\ Is(t.tree, n.loc, "dir")
                     /\ Children(t.tree, n.loc) = {} THEN DropNode(t, n.loc)
             ELSE Raise(t)
        ELSE IF s.outcome = "ok" THEN t ELSE s
  BY DEF RmDir, WithPath, Goes, Parts, Checked
<1>2. FsOK(t) /\ (Goes(s, path) => n.st # "out")
  BY ReadyOK, InsideNoFollow DEF FsOK
<1>3. FsOK(Raise(t)) /\ FsOK(Record(t, "not found", path)) /\ FsOK(DropNode(t, n.loc))
  BY <1>2, RaiseOK, RecordOK, DropOK, Zenon
<1> HIDE DEF t, n
<1> QED BY <1>1, <1>2, <1>3

\* ... truncate, utime and chmod ...
LEMMA TouchOK ==
  ASSUME NEW s, FsOK(s), NEW path \in Pathnames
  PROVE  FsOK(Truncate(s, path)) /\ FsOK(UTime(s, path)) /\ FsOK(ChMod(s, path))
<1> DEFINE t == Checked(s, path)
           f == Follow(t.tree, Parts(s, path))
           Result(fits) == IF Goes(s, path)
                     THEN IF f.st = "out" THEN Escape(t)
                          ELSE IF Missing(t.tree, f) THEN Record(t, "not found", path)
                          ELSE IF f.st # "at" THEN Raise(t)
                          ELSE IF fits THEN t ELSE Raise(t)
                     ELSE IF s.outcome = "ok" THEN t ELSE s
<1>1. /\ Truncate(s, path) = Result(t.tree[f.loc].kind \in {"file", "dev"})
      /\ UTime(s, path) = Result(TRUE) /\ ChMod(s, path) = Result(TRUE)
  BY DEF Truncate, UTime, ChMod, Touch, WithPath, Goes, Parts, Checked
<1>2. FsOK(t) /\ (Goes(s, path) => f.st # "out")
  BY ReadyOK, InsideFollow DEF FsOK
<1>3. FsOK(Raise(t)) /\ FsOK(Record(t, "not found", path))
  BY <1>2, RaiseOK, RecordOK, Zenon
<1>4. ASSUME NEW fits \in BOOLEAN PROVE FsOK(Result(fits))
  <2>1. Result(fits) \in {s, t, Raise(t), Record(t, "not found", path)}
    <3> HIDE DEF t, f
    <3> QED BY <1>2
  <2> HIDE DEF Result, t
  <2> QED BY <1>2, <1>3, <2>1
<1> DEFINE b == t.tree[f.loc].kind \in {"file", "dev"}
<1>5. b \in BOOLEAN
  OBVIOUS
<1>6. Truncate(s, path) = Result(b)
  <2> HIDE DEF Result
  <2> QED BY <1>1
<1> HIDE DEF Result, b
<1> QED BY <1>1, <1>4, <1>5, <1>6

\* ... set_xattr and remove_xattr.
LEMMA XattrOK ==
  ASSUME NEW s, FsOK(s), NEW path \in Pathnames, NEW result
  PROVE  FsOK(SetXattr(s, path, result)) /\ FsOK(RemoveXattr(s, path, result))
<1> DEFINE t == Checked(s, path)
           f == Follow(t.tree, Parts(s, path))
<1>1. SetXattr(s, path, result) =
        IF Goes(s, path)
        THEN IF f.st = "out" THEN Escape(t)
             ELSE IF ~Exists(t.tree, Parts(s, path)) \/ result # "done"
             THEN Record(t, "xattr", path) ELSE t
        ELSE IF s.outcome = "ok" THEN t ELSE s
  BY DEF SetXattr, WithPath, Goes, Parts, Checked
<1>2. RemoveXattr(s, path, result) =
        IF Goes(s, path)
        THEN IF f.st = "out" THEN Escape(t)
             ELSE IF Missing(t.tree, f) THEN Record(t, "not found", path)
             ELSE IF f.st # "at" THEN Raise(t)
             ELSE CASE result = "done"   -> t
                    [] result = "denied" -> Record(t, "xattr", path)
                    [] OTHER             -> Raise(t)
        ELSE IF s.outcome = "ok" THEN t ELSE s
  BY DEF RemoveXattr, WithPath, Goes, Parts, Checked
<1>3. FsOK(t) /\ (Goes(s, path) => f.st # "out")
  BY ReadyOK, InsideFollow DEF FsOK
<1>4. FsOK(Raise(t)) /\ FsOK(Record(t, "not found", path)) /\ FsOK(Record(t, "xattr", path))
  BY <1>3, RaiseOK, RecordOK, Zenon
<1> HIDE DEF t, f
<1>5. FsOK(SetXattr(s, path, result))
  BY <1>1, <1>3, <1>4
<1>6. FsOK(RemoveXattr(s, path, result))
  BY <1>2, <1>3, <1>4
<1> QED BY <1>5, <1>6

\* A link that _get_checked_link lets through has its name inside.
LEMMA LinkOK ==
  ASSUME NEW s, FsOK(s), NEW src \in Pathnames, NEW dst \in Pathnames,
         ~FSPath(s.tree, dst).fails, ~FSPath(s.tree, src).fails
  PROVE  /\ Parts(s, dst) \in Seq(Names) /\ Parts(s, src) \in Seq(Names)
         /\ FsOK(EnsureParentDir(s, Parts(s, dst)))
         /\ Inside(EnsureParentDir(s, Parts(s, dst)).tree, Parts(s, dst))
         /\ Inside(EnsureParentDir(s, Parts(s, dst)).tree, Parts(s, src))
<1>1. /\ Parts(s, dst) \in Seq(Names) /\ Parts(s, src) \in Seq(Names)
      /\ Inside(s.tree, Parts(s, dst)) /\ Inside(s.tree, Parts(s, src))
  BY PathOK DEF FsOK, Parts
<1> QED BY <1>1, EnsureOK

\* create_symlink makes its link inside, wherever the link leads.
LEMMA CreateSymlinkOK ==
  ASSUME NEW s, FsOK(s), NEW src \in Pathnames, NEW dst \in Pathnames
  PROVE  FsOK(CreateSymlink(s, src, dst))
<1> DEFINE target == IF src.abs THEN src ELSE [dst EXCEPT !.parts = Front(@) \o src.parts]
           d == FSPath(s.tree, dst)
           c == FSPath(s.tree, target)
           p == Parts(s, dst)
           made == Create(EnsureParentDir(s, p), p, Link(src))
<1>1. target \in Pathnames
  <2>1. src.parts \in Seq(Names) /\ dst.parts \in Seq(Names) /\ Front(dst.parts) \in Seq(Names)
    BY FrontType DEF Pathnames
  <2>2. Front(dst.parts) \o src.parts \in Seq(Names)
    BY <2>1, ConcatProperties
  <2> QED BY <2>2 DEF Pathnames
<1>2. CreateSymlink(s, src, dst) =
        CASE s.outcome # "ok" -> s
          [] s.outcome = "ok" /\ (d.fails \/ c.fails) -> Raise(s)
          [] s.outcome = "ok" /\ ~d.fails /\ ~c.fails
               /\ ~(d.safe /\ c.safe) /\ Exists(s.tree, d.parts) -> Record(s, "exists", dst)
          [] OTHER -> made
  BY DEF CreateSymlink, WithLink, Parts
<1> HIDE DEF target
<1>3. ~d.fails /\ ~c.fails => FsOK(made)
  BY <1>1, LinkOK, CreateOK, PlainNodes
<1>4. FsOK(Raise(s)) /\ FsOK(Record(s, "exists", dst))
  BY RaiseOK, RecordOK
<1>5. CreateSymlink(s, src, dst) \in {s, Raise(s), Record(s, "exists", dst)}
      \/ (~d.fails /\ ~c.fails /\ CreateSymlink(s, src, dst) = made)
  <2> HIDE DEF d, c, made
  <2> QED BY <1>2
<1> HIDE DEF d, c, made
<1> QED BY <1>3, <1>4, <1>5

\* create_hardlink links a name inside to another inside.
LEMMA CreateHardlinkOK ==
  ASSUME NEW s, FsOK(s), NEW src \in Pathnames, NEW dst \in Pathnames
  PROVE  FsOK(CreateHardlink(s, src, dst))
<1> DEFINE d == FSPath(s.tree, dst)
           c == FSPath(s.tree, src)
           p == Parts(s, dst)
           q == Parts(s, src)
           u == EnsureParentDir(s, p)
           made == LinkNode(u, q, p, dst)
<1>1. CreateHardlink(s, src, dst) =
        CASE s.outcome # "ok" -> s
          [] s.outcome = "ok" /\ (d.fails \/ c.fails) -> Raise(s)
          [] s.outcome = "ok" /\ ~d.fails /\ ~c.fails
               /\ ~(d.safe /\ c.safe) /\ Exists(s.tree, d.parts) -> Record(s, "exists", dst)
          [] OTHER -> made
  BY DEF CreateHardlink, WithLink, Parts
<1>2. ASSUME ~d.fails, ~c.fails PROVE FsOK(made)
  <2> DEFINE from == NoFollow(u.tree, q)
             to == NoFollow(u.tree, p)
  <2>1. p \in Seq(Names) /\ q \in Seq(Names) /\ FsOK(u) /\ Inside(u.tree, p) /\ Inside(u.tree, q)
    BY <1>2, LinkOK
  <2> HIDE DEF p, q, u
  <2>2. from \in Ends /\ to \in Ends /\ from.st # "out" /\ to.st # "out"
    BY <2>1, InsideNoFollow DEF FsOK
  <2>3. to.st = "at" => to.loc \in Seq(Names)
    BY <2>2, EndIs
  <2>4. \/ made \in {u, Raise(u), Record(u, "no target", dst), Record(u, "privileges", dst)}
        \/ /\ to.st = "at" /\ from.st = "at" /\ from.loc \in DOMAIN u.tree
           /\ made = Put(u, to.loc, u.tree[from.loc])
    BY <2>2 DEF LinkNode, Missing
  <2>5. FsOK(Raise(u)) /\ FsOK(Record(u, "no target", dst)) /\ FsOK(Record(u, "privileges", dst))
    BY <2>1, RaiseOK, RecordOK, Zenon
  <2>6. \A l \in DOMAIN u.tree : NodeOK(u.tree[l])
    BY <2>1 DEF FsOK, TreeOK, NodeOK
  <2> HIDE DEF made, from, to
  <2> QED BY <2>1, <2>3, <2>4, <2>5, <2>6, PutOK
<1>3. FsOK(Raise(s)) /\ FsOK(Record(s, "exists", dst))
  BY RaiseOK, RecordOK
<1>4. CreateHardlink(s, src, dst) \in {s, Raise(s), Record(s, "exists", dst)}
      \/ (~d.fails /\ ~c.fails /\ CreateHardlink(s, src, dst) = made)
  <2> HIDE DEF d, c, made
  <2> QED BY <1>1
<1> HIDE DEF d, c, made
<1> QED BY <1>2, <1>3, <1>4

\* rename(2) of a location inside to another keeps the tree well formed.
LEMMA MoveOK ==
  ASSUME NEW s, FsOK(s), NEW from \in Seq(Names), NEW to \in Seq(Names)
  PROVE  FsOK(Move(s, from, to))
<1> DEFINE moved == {l \in DOMAIN s.tree : IsPrefix(from, l)}
           rest == DOMAIN s.tree \ (moved \cup {to})
           New(l) == to \o SubSeq(l, Len(from) + 1, Len(l))
           x == [l \in rest \cup {New(m) : m \in moved} |->
                   IF l \in rest THEN s.tree[l] ELSE s.tree[CHOOSE m \in moved : New(m) = l]]
<1>1. Move(s, from, to) = [s EXCEPT !.tree = x]
  BY DEF Move
<1>2. DOMAIN s.tree \subseteq Seq(Names)
  BY DEF FsOK, TreeOK
<1>3. ASSUME NEW m \in moved PROVE New(m) \in Seq(Names)
  <2>1. m \in Seq(Names)
    BY <1>2
  <2>2. SubSeq(m, Len(from) + 1, Len(m)) \in Seq(Names)
    BY <2>1, SubSeqProperties, LenProperties
  <2> QED BY <2>2, ConcatProperties
<1>4. DOMAIN x \subseteq Seq(Names)
  BY <1>2, <1>3
<1>5. ASSUME NEW l \in DOMAIN x PROVE \E k \in DOMAIN s.tree : x[l] = s.tree[k]
  <2> HIDE DEF New
  <2> QED OBVIOUS
<1> HIDE DEF x
<1>6. TreeOK(x)
  BY <1>4, <1>5 DEF TreeOK, FsOK
<1> QED BY <1>1, <1>6, NewTree

\* rename acts inside: the second path is checked, and its parents made, before
\* either is used.
LEMMA RenameOK ==
  ASSUME NEW s, FsOK(s), NEW src \in Pathnames, NEW dst \in Pathnames
  PROVE  FsOK(Rename(s, src, dst))
<1> DEFINE t == Checked(s, src)
           c == Parts(s, src)
           d == Parts(t, dst)
           u == Ready(t, dst)
           moved == RenameNode(u, c, d, dst)
<1>1. Rename(s, src, dst) =
        IF Goes(s, src)
        THEN IF Goes(t, dst) THEN moved
             ELSE IF t.outcome = "ok" THEN Checked(t, dst) ELSE t
        ELSE IF s.outcome = "ok" THEN t ELSE s
  BY DEF Rename, WithPath, Goes, Ready, Parts, Checked
<1>2. FsOK(t) /\ FsOK(Checked(t, dst)) /\ c \in Seq(Names) /\ d \in Seq(Names)
  BY ReadyOK
<1>3. ASSUME Goes(s, src), Goes(t, dst) PROVE FsOK(moved)
  <2>1. FsOK(u) /\ Inside(u.tree, d)
    BY <1>2, <1>3, ReadyOK
  <2>2. Inside(u.tree, c)
    <3>1. Inside(t.tree, c)
      BY <1>3, ReadyOK
    <3>2. Checked(t, dst).tree = t.tree /\ Inside(t.tree, d)
      BY <1>2, <1>3, ReadyOK
    <3> HIDE DEF t, c, d
    <3>3. Inside(EnsureParentDir(Checked(t, dst), d).tree, c)
      BY <1>2, <3>1, <3>2, EnsureOK
    <3> QED BY <3>3 DEF d, Ready
  <2> DEFINE from == NoFollow(u.tree, c)
             to == NoFollow(u.tree, d)
  <2> HIDE DEF u, c, d
  <2>3. from \in Ends /\ to \in Ends /\ from.st # "out" /\ to.st # "out"
    BY <1>2, <2>1, <2>2, InsideNoFollow DEF FsOK
  <2>4. (from.st = "at" => from.loc \in Seq(Names)) /\ (to.st = "at" => to.loc \in Seq(Names))
    BY <2>3, EndIs
  <2>5. \/ moved \in {u, Raise(u), Record(u, "not found", dst)}
        \/ from.st = "at" /\ to.st = "at" /\ moved = Move(u, from.loc, to.loc)
    BY <2>3 DEF RenameNode
  <2>6. FsOK(Raise(u)) /\ FsOK(Record(u, "not found", dst))
    BY <2>1, RaiseOK, RecordOK
  <2> HIDE DEF moved, from, to
  <2> QED BY <2>1, <2>4, <2>5, <2>6, MoveOK
<1> HIDE DEF t, c, d, u, moved
<1> QED BY <1>1, <1>2, <1>3

-----------------------------------------------------------------------------
(* The other loops.                                                        *)

\* The chmods at the end of a cpio dump as a loop.
LEMMA ModesIs ==
  ASSUME NEW s, NEW order \in Seq(Pathnames)
  PROVE  \E f : Rounds(f, Len(order), s, "modes", order) /\ ChModAll(s, order) = f[Len(order)]
<1> DEFINE Body(f) == [k \in 0 .. Len(order) |->
              IF k = 0 THEN s ELSE With(f[k - 1], LAMBDA t : ChMod(t, order[k]))]
<1>1. \A f, k : With(f[k - 1], LAMBDA t : ChMod(t, order[k])) = Round("modes", order, k, f[k - 1])
  BY DEF With, Round
<1>2. \A f : (f = Body(f)) <=> Rounds(f, Len(order), s, "modes", order)
  BY <1>1 DEF Rounds
<1>3. \E f : f = Body(f)
  <2>1. Len(order) \in Nat
    OBVIOUS
  <2> HIDE DEF Body
  <2> QED BY <1>2, <2>1, Loop
<1>4. ChModAll(s, order) = (CHOOSE f : f = Body(f))[Len(order)]
  BY DEF ChModAll
<1> DEFINE c == CHOOSE f : f = Body(f)
<1>5. c = Body(c)
  BY <1>3
<1> HIDE DEF c, Body
<1> QED BY <1>2, <1>4, <1>5 DEF c

\* They act inside.
LEMMA ModesOK ==
  ASSUME NEW s, FsOK(s), NEW order \in Seq(Pathnames)
  PROVE  FsOK(ChModAll(s, order))
<1>1. PICK f : Rounds(f, Len(order), s, "modes", order) /\ ChModAll(s, order) = f[Len(order)]
  BY ModesIs
<1>2. f = [k \in 0 .. Len(order) |-> IF k = 0 THEN s ELSE Round("modes", order, k, f[k - 1])]
  BY <1>1 DEF Rounds
<1>3. \A k \in 0 .. Len(order) : f[k] = IF k = 0 THEN s ELSE Round("modes", order, k, f[k - 1])
  BY <1>2
<1> DEFINE T == {k \in 0 .. Len(order) : ~FsOK(f[k])}
<1>4. T = {}
  <2> SUFFICES ASSUME T # {} PROVE FALSE
    OBVIOUS
  <2>1. PICK k \in T : \A i \in T : k <= i
    <3>1. T \subseteq Nat
      OBVIOUS
    <3> HIDE DEF T
    <3> QED BY <3>1, NatLeast
  <2>2. k \in 0 .. Len(order) /\ Len(order) \in Nat
    OBVIOUS
  <2>3. CASE k = 0
    BY <1>3, <2>1, <2>2, <2>3
  <2>4. CASE k # 0
    <3>1. k - 1 \in 0 .. Len(order) /\ k - 1 < k /\ k \in 1 .. Len(order)
      BY <2>2, <2>4
    <3>2. FsOK(f[k - 1])
      <4>1. k - 1 \notin T
        <5> HIDE DEF T
        <5> QED BY <2>1, <2>2, <3>1
      <4> QED BY <3>1, <4>1
    <3>3. f[k] = ChMod(f[k - 1], order[k])
      <4>1. f[k] = Round("modes", order, k, f[k - 1])
        BY <1>3, <2>2, <2>4
      <4> QED BY <4>1 DEF Round
    <3>4. order[k] \in Pathnames
      BY <3>1
    <3>5. FsOK(ChMod(f[k - 1], order[k]))
      BY <3>2, <3>4, TouchOK
    <3> QED BY <2>1, <3>3, <3>5
  <2> QED BY <2>3, <2>4
<1> QED BY <1>1, <1>4

\* An order of a finite set is a sequence of its elements.
LEMMA OrderTyped ==
  ASSUME NEW S, IsFiniteSet(S), NEW order \in SetToSeqs(S)
  PROVE  order \in Seq(S)
<1>1. Cardinality(S) \in Nat
  BY FS_CardinalityType
<1>2. order \in [1 .. Cardinality(S) -> S]
  BY DEF SetToSeqs
<1> QED BY <1>1, <1>2

EntriesOK(entries) ==
  IsFiniteSet(DOMAIN entries) /\ \A id \in DOMAIN entries : entries[id].name \in Names

\* resolve_path as a loop over the depth of the tree of headers.
LEMMA PathsIs ==
  ASSUME NEW entries, EntriesOK(entries)
  PROVE  \E f : /\ Rounds(f, Cardinality(DOMAIN entries),
                          [id \in DOMAIN entries |-> [ok |-> id = Root, parts |-> <<>>]], "paths", entries)
                /\ ResolvePath(entries) = f[Cardinality(DOMAIN entries)]
<1> DEFINE n == Cardinality(DOMAIN entries)
           x0 == [id \in DOMAIN entries |-> [ok |-> id = Root, parts |-> <<>>]]
           Row(k, up) == [id \in DOMAIN entries |->
              IF id = Root THEN [ok |-> TRUE, parts |-> <<>>]
              ELSE IF k = 0 \/ entries[id].parent \notin DOMAIN entries
              THEN [ok |-> FALSE, parts |-> <<>>]
              ELSE [up[entries[id].parent] EXCEPT !.parts = Append(@, entries[id].name)]]
           Body(f) == [k \in 0 .. n |-> Row(k, f[k - 1])]
<1>1. n \in Nat
  BY FS_CardinalityType DEF EntriesOK
<1> HIDE DEF n
<1>2. ASSUME NEW k \in 0 .. n, NEW up
      PROVE  Row(k, up) = IF k = 0 THEN x0 ELSE Round("paths", entries, k, up)
  <2>1. CASE k = 0
    BY <2>1
  <2>2. CASE k # 0
    BY <2>2 DEF Round, Paths
  <2> QED BY <2>1, <2>2
<1>3. \A f : (f = Body(f)) <=> Rounds(f, n, x0, "paths", entries)
  <2> HIDE DEF Row, x0
  <2> QED BY <1>2 DEF Rounds
<1>4. \E f : f = Body(f)
  <2> HIDE DEF Body, x0
  <2> QED BY <1>1, <1>3, Loop
<1>5. ResolvePath(entries) = (CHOOSE f : f = Body(f))[n]
  BY DEF ResolvePath, n
<1> DEFINE c == CHOOSE f : f = Body(f)
<1>6. c = Body(c)
  BY <1>4
<1> HIDE DEF c, Body, x0
<1>7. Rounds(c, n, x0, "paths", entries) /\ ResolvePath(entries) = c[n]
  BY <1>3, <1>5, <1>6 DEF c
<1> QED BY <1>7 DEF x0, n

\* Every path it gives is one of names, in a tree with cycles and missing parents too.
LEMMA PathsOK ==
  ASSUME NEW entries, EntriesOK(entries)
  PROVE  \A id \in DOMAIN entries : ResolvePath(entries)[id].parts \in Seq(Names)
<1> DEFINE n == Cardinality(DOMAIN entries)
           x0 == [id \in DOMAIN entries |-> [ok |-> id = Root, parts |-> <<>>]]
           V == [DOMAIN entries -> [ok : BOOLEAN, parts : Seq(Names)]]
<1>1. PICK f : Rounds(f, n, x0, "paths", entries) /\ ResolvePath(entries) = f[n]
  BY PathsIs
<1>2. n \in Nat
  BY FS_CardinalityType DEF EntriesOK
<1>3. x0 \in V
  OBVIOUS
<1>4. ASSUME NEW x \in V PROVE Paths(entries, x) \in V
  <2>1. ASSUME NEW id \in DOMAIN entries, entries[id].parent \in DOMAIN entries
        PROVE  [x[entries[id].parent] EXCEPT !.parts = Append(@, entries[id].name)]
                 \in [ok : BOOLEAN, parts : Seq(Names)]
    <3> DEFINE y == x[entries[id].parent]
    <3>1. y \in [ok : BOOLEAN, parts : Seq(Names)]
      BY <1>4, <2>1
    <3>2. entries[id].name \in Names
      BY DEF EntriesOK
    <3> HIDE DEF y
    <3>3. Append(y.parts, entries[id].name) \in Seq(Names)
      BY <3>1, <3>2, AppendProperties
    <3>4. [y EXCEPT !.parts = Append(@, entries[id].name)] \in [ok : BOOLEAN, parts : Seq(Names)]
      BY <3>1, <3>3
    <3> QED BY <3>4 DEF y
  <2> DEFINE Row(id) == IF id = Root THEN [ok |-> TRUE, parts |-> <<>>]
               ELSE IF entries[id].parent \notin DOMAIN entries THEN [ok |-> FALSE, parts |-> <<>>]
               ELSE [x[entries[id].parent] EXCEPT !.parts = Append(@, entries[id].name)]
  <2>2. \A b \in BOOLEAN : [ok |-> b, parts |-> <<>>] \in [ok : BOOLEAN, parts : Seq(Names)]
    OBVIOUS
  <2>3. \A id \in DOMAIN entries : Row(id) \in [ok : BOOLEAN, parts : Seq(Names)]
    BY <2>1, <2>2
  <2>4. Paths(entries, x) = [id \in DOMAIN entries |-> Row(id)]
    BY DEF Paths
  <2> HIDE DEF Row
  <2> QED BY <2>3, <2>4
<1> HIDE DEF n, x0, V
<1>5. \A k \in 0 .. n : f[k] = IF k = 0 THEN x0 ELSE Round("paths", entries, k, f[k - 1])
  <2>1. f = [k \in 0 .. n |-> IF k = 0 THEN x0 ELSE Round("paths", entries, k, f[k - 1])]
    BY <1>1 DEF Rounds
  <2> QED BY <2>1
<1> DEFINE T == {k \in 0 .. n : f[k] \notin V}
<1>6. T = {}
  <2> SUFFICES ASSUME T # {} PROVE FALSE
    OBVIOUS
  <2>1. PICK k \in T : \A i \in T : k <= i
    <3>1. T \subseteq Nat
      BY <1>2
    <3> HIDE DEF T
    <3> QED BY <3>1, NatLeast
  <2>2. CASE k = 0
    BY <1>2, <1>3, <1>5, <2>1, <2>2
  <2>3. CASE k # 0
    <3>1. k - 1 \in 0 .. n /\ k - 1 < k /\ k \in 0 .. n
      BY <1>2, <2>1, <2>3
    <3>2. f[k - 1] \in V
      <4>1. k - 1 \notin T
        <5> HIDE DEF T
        <5> QED BY <2>1, <3>1
      <4> QED BY <3>1, <4>1
    <3>3. f[k] = Paths(entries, f[k - 1])
      <4>1. f[k] = Round("paths", entries, k, f[k - 1])
        BY <1>5, <2>3, <3>1
      <4> QED BY <4>1 DEF Round
    <3> QED BY <1>4, <2>1, <3>2, <3>3
  <2> QED BY <2>2, <2>3
<1>7. ResolvePath(entries) \in V
  BY <1>1, <1>2, <1>6
<1> QED BY <1>7 DEF V

-----------------------------------------------------------------------------
(* The jobs: the names and paths they hold.                                *)

ClientOK(j) == DOMAIN j = {"kind", "n", "at"} /\ j.kind = "client"
StreamOK(j) == DOMAIN j = {"kind", "n", "sent", "at"} /\ j.kind = "btrfs"
CpioOK(j) ==
  /\ DOMAIN j = {"kind", "n", "dirs", "at", "last"} /\ j.kind = "cpio"
  /\ j.dirs \subseteq Pathnames /\ IsFiniteSet(j.dirs)

Frames == [entries : Seq(Dirents), path : Seq(Names)]
WalkOK(j) ==
  /\ DOMAIN j = {"kind", "disk", "at", "visited", "stack"}
  /\ j.kind \in {"minixfs", "ufs"} /\ j.disk \in Disks /\ j.stack \in Seq(Frames)

RomFrames(disk) == [addr : Nat, owner : {0} \cup DOMAIN disk, path : Seq(Names)]
RomOK(j) ==
  /\ DOMAIN j = {"kind", "disk", "at", "inodes", "dumped", "stack"} /\ j.kind = "romfs"
  /\ j.disk \in Roms /\ j.stack \in Seq(RomFrames(j.disk))
  /\ DOMAIN j.inodes \subseteq DOMAIN j.disk
  /\ \A i \in DOMAIN j.inodes : j.inodes[i] \in Seq(Names)

Ids == YaffsIds \cup {Root}
ObjectTypes == {"file", "dir", "lnk", "hard", "special"}
ObjOK(o) ==
  /\ DOMAIN o = {"type", "parent", "name", "equiv", "data"}
  /\ o.type \in ObjectTypes /\ o.parent \in Ids /\ o.name \in Names /\ o.equiv \in YaffsIds \cup {0}
Hdrs == [type : ObjectTypes, parent : Ids, name : Names, equiv : YaffsIds \cup {0}, data : {<<>>}]
Pages == [obj : Ids, chunk : YaffsChunks \cup {0}, hdr : Hdrs, tag : Nat, serial : Nat, deleted : BOOLEAN]
YaffsOK(j) ==
  /\ DOMAIN j = {"kind", "version", "at", "truth", "rewritten", "log", "pos", "entries", "nodes",
                 "chunks", "todo"}
  /\ j.kind = "yaffs"
  /\ DOMAIN j.truth \subseteq Ids /\ \A id \in DOMAIN j.truth : ObjOK(j.truth[id])
  /\ j.log \in Seq(Pages) /\ j.pos \in Nat \ {0}
  /\ EntriesOK(j.entries) /\ DOMAIN j.nodes = DOMAIN j.entries
  /\ j.todo \in Seq(DOMAIN j.entries)

JobOK(j) == ClientOK(j) \/ StreamOK(j) \/ CpioOK(j) \/ WalkOK(j) \/ RomOK(j) \/ YaffsOK(j)

\* What Contained needs to be inductive.
ExtractInv == FsOK(fs) /\ JobOK(job)

\* The kind of a job tells its shape.
LEMMA KindOf ==
  ASSUME NEW j, JobOK(j)
  PROVE  /\ j.kind = "client" => ClientOK(j)
         /\ j.kind = "btrfs" => StreamOK(j)
         /\ j.kind = "cpio" => CpioOK(j)
         /\ j.kind \in {"minixfs", "ufs"} => WalkOK(j)
         /\ j.kind = "romfs" => RomOK(j)
         /\ j.kind = "yaffs" => YaffsOK(j)
<1>1. ClientOK(j) => j.kind = "client"
  BY DEF ClientOK
<1>2. StreamOK(j) => j.kind = "btrfs"
  BY DEF StreamOK
<1>3. CpioOK(j) => j.kind = "cpio"
  BY DEF CpioOK
<1>4. WalkOK(j) => j.kind \in {"minixfs", "ufs"}
  BY DEF WalkOK
<1>5. RomOK(j) => j.kind = "romfs"
  BY DEF RomOK
<1>6. YaffsOK(j) => j.kind = "yaffs"
  BY DEF YaffsOK
<1> QED BY <1>1, <1>2, <1>3, <1>4, <1>5, <1>6 DEF JobOK

\* A path of names, relative or absolute.
LEMMA RelOK ==
  ASSUME NEW p \in Seq(Names)
  PROVE  Rel(p) \in Pathnames /\ Path(TRUE, p) \in Pathnames
BY DEF Rel, Path, Pathnames

\* Any call of a client keeps the invariant.
LEMMA CallInv ==
  ASSUME ExtractInv, Call
  PROVE  FsOK(fs') /\ JobOK(job')
<1>1. ClientOK(job) /\ FsOK(fs)
  BY KindOf DEF ExtractInv, Call, Running
<1>2. JobOK(job')
  BY <1>1 DEF ClientOK, Call, JobOK
<1>3. PICK p \in ClientPaths :
       \/ fs' = WriteBytes(fs, p, job.n)
       \/ fs' = Carve(fs, p, job.n)
       \/ \E parents, exist_ok \in BOOLEAN : fs' = MkDir(fs, p, parents, exist_ok)
       \/ fs' = MkFifo(fs, p)
       \/ \E root \in BOOLEAN : fs' = MkNod(fs, p, root)
       \/ \E to \in LinkTargets : fs' = CreateSymlink(fs, to, p)
       \/ \E mode \in {"wb+", "rb+", "xb+"} : fs' = Open(fs, p, mode, job.n)
       \/ fs' = Unlink(fs, p)
       \/ fs' = RmDir(fs, p)
       \/ fs' = Truncate(fs, p)
       \/ \E q \in ClientPaths : \/ fs' = Rename(fs, p, q)
                                 \/ fs' = CreateHardlink(fs, p, q)
  BY DEF Call
<1>4. p \in Pathnames /\ LinkTargets \subseteq Pathnames /\ ClientPaths \subseteq Pathnames
  BY PathsAssumption
<1>5. FsOK(fs')
  BY <1>1, <1>3, <1>4, WriteBytesOK, CarveOK, MkDirOK, MkFifoOK, MkNodOK, CreateSymlinkOK, OpenOK,
     UnlinkOK, RmDirOK, TouchOK, RenameOK, CreateHardlinkOK
<1> QED BY <1>2, <1>5

\* Any command of a btrfs stream acts inside ...
LEMMA ReplayCommandOK ==
  ASSUME NEW s, FsOK(s), NEW cmd \in Kinds, NEW p \in Seq(Names), NEW q \in Seq(Names),
         NEW to, cmd = "symlink" => to \in Pathnames, NEW id, NEW root, NEW result
  PROVE  FsOK(ReplayCommand(s, cmd, p, q, to, id, root, result))
<1>1. Rel(p) \in Pathnames /\ Rel(q) \in Pathnames
  BY RelOK
<1> DEFINE src == Open(s, Rel(q), "rb+", id)
           r == ReplayCommand(s, cmd, p, q, to, id, root, result)
<1>2. \/ r \in {WriteBytes(s, Rel(p), id), MkDir(s, Rel(p), TRUE, TRUE), MkNod(s, Rel(p), root),
               MkFifo(s, Rel(p)), Rename(s, Rel(p), Rel(q)), CreateHardlink(s, Rel(q), Rel(p))}
      \/ cmd = "symlink" /\ r = CreateSymlink(s, to, Rel(p))
      \/ r \in {Unlink(s, Rel(p)), RmDir(s, Rel(p)), Open(s, Rel(p), "rb+", id), Raise(s), src,
                Truncate(s, Rel(p)), ChMod(s, Rel(p)), UTime(s, Rel(p)),
                SetXattr(s, Rel(p), result), RemoveXattr(s, Rel(p), result),
                Record(s, "unsupported", Rel(p))}
  BY DEF ReplayCommand
<1>3. /\ FsOK(WriteBytes(s, Rel(p), id)) /\ FsOK(MkDir(s, Rel(p), TRUE, TRUE)) /\ FsOK(MkNod(s, Rel(p), root))
      /\ FsOK(MkFifo(s, Rel(p))) /\ FsOK(Rename(s, Rel(p), Rel(q))) /\ FsOK(CreateHardlink(s, Rel(q), Rel(p)))
  BY <1>1, WriteBytesOK, MkDirOK, MkNodOK, MkFifoOK, RenameOK, CreateHardlinkOK, Zenon
<1>4. cmd = "symlink" => FsOK(CreateSymlink(s, to, Rel(p)))
  BY <1>1, CreateSymlinkOK
<1>5. /\ FsOK(Unlink(s, Rel(p))) /\ FsOK(RmDir(s, Rel(p))) /\ FsOK(Open(s, Rel(p), "rb+", id))
      /\ FsOK(Raise(s)) /\ FsOK(src) /\ FsOK(Record(s, "unsupported", Rel(p)))
  BY <1>1, UnlinkOK, RmDirOK, OpenOK, RaiseOK, RecordOK, Zenon
<1>6. /\ FsOK(Truncate(s, Rel(p))) /\ FsOK(ChMod(s, Rel(p))) /\ FsOK(UTime(s, Rel(p)))
      /\ FsOK(SetXattr(s, Rel(p), result)) /\ FsOK(RemoveXattr(s, Rel(p), result))
  BY <1>1, TouchOK, XattrOK
<1> HIDE DEF src, r
<1>7. FsOK(r)
  BY <1>2, <1>3, <1>4, <1>5, <1>6
<1> QED BY <1>7 DEF r

\* ... so the replay keeps the invariant.
LEMMA ReplayInv ==
  ASSUME ExtractInv, ReplayStart \/ ReplayStep \/ ReplayEnd
  PROVE  FsOK(fs') /\ JobOK(job')
<1>1. StreamOK(job) /\ FsOK(fs)
  BY KindOf DEF ExtractInv, ReplayStart, ReplayStep, ReplayEnd, Running
<1>2. CASE ReplayStart
  <2>1. JobOK(job')
    BY <1>1, <1>2 DEF ReplayStart, StreamOK, JobOK
  <2>2. fs' = fs \/ fs' = Raise(fs)
    BY <1>2 DEF ReplayStart
  <2> QED BY <1>1, <2>1, <2>2, RaiseOK
<1>3. CASE ReplayStep
  <2>1. PICK cmd \in Kinds, p \in StreamPaths, q \in StreamPaths :
          \E damaged \in BOOLEAN,
            root   \in Of(cmd \in {"mknod", "mksock"}, BOOLEAN),
            to     \in Of(cmd = "symlink", LinkTargets),
            result \in Of(cmd \in {"encoded_write", "set_xattr", "remove_xattr"},
                          {"done", "denied", "absent"}) :
            /\ job' = [job EXCEPT !.n = @ + 1,
                         !.sent = SentTree(@, cmd, p, q, to, job.n)]
            /\ fs' = IF damaged THEN Record(fs, "checksum", Rel(p))
                     ELSE ReplayCommand(fs, cmd, p, q, to, job.n, root, result)
    BY <1>3 DEF ReplayStep
  <2>2. PICK damaged \in BOOLEAN,
            root   \in Of(cmd \in {"mknod", "mksock"}, BOOLEAN),
            to     \in Of(cmd = "symlink", LinkTargets),
            result \in Of(cmd \in {"encoded_write", "set_xattr", "remove_xattr"},
                          {"done", "denied", "absent"}) :
            /\ job' = [job EXCEPT !.n = @ + 1,
                         !.sent = SentTree(@, cmd, p, q, to, job.n)]
            /\ fs' = IF damaged THEN Record(fs, "checksum", Rel(p))
                     ELSE ReplayCommand(fs, cmd, p, q, to, job.n, root, result)
    BY <2>1
  <2>3. JobOK(job')
    <3> DEFINE sent == SentTree(job.sent, cmd, p, q, to, job.n)
    <3>1. job' = [job EXCEPT !.n = @ + 1, !.sent = sent]
      BY <2>2
    <3> HIDE DEF sent
    <3>2. StreamOK(job')
      BY <1>1, <3>1 DEF StreamOK
    <3> QED BY <3>2 DEF JobOK
  <2>4. p \in Seq(Names) /\ q \in Seq(Names) /\ (cmd = "symlink" => to \in Pathnames)
    BY PathsAssumption DEF Of
  <2>5. FsOK(Record(fs, "checksum", Rel(p)))
    BY <1>1, RecordOK
  <2>6. FsOK(ReplayCommand(fs, cmd, p, q, to, job.n, root, result))
    BY <1>1, <2>4, ReplayCommandOK
  <2> QED BY <2>2, <2>3, <2>5, <2>6
<1>4. CASE ReplayEnd
  BY <1>1, <1>4 DEF ReplayEnd, StreamOK, JobOK
<1> QED BY <1>2, <1>3, <1>4

\* Any entry of a cpio archive is dumped inside ...
LEMMA DumpEntryOK ==
  ASSUME NEW s, FsOK(s), NEW type, NEW path \in Pathnames, NEW to \in Pathnames, NEW id, NEW root
  PROVE  FsOK(DumpEntry(s, type, path, to, id, root))
<1> DEFINE t == IF type = "dir" THEN s ELSE Unlink(s, path)
<1>1. FsOK(t)
  BY UnlinkOK
<1>2. DumpEntry(s, type, path, to, id, root) \in
        {Carve(t, path, id), MkDir(t, path, TRUE, TRUE), CreateSymlink(t, to, path), MkNod(t, path, root), t}
  BY DEF DumpEntry
<1> HIDE DEF t
<1>3. /\ FsOK(Carve(t, path, id)) /\ FsOK(MkDir(t, path, TRUE, TRUE))
      /\ FsOK(CreateSymlink(t, to, path)) /\ FsOK(MkNod(t, path, root))
  BY <1>1, CarveOK, MkDirOK, CreateSymlinkOK, MkNodOK, Zenon
<1> QED BY <1>1, <1>2, <1>3

\* ... so the dump keeps the invariant, the modes it sets at the end included.
LEMMA DumpInv ==
  ASSUME ExtractInv, DumpStep \/ DumpModes
  PROVE  FsOK(fs') /\ JobOK(job')
<1>1. CpioOK(job) /\ FsOK(fs)
  BY KindOf DEF ExtractInv, DumpStep, DumpModes, Running
<1>2. CASE DumpStep
  <2>1. PICK type \in EntryTypes, p \in CpioPaths, to \in LinkTargets, root \in BOOLEAN :
       IF p.parts = <<>> THEN UNCHANGED fs /\ job' = [job EXCEPT !.n = @ + 1]
       ELSE /\ fs' = DumpEntry(fs, type, p, to, job.n, root)
            /\ job' = [job EXCEPT !.n = @ + 1,
                 !.dirs = IF type = "dir" THEN @ \cup {p} ELSE @,
                 !.last = Bind(@, p, EntryNode(type, to, job.n))]
    BY <1>2 DEF DumpStep
  <2>2. p \in Pathnames /\ to \in Pathnames
    BY PathsAssumption
  <2>3. FsOK(DumpEntry(fs, type, p, to, job.n, root))
    BY <1>1, <2>2, DumpEntryOK
  <2>4. IsFiniteSet(job.dirs \cup {p})
    BY <1>1, FS_AddElement DEF CpioOK
  <2>5. CpioOK(job')
    <3>1. CASE p.parts = <<>>
      BY <1>1, <2>1, <3>1 DEF CpioOK
    <3>2. CASE p.parts # <<>>
      <4> DEFINE dirs == IF type = "dir" THEN job.dirs \cup {p} ELSE job.dirs
                 last == Bind(job.last, p, EntryNode(type, to, job.n))
      <4>1. job' = [job EXCEPT !.n = @ + 1, !.dirs = dirs, !.last = last]
        BY <2>1, <3>2
      <4>2. dirs \subseteq Pathnames /\ IsFiniteSet(dirs)
        BY <1>1, <2>2, <2>4 DEF CpioOK
      <4> HIDE DEF dirs, last
      <4> QED BY <1>1, <4>1, <4>2 DEF CpioOK
    <3> QED BY <3>1, <3>2
  <2> QED BY <1>1, <2>1, <2>3, <2>5 DEF JobOK
<1>3. CASE DumpModes
  <2>1. PICK order \in DeepestFirst(job.dirs) : fs' = ChModAll(fs, order)
    BY <1>3 DEF DumpModes
  <2>2. order \in SetToSeqs(job.dirs)
    BY DEF DeepestFirst
  <2>3. order \in Seq(job.dirs)
    BY <1>1, <2>2, OrderTyped DEF CpioOK
  <2>4. order \in Seq(Pathnames)
    BY <1>1, <2>3 DEF CpioOK
  <2>5. FsOK(fs')
    BY <1>1, <2>1, <2>4, ModesOK
  <2>6. CpioOK(job')
    BY <1>1, <1>3 DEF DumpModes, CpioOK
  <2> QED BY <2>5, <2>6 DEF JobOK
<1> QED BY <1>2, <1>3

\* The top of a stack, what is below it, and the stack with another top.
LEMMA Stacks ==
  ASSUME NEW S, NEW stack \in Seq(S), stack # <<>>
  PROVE  /\ Top(stack) \in S /\ Pop(stack) \in Seq(S)
         /\ \A x \in S : [stack EXCEPT ![Len(stack)] = x] \in Seq(S)
         /\ Len(stack) \in DOMAIN stack
<1>1. Len(stack) \in Nat /\ Len(stack) # 0 /\ Len(stack) \in 1 .. Len(stack) /\ DOMAIN stack = 1 .. Len(stack)
  BY EmptySeq, LenProperties
<1>2. Top(stack) \in S
  BY <1>1 DEF Top
<1>3. Pop(stack) \in Seq(S)
  BY FrontType DEF Pop
<1>4. \A x \in S : [stack EXCEPT ![Len(stack)] = x] \in Seq(S)
  BY <1>1, ExceptSeq
<1> QED BY <1>1, <1>2, <1>3, <1>4

\* A directory that is being read.
LEMMA FrameIs ==
  ASSUME NEW entries \in Seq(Dirents), NEW path \in Seq(Names)
  PROVE  Frame(entries, path) \in Frames
BY DEF Frame, Frames

\* The stack once the entry at its top has been read.
LEMMA AdvanceOK ==
  ASSUME NEW stack \in Seq(Frames), stack # <<>>
  PROVE  /\ Top(stack).entries \in Seq(Dirents) /\ Top(stack).path \in Seq(Names)
         /\ Top(stack).entries # <<>> => Advance(stack) \in Seq(Frames)
         /\ [stack EXCEPT ![Len(stack)].entries = <<>>] \in Seq(Frames)
<1>1. Top(stack) \in Frames /\ Top(stack) = stack[Len(stack)]
  BY Stacks DEF Top
<1>2. Top(stack).entries \in Seq(Dirents) /\ Top(stack).path \in Seq(Names)
  BY <1>1 DEF Frames
<1>3. \A es \in Seq(Dirents) : [stack[Len(stack)] EXCEPT !.entries = es] \in Frames
  BY <1>1 DEF Frames
<1>4. Top(stack).entries # <<>> => Tail(Top(stack).entries) \in Seq(Dirents)
  BY <1>2
<1>5. Advance(stack) = [stack EXCEPT ![Len(stack)] = [stack[Len(stack)] EXCEPT !.entries = Tail(Top(stack).entries)]]
  BY <1>1 DEF Advance
<1>6. [stack EXCEPT ![Len(stack)].entries = <<>>] = [stack EXCEPT ![Len(stack)] = [stack[Len(stack)] EXCEPT !.entries = <<>>]]
  OBVIOUS
<1>7. <<>> \in Seq(Dirents)
  OBVIOUS
<1> HIDE DEF Frames
<1>8. Top(stack).entries # <<>> => Advance(stack) \in Seq(Frames)
  <2>1. SUFFICES ASSUME Top(stack).entries # <<>> PROVE Advance(stack) \in Seq(Frames)
    OBVIOUS
  <2>2. [stack[Len(stack)] EXCEPT !.entries = Tail(Top(stack).entries)] \in Frames
    BY <1>3, <1>4, <2>1, Zenon
  <2> QED BY <1>5, <2>2, Stacks
<1>9. [stack EXCEPT ![Len(stack)].entries = <<>>] \in Seq(Frames)
  <2>1. [stack[Len(stack)] EXCEPT !.entries = <<>>] \in Frames
    BY <1>3, <1>7
  <2> QED BY <1>6, <2>1, Stacks
<1> QED BY <1>2, <1>8, <1>9

\* What a disk holds for an inode.
LEMMA InodeOK ==
  ASSUME NEW disk \in Disks, NEW i \in DOMAIN disk
  PROVE  disk[i].entries \in Seq(Dirents) /\ disk[i].to \in Pathnames
<1>1. disk[i] \in Inodes
  BY DisksAssumption
<1> QED BY <1>1 DEF Inodes

\* The start of a walk over a minix or ufs disk keeps the invariant ...
LEMMA StartInv ==
  ASSUME ExtractInv, MinixStart \/ UfsStart
  PROVE  FsOK(fs') /\ JobOK(job')
<1>1. WalkOK(job) /\ FsOK(fs)
  BY KindOf DEF ExtractInv, MinixStart, UfsStart, Running
<1> DEFINE root == job.disk[RootIno]
           stack == <<Frame(root.entries, <<>>)>>
<1>2. root.entries \in Seq(Dirents)
  BY <1>1, InodeOK, DisksAssumption DEF WalkOK
<1>3. stack \in Seq(Frames)
  <2>1. Frame(root.entries, <<>>) \in Frames
    <3>1. <<>> \in Seq(Names)
      OBVIOUS
    <3> QED BY <1>2, <3>1, FrameIs
  <2> HIDE DEF Frames
  <2> QED BY <2>1
<1>4. Path(TRUE, <<>>) \in Pathnames
  <2>1. <<>> \in Seq(Names)
    OBVIOUS
  <2> QED BY <2>1, RelOK
<1>5. CASE MinixStart
  <2>1. \/ fs' = Raise(fs) /\ job' = job
        \/ fs' = fs /\ job' = [job EXCEPT !.at = "walking", !.visited = {RootIno}, !.stack = stack]
    BY <1>5 DEF MinixStart
  <2> HIDE DEF stack
  <2>2. WalkOK(job')
    BY <1>1, <1>3, <2>1 DEF WalkOK
  <2>3. FsOK(fs')
    BY <1>1, <2>1, RaiseOK
  <2> QED BY <2>2, <2>3 DEF JobOK
<1>6. CASE UfsStart
  <2>1. \/ /\ fs' = WriteChunks(fs, Path(TRUE, <<>>), ReadFileContent(root))
           /\ job' = [job EXCEPT !.at = "end"]
        \/ /\ fs' = MkDir(fs, Path(TRUE, <<>>), FALSE, TRUE)
           /\ job' = [job EXCEPT !.at = "walking", !.stack = stack]
    BY <1>6 DEF UfsStart
  <2> HIDE DEF root, stack
  <2>2. WalkOK(job')
    BY <1>1, <1>3, <2>1 DEF WalkOK
  <2>3. FsOK(WriteChunks(fs, Path(TRUE, <<>>), ReadFileContent(root))) /\ FsOK(MkDir(fs, Path(TRUE, <<>>), FALSE, TRUE))
    BY <1>1, <1>4, WriteBytesOK, MkDirOK, Zenon
  <2>4. FsOK(fs')
    BY <2>1, <2>3
  <2> QED BY <2>2, <2>4 DEF JobOK
<1> QED BY <1>5, <1>6

\* ... so does an entry of a minix directory, whatever its name and inode ...
LEMMA MinixEntryInv ==
  ASSUME ExtractInv, MinixEntry
  PROVE  FsOK(fs') /\ JobOK(job')
<1>1. WalkOK(job) /\ FsOK(fs)
  BY KindOf DEF ExtractInv, MinixEntry, Running
<1> DEFINE e == Head(Top(job.stack).entries)
           path == Append(Top(job.stack).path, e.name)
           inode == job.disk[e.ino]
           rest == Advance(job.stack)
           sub == Append(rest, Frame(inode.entries, path))
<1>2. job.stack \in Seq(Frames) /\ job.stack # <<>> /\ Top(job.stack).entries # <<>> /\ job.disk \in Disks
  BY <1>1 DEF MinixEntry, WalkOK
<1>3. rest \in Seq(Frames) /\ Top(job.stack).entries \in Seq(Dirents) /\ Top(job.stack).path \in Seq(Names)
  BY <1>2, AdvanceOK
<1>4. e \in Dirents
  BY <1>2, <1>3, HeadTailProperties
<1>5. path \in Seq(Names) /\ Rel(path) \in Pathnames
  BY <1>3, <1>4, AppendProperties, RelOK DEF Dirents
<1>6. e.ino \in DOMAIN job.disk => inode.to \in Pathnames /\ sub \in Seq(Frames)
  <2>1. SUFFICES ASSUME e.ino \in DOMAIN job.disk PROVE inode.to \in Pathnames /\ sub \in Seq(Frames)
    OBVIOUS
  <2>2. inode.to \in Pathnames /\ inode.entries \in Seq(Dirents)
    BY <1>2, <2>1, InodeOK
  <2> HIDE DEF e, path, inode, rest
  <2> QED BY <1>3, <1>5, <2>2, FrameIs, AppendProperties
<1>7. \/ job' = [job EXCEPT !.stack = rest] /\ fs' = fs
      \/ fs' = Raise(fs) /\ job' = job
      \/ /\ e.ino \in DOMAIN job.disk
         /\ \E root \in BOOLEAN :
              fs' = CASE inode.type = "reg" -> WriteChunks(fs, Rel(path), StreamFileData(inode))
                      [] inode.type = "lnk" -> CreateSymlink(fs, inode.to, Rel(path))
                      [] inode.type = "fifo" -> MkFifo(fs, Rel(path))
                      [] inode.type = "dev" -> MkNod(fs, Rel(path), root)
                      [] inode.type = "dir" -> MkDir(fs, Rel(path), TRUE, TRUE)
                      [] OTHER -> fs
         /\ \/ job' = [job EXCEPT !.visited = @ \cup {e.ino}, !.stack = sub]
            \/ job' = [job EXCEPT !.stack = rest]
  <2>1. e.ino >= 1 <=> ~(e.ino < 1)
    BY <1>4 DEF Dirents
  <2>2. e.name \in Dots \/ e.ino < 1 => job' = [job EXCEPT !.stack = rest] /\ fs' = fs
    BY <2>1, Zenon DEF MinixEntry
  <2>3. e.name \notin Dots /\ e.ino >= 1 /\ e.ino \notin DOMAIN job.disk => fs' = Raise(fs) /\ job' = job
    BY <2>1, Zenon DEF MinixEntry
  <2>4. e.name \notin Dots /\ ~(e.ino < 1) /\ e.ino \in DOMAIN job.disk =>
          /\ \E root \in BOOLEAN :
              fs' = CASE inode.type = "reg" -> WriteChunks(fs, Rel(path), StreamFileData(inode))
                      [] inode.type = "lnk" -> CreateSymlink(fs, inode.to, Rel(path))
                      [] inode.type = "fifo" -> MkFifo(fs, Rel(path))
                      [] inode.type = "dev" -> MkNod(fs, Rel(path), root)
                      [] inode.type = "dir" -> MkDir(fs, Rel(path), TRUE, TRUE)
                      [] OTHER -> fs
          /\ job' = IF inode.type = "dir" /\ e.ino \notin job.visited
                    THEN [job EXCEPT !.visited = @ \cup {e.ino}, !.stack = sub]
                    ELSE [job EXCEPT !.stack = rest]
    BY Zenon DEF MinixEntry
  <2> HIDE DEF e, path, inode, rest, sub
  <2> QED BY <2>1, <2>2, <2>3, <2>4, Zenon
<1> HIDE DEF e, path, inode, rest, sub
<1>8. WalkOK(job')
  BY <1>1, <1>3, <1>6, <1>7 DEF WalkOK
<1>9. FsOK(fs')
  <2>1. CASE fs' = fs \/ fs' = Raise(fs)
    BY <1>1, <2>1, RaiseOK
  <2>2. ASSUME e.ino \in DOMAIN job.disk, NEW root \in BOOLEAN,
               fs' = CASE inode.type = "reg" -> WriteChunks(fs, Rel(path), StreamFileData(inode))
                      [] inode.type = "lnk" -> CreateSymlink(fs, inode.to, Rel(path))
                      [] inode.type = "fifo" -> MkFifo(fs, Rel(path))
                      [] inode.type = "dev" -> MkNod(fs, Rel(path), root)
                      [] inode.type = "dir" -> MkDir(fs, Rel(path), TRUE, TRUE)
                      [] OTHER -> fs
        PROVE  FsOK(fs')
    <3>1. fs' \in {WriteChunks(fs, Rel(path), StreamFileData(inode)), CreateSymlink(fs, inode.to, Rel(path)),
                   MkFifo(fs, Rel(path)), MkNod(fs, Rel(path), root), MkDir(fs, Rel(path), TRUE, TRUE), fs}
      BY <2>2
    <3>2. /\ FsOK(WriteChunks(fs, Rel(path), StreamFileData(inode))) /\ FsOK(CreateSymlink(fs, inode.to, Rel(path)))
          /\ FsOK(MkFifo(fs, Rel(path))) /\ FsOK(MkNod(fs, Rel(path), root)) /\ FsOK(MkDir(fs, Rel(path), TRUE, TRUE))
      BY <1>1, <1>5, <1>6, <2>2, WriteBytesOK, CreateSymlinkOK, MkFifoOK, MkNodOK, MkDirOK, Zenon
    <3> QED BY <1>1, <3>1, <3>2
  <2> QED BY <1>7, <2>1, <2>2
<1> QED BY <1>8, <1>9 DEF JobOK

\* ... and of a ufs directory ...
LEMMA UfsEntryInv ==
  ASSUME ExtractInv, UfsEntry
  PROVE  FsOK(fs') /\ JobOK(job')
<1>1. WalkOK(job) /\ FsOK(fs)
  BY KindOf DEF ExtractInv, UfsEntry, Running
<1> DEFINE e == Head(Top(job.stack).entries)
           path == Append(Top(job.stack).path, e.name)
           dst == Path(TRUE, path)
           inode == job.disk[e.ino]
           rest == Advance(job.stack)
           sub == Append(rest, Frame(inode.entries, path))
           cut == [job.stack EXCEPT ![Len(job.stack)].entries = <<>>]
<1>2. job.stack \in Seq(Frames) /\ job.stack # <<>> /\ Top(job.stack).entries # <<>> /\ job.disk \in Disks
  BY <1>1 DEF UfsEntry, WalkOK
<1>3. /\ rest \in Seq(Frames) /\ cut \in Seq(Frames)
      /\ Top(job.stack).entries \in Seq(Dirents) /\ Top(job.stack).path \in Seq(Names)
  BY <1>2, AdvanceOK
<1>4. e \in Dirents
  BY <1>2, <1>3, HeadTailProperties
<1>5. path \in Seq(Names) /\ dst \in Pathnames
  BY <1>3, <1>4, AppendProperties, RelOK DEF Dirents
<1>6. e.ino \in DOMAIN job.disk => inode.to \in Pathnames /\ sub \in Seq(Frames)
  <2>1. SUFFICES ASSUME e.ino \in DOMAIN job.disk PROVE inode.to \in Pathnames /\ sub \in Seq(Frames)
    OBVIOUS
  <2>2. inode.to \in Pathnames /\ inode.entries \in Seq(Dirents)
    BY <1>2, <2>1, InodeOK
  <2> HIDE DEF e, path, inode, rest
  <2> QED BY <1>3, <1>5, <2>2, FrameIs, AppendProperties
<1>7. \/ job' = [job EXCEPT !.stack = cut] /\ fs' = fs
      \/ job' = [job EXCEPT !.stack = rest] /\ fs' = fs
      \/ fs' = Raise(fs) /\ job' = job
      \/ /\ e.ino \in DOMAIN job.disk
         /\ \E root \in BOOLEAN :
              fs' = CASE inode.type = "dir" -> MkDir(fs, dst, FALSE, TRUE)
                      [] inode.type = "reg" -> WriteChunks(fs, dst, ReadFileContent(inode))
                      [] inode.type = "lnk" -> CreateSymlink(fs, inode.to, dst)
                      [] inode.type = "fifo" -> MkFifo(fs, dst)
                      [] inode.type \in {"sock", "dev"} -> MkNod(fs, dst, root)
                      [] OTHER -> fs
         /\ \/ job' = [job EXCEPT !.stack = sub]
            \/ job' = [job EXCEPT !.stack = rest]
  BY DEF UfsEntry
<1> HIDE DEF e, path, dst, inode, rest, sub, cut
<1>8. WalkOK(job')
  BY <1>1, <1>3, <1>6, <1>7 DEF WalkOK
<1>9. FsOK(fs')
  <2>1. CASE fs' = fs \/ fs' = Raise(fs)
    BY <1>1, <2>1, RaiseOK
  <2>2. ASSUME e.ino \in DOMAIN job.disk, NEW root \in BOOLEAN,
               fs' = CASE inode.type = "dir" -> MkDir(fs, dst, FALSE, TRUE)
                      [] inode.type = "reg" -> WriteChunks(fs, dst, ReadFileContent(inode))
                      [] inode.type = "lnk" -> CreateSymlink(fs, inode.to, dst)
                      [] inode.type = "fifo" -> MkFifo(fs, dst)
                      [] inode.type \in {"sock", "dev"} -> MkNod(fs, dst, root)
                      [] OTHER -> fs
        PROVE  FsOK(fs')
    <3>1. fs' \in {WriteChunks(fs, dst, ReadFileContent(inode)), CreateSymlink(fs, inode.to, dst),
                   MkFifo(fs, dst), MkNod(fs, dst, root), MkDir(fs, dst, FALSE, TRUE), fs}
      BY <2>2
    <3>2. /\ FsOK(WriteChunks(fs, dst, ReadFileContent(inode))) /\ FsOK(CreateSymlink(fs, inode.to, dst))
          /\ FsOK(MkFifo(fs, dst)) /\ FsOK(MkNod(fs, dst, root)) /\ FsOK(MkDir(fs, dst, FALSE, TRUE))
      BY <1>1, <1>5, <1>6, <2>2, WriteBytesOK, CreateSymlinkOK, MkFifoOK, MkNodOK, MkDirOK, Zenon
    <3> QED BY <1>1, <3>1, <3>2
  <2> QED BY <1>7, <2>1, <2>2
<1> QED BY <1>8, <1>9 DEF JobOK

\* ... and the return from one.
LEMMA WalkReturnInv ==
  ASSUME ExtractInv, WalkReturn
  PROVE  FsOK(fs') /\ JobOK(job')
<1>1. WalkOK(job) /\ FsOK(fs)
  BY KindOf DEF ExtractInv, WalkReturn
<1>2. job.stack # <<>> => Pop(job.stack) \in Seq(Frames)
  BY <1>1, Stacks DEF WalkOK
<1>3. fs' = fs /\ \/ job.stack # <<>> /\ job' = [job EXCEPT !.stack = Pop(job.stack)]
                  \/ job' = [job EXCEPT !.at = "end"]
  BY DEF WalkReturn
<1>4. job.stack \in Seq(Frames)
  BY <1>1 DEF WalkOK
<1>5. WalkOK(job')
  BY <1>1, <1>2, <1>3, <1>4 DEF WalkOK
<1> QED BY <1>1, <1>3, <1>5 DEF JobOK

\* What a romfs image holds at an address.
LEMMA RomEntry ==
  ASSUME NEW disk \in Roms, NEW a \in DOMAIN disk
  PROVE  disk[a].name \in Names /\ disk[a].next \in Nat /\ disk[a].spec \in Nat /\ disk[a].to \in Pathnames
<1>1. disk[a] \in Headers
  BY RomsAssumption
<1> QED BY <1>1 DEF Headers

\* The top of the stack of directories, and the stack once its chain moved on.
LEMMA RomStackOK ==
  ASSUME NEW disk, NEW stack \in Seq(RomFrames(disk)), stack # <<>>
  PROVE  /\ Top(stack).addr \in Nat /\ Top(stack).path \in Seq(Names)
         /\ Top(stack).owner \in {0} \cup DOMAIN disk
         /\ \A a \in Nat : [stack EXCEPT ![Len(stack)].addr = a] \in Seq(RomFrames(disk))
         /\ Pop(stack) \in Seq(RomFrames(disk))
<1>1. Top(stack) \in RomFrames(disk) /\ Top(stack) = stack[Len(stack)] /\ Pop(stack) \in Seq(RomFrames(disk))
  BY Stacks DEF Top
<1>2. Top(stack).addr \in Nat /\ Top(stack).path \in Seq(Names) /\ Top(stack).owner \in {0} \cup DOMAIN disk
  BY <1>1 DEF RomFrames
<1>3. ASSUME NEW a \in Nat PROVE [stack EXCEPT ![Len(stack)].addr = a] \in Seq(RomFrames(disk))
  <2>1. [stack[Len(stack)] EXCEPT !.addr = a] \in RomFrames(disk)
    BY <1>1 DEF RomFrames
  <2>2. [stack EXCEPT ![Len(stack)].addr = a] = [stack EXCEPT ![Len(stack)] = [stack[Len(stack)] EXCEPT !.addr = a]]
    OBVIOUS
  <2> QED BY <2>1, <2>2, Stacks
<1> QED BY <1>1, <1>2, <1>3

\* One more header with its path.
LEMMA BindInodes ==
  ASSUME NEW f, NEW D, DOMAIN f \subseteq D, \A i \in DOMAIN f : f[i] \in Seq(Names),
         NEW a \in D, NEW p \in Seq(Names)
  PROVE  /\ DOMAIN Bind(f, a, p) \subseteq D
         /\ \A i \in DOMAIN Bind(f, a, p) : Bind(f, a, p)[i] \in Seq(Names)
BY DEF Bind

\* A romfs header, the return from its directory ...
LEMMA RomfsHeaderInv ==
  ASSUME ExtractInv, RomfsHeader
  PROVE  FsOK(fs') /\ JobOK(job')
<1>1. RomOK(job) /\ FsOK(fs)
  BY KindOf DEF ExtractInv, RomfsHeader, Running
<1> DEFINE frame == Top(job.stack)
           h == job.disk[frame.addr]
           path == Append(frame.path, h.name)
           rest == [job.stack EXCEPT ![Len(job.stack)].addr = h.next]
           found == Bind(job.inodes, frame.addr, path)
           sub == Append(rest, [addr |-> h.spec, owner |-> frame.addr, path |-> path])
<1>2. /\ job.stack \in Seq(RomFrames(job.disk)) /\ job.stack # <<>> /\ job.disk \in Roms
      /\ frame.addr \in DOMAIN job.disk
  BY <1>1 DEF RomfsHeader, RomOK
<1>3. frame.path \in Seq(Names) /\ frame.addr \in Nat
  BY <1>2, RomStackOK
<1>4. h.name \in Names /\ h.next \in Nat /\ h.spec \in Nat
  BY <1>2, RomEntry
<1>5. path \in Seq(Names)
  BY <1>3, <1>4, AppendProperties
<1>6. rest \in Seq(RomFrames(job.disk))
  BY <1>2, <1>4, RomStackOK
<1>7. sub \in Seq(RomFrames(job.disk))
  <2>1. [addr |-> h.spec, owner |-> frame.addr, path |-> path] \in RomFrames(job.disk)
    BY <1>2, <1>4, <1>5 DEF RomFrames
  <2> HIDE DEF frame, h, path, rest
  <2> QED BY <1>6, <2>1, AppendProperties
<1>8. DOMAIN found \subseteq DOMAIN job.disk /\ \A i \in DOMAIN found : found[i] \in Seq(Names)
  <2> HIDE DEF frame, h, path
  <2> QED BY <1>1, <1>2, <1>5, BindInodes DEF RomOK
<1>9. \/ fs' = Raise(fs) /\ job' = job
      \/ fs' = fs /\ \/ job' = [job EXCEPT !.stack = rest]
                     \/ job' = [job EXCEPT !.inodes = found, !.stack = sub]
                     \/ job' = [job EXCEPT !.inodes = found, !.stack = rest]
  BY DEF RomfsHeader
<1> HIDE DEF frame, h, path, rest, found, sub
<1>10. RomOK(job')
  BY <1>1, <1>6, <1>7, <1>8, <1>9 DEF RomOK
<1>11. FsOK(fs')
  BY <1>1, <1>9, RaiseOK
<1> QED BY <1>10, <1>11 DEF JobOK

\* ... the end of the walk ...
LEMMA RomfsReturnInv ==
  ASSUME ExtractInv, RomfsReturn \/ RomfsWalked \/ RomfsEnd
  PROVE  FsOK(fs') /\ JobOK(job')
<1>1. RomOK(job) /\ FsOK(fs)
  BY KindOf DEF ExtractInv, RomfsReturn, RomfsWalked, RomfsEnd, Running
<1>2. CASE RomfsWalked \/ RomfsEnd
  <2>1. fs' = fs /\ \/ job' = [job EXCEPT !.at = "dumping"]
                    \/ job' = [job EXCEPT !.at = "end"]
    BY <1>2 DEF RomfsWalked, RomfsEnd
  <2>2. RomOK(job')
    BY <1>1, <2>1 DEF RomOK
  <2> QED BY <1>1, <2>1, <2>2 DEF JobOK
<1>3. CASE RomfsReturn
  <2> DEFINE frame == Top(job.stack)
             rest == Pop(job.stack)
             found == Bind(job.inodes, frame.owner, frame.path)
  <2>1. job.stack \in Seq(RomFrames(job.disk)) /\ job.stack # <<>>
    BY <1>1, <1>3 DEF RomfsReturn, RomOK
  <2>2. /\ rest \in Seq(RomFrames(job.disk)) /\ frame.path \in Seq(Names)
        /\ frame.owner = 0 \/ frame.owner \in DOMAIN job.disk
    BY <2>1, RomStackOK
  <2>3. frame.owner # 0 => DOMAIN found \subseteq DOMAIN job.disk /\ \A i \in DOMAIN found : found[i] \in Seq(Names)
    <3> HIDE DEF frame
    <3> QED BY <1>1, <2>2, BindInodes DEF RomOK
  <2>4. fs' = fs /\ \/ job' = [job EXCEPT !.stack = rest, !.inodes = job.inodes]
                    \/ frame.owner # 0 /\ job' = [job EXCEPT !.stack = rest, !.inodes = found]
    BY <1>3 DEF RomfsReturn
  <2> HIDE DEF frame, rest, found
  <2>5. RomOK(job')
    BY <1>1, <2>2, <2>3, <2>4 DEF RomOK
  <2> QED BY <1>1, <2>4, <2>5 DEF JobOK
<1> QED BY <1>2, <1>3

\* ... and each node that is then made keep the invariant.
LEMMA RomfsDumpInv ==
  ASSUME ExtractInv, RomfsDump
  PROVE  FsOK(fs') /\ JobOK(job')
<1>1. RomOK(job) /\ FsOK(fs)
  BY KindOf DEF ExtractInv, RomfsDump, Running
<1>2. PICK a \in DOMAIN job.inodes, root \in BOOLEAN :
        /\ job' = [job EXCEPT !.dumped = @ \cup {a}]
        /\ fs' = CASE job.disk[a].type = "dir" -> MkDir(fs, Rel(job.inodes[a]), FALSE, TRUE)
                   [] job.disk[a].type = "reg" -> WriteBytes(fs, Rel(job.inodes[a]), a)
                   [] job.disk[a].type = "dev" -> MkNod(fs, Rel(job.inodes[a]), root)
                   [] job.disk[a].type = "fifo" -> MkFifo(fs, Rel(job.inodes[a]))
                   [] job.disk[a].type = "lnk" -> CreateSymlink(fs, job.disk[a].to, Rel(job.inodes[a]))
                   [] job.disk[a].type = "hard" /\ job.disk[a].spec \in DOMAIN job.inodes ->
                        CreateHardlink(fs, Rel(job.inodes[job.disk[a].spec]), Rel(job.inodes[a]))
                   [] OTHER -> fs
  BY DEF RomfsDump
<1> DEFINE h == job.disk[a]
           dst == Rel(job.inodes[a])
           src == Rel(job.inodes[h.spec])
<1>3. job.disk \in Roms /\ a \in DOMAIN job.disk /\ job.inodes[a] \in Seq(Names)
  BY <1>1 DEF RomOK
<1>4. h.to \in Pathnames /\ dst \in Pathnames
  BY <1>3, RomEntry, RelOK
<1>5. h.spec \in DOMAIN job.inodes => src \in Pathnames
  BY <1>1, RelOK DEF RomOK
<1>6. \/ fs' \in {MkDir(fs, dst, FALSE, TRUE), WriteBytes(fs, dst, a), MkNod(fs, dst, root), MkFifo(fs, dst),
                 CreateSymlink(fs, h.to, dst), fs}
      \/ h.spec \in DOMAIN job.inodes /\ fs' = CreateHardlink(fs, src, dst)
  BY <1>2
<1> HIDE DEF h, dst, src
<1>7. /\ FsOK(MkDir(fs, dst, FALSE, TRUE)) /\ FsOK(WriteBytes(fs, dst, a)) /\ FsOK(MkNod(fs, dst, root))
      /\ FsOK(MkFifo(fs, dst)) /\ FsOK(CreateSymlink(fs, h.to, dst))
  BY <1>1, <1>4, MkDirOK, WriteBytesOK, MkNodOK, MkFifoOK, CreateSymlinkOK, Zenon
<1>8. h.spec \in DOMAIN job.inodes => FsOK(CreateHardlink(fs, src, dst))
  BY <1>1, <1>4, <1>5, CreateHardlinkOK, Zenon
<1>9. FsOK(fs')
  BY <1>1, <1>6, <1>7, <1>8
<1>10. RomOK(job')
  BY <1>1, <1>2 DEF RomOK
<1> QED BY <1>9, <1>10 DEF JobOK

\* What Bind binds.
LEMMA Bound ==
  ASSUME NEW f, NEW x, NEW y
  PROVE  /\ DOMAIN Bind(f, x, y) = DOMAIN f \cup {x}
         /\ \A z \in DOMAIN f \cup {x} : Bind(f, x, y)[z] = IF z = x THEN y ELSE f[z]
BY DEF Bind

\* A page with the header of an object.
LEMMA HeaderIs ==
  ASSUME NEW id \in Ids, NEW obj, ObjOK(obj)
  PROVE  HeaderPage(id, obj) \in Pages
<1>1. [obj EXCEPT !.data = <<>>] \in Hdrs
  BY DEF ObjOK, Hdrs
<1> HIDE DEF Hdrs, Ids
<1> QED BY <1>1 DEF HeaderPage, Pages

\* The root of a YAFFS tree is an object.
LEMMA RootIs == ObjOK(RootObj) /\ RootObj \in Hdrs /\ Root \in Ids
<1>1. NoName \in Names
  BY NamesAssumption
<1>2. Root \in Ids
  BY DEF Ids
<1>3. ObjOK(RootObj)
  BY <1>1, <1>2 DEF ObjOK, RootObj, ObjectTypes
<1>4. RootObj \in Hdrs
  BY <1>1, <1>2 DEF RootObj, Hdrs, ObjectTypes
<1> QED BY <1>2, <1>3, <1>4

\* The log after a page was written.
LEMMA ReplaceOK ==
  ASSUME NEW log \in Seq(Pages), NEW id, NEW chunk, NEW page \in Pages, NEW clean
  PROVE  Replace(log, id, chunk, page, clean) \in Seq(Pages)
<1> DEFINE marked == [k \in DOMAIN log |->
             IF clean /\ job.version = 1 /\ log[k].obj = id /\ log[k].chunk = chunk
             THEN [log[k] EXCEPT !.deleted = TRUE] ELSE log[k]]
<1>1. \A k \in DOMAIN log : log[k] \in Pages
  OBVIOUS
<1>2. \A p \in Pages : [p EXCEPT !.deleted = TRUE] \in Pages
  <2> HIDE DEF Hdrs, Ids
  <2> QED BY DEF Pages
<1> HIDE DEF Pages
<1>3. marked \in Seq(Pages)
  <2>1. Len(log) \in Nat /\ DOMAIN log = 1 .. Len(log)
    OBVIOUS
  <2>2. marked \in [1 .. Len(log) -> Pages]
    BY <1>1, <1>2, <2>1
  <2> HIDE DEF marked
  <2> QED BY <2>1, <2>2
<1>4. Replace(log, id, chunk, page, clean) = Append(marked, page)
  BY DEF Replace
<1> HIDE DEF marked
<1> QED BY <1>3, <1>4, AppendProperties

\* The job after an object was written.
LEMMA SetObjectOK ==
  ASSUME YaffsOK(job), NEW id \in Ids, NEW obj, ObjOK(obj), NEW clean, SetObject(id, obj, clean)
  PROVE  YaffsOK(job')
<1> DEFINE truth == Bind(job.truth, id, obj)
           log == Replace(job.log, id, 0, HeaderPage(id, obj), clean)
<1>1. DOMAIN truth \subseteq Ids /\ \A i \in DOMAIN truth : ObjOK(truth[i])
  <2>1. DOMAIN job.truth \subseteq Ids /\ \A i \in DOMAIN job.truth : ObjOK(job.truth[i])
    BY DEF YaffsOK
  <2>2. DOMAIN truth = DOMAIN job.truth \cup {id}
    BY Bound
  <2>3. \A i \in DOMAIN job.truth \cup {id} : truth[i] = IF i = id THEN obj ELSE job.truth[i]
    BY DEF Bind
  <2> HIDE DEF truth, Ids
  <2> QED BY <2>1, <2>2, <2>3
<1>2. log \in Seq(Pages)
  BY HeaderIs, ReplaceOK DEF YaffsOK
<1>3. job' = [job EXCEPT !.truth = truth, !.log = log]
  BY DEF SetObject
<1> HIDE DEF truth, log
<1> QED BY <1>1, <1>2, <1>3 DEF YaffsOK

\* Whatever is written to the log keeps the invariant.
LEMMA WriterStepInv ==
  ASSUME ExtractInv, WriterStep
  PROVE  FsOK(fs') /\ JobOK(job')
<1>1. YaffsOK(job) /\ FsOK(fs) /\ fs' = fs
  <2>1. Running("yaffs") /\ UNCHANGED fs
    BY Zenon DEF WriterStep
  <2> QED BY <2>1, KindOf DEF ExtractInv, Running
<1>2. ASSUME NEW id \in YaffsIds, NEW p \in YaffsIds \cup {Root}, NEW name \in YaffsNames,
             NEW type \in {"file", "dir", "lnk", "hard", "special"}, NEW e \in YaffsIds,
             SetObject(id, [type |-> type, parent |-> p, name |-> name,
                            equiv |-> IF type = "hard" THEN e ELSE 0, data |-> <<>>], TRUE)
      PROVE  YaffsOK(job')
  <2> DEFINE obj == [type |-> type, parent |-> p, name |-> name,
                     equiv |-> IF type = "hard" THEN e ELSE 0, data |-> <<>>]
  <2>1. ObjOK(obj)
    BY YaffsAssumption DEF ObjOK, Ids, ObjectTypes
  <2>2. id \in Ids
    BY DEF Ids
  <2>3. SetObject(id, obj, TRUE)
    BY <1>2
  <2> HIDE DEF obj
  <2> QED BY <1>1, <2>1, <2>2, <2>3, SetObjectOK
<1>3. ASSUME NEW id \in DOMAIN job.truth, NEW p \in DOMAIN job.truth, NEW name \in YaffsNames, NEW clean \in BOOLEAN,
             SetObject(id, [job.truth[id] EXCEPT !.parent = p, !.name = name], clean)
      PROVE  YaffsOK(job')
  <2> DEFINE obj == [job.truth[id] EXCEPT !.parent = p, !.name = name]
  <2>1. ObjOK(job.truth[id]) /\ p \in Ids /\ id \in Ids /\ name \in Names
    BY <1>1, YaffsAssumption DEF YaffsOK
  <2>2. ObjOK(obj)
    <3> HIDE DEF Ids
    <3> QED BY <2>1 DEF ObjOK
  <2>3. SetObject(id, obj, clean)
    BY <1>3
  <2> HIDE DEF obj
  <2> QED BY <1>1, <2>1, <2>2, <2>3, SetObjectOK
<1>4. ASSUME WriteData PROVE YaffsOK(job')
  <2>0. PICK id \in DOMAIN job.truth, chunk \in YaffsChunks, clean \in BOOLEAN : SetData(id, chunk, clean)
    BY <1>4 DEF WriteData
  <2> DEFINE old == {k \in DOMAIN job.log : job.log[k].obj = id /\ job.log[k].chunk = chunk}
             page == DataPage(id, chunk, Len(job.log), Cardinality(old) % 4)
             log == Replace(job.log, id, chunk, page, clean)
             obj == [job.truth[id] EXCEPT !.data = Bind(job.truth[id].data, chunk, Len(job.log))]
             truth == [job.truth EXCEPT ![id] = obj]
             rewritten == IF old = {} THEN job.rewritten ELSE job.rewritten \cup {id}
  <2>1. /\ ObjOK(job.truth[id]) /\ id \in Ids /\ job.log \in Seq(Pages)
        /\ DOMAIN job.truth \subseteq Ids /\ \A i \in DOMAIN job.truth : ObjOK(job.truth[i])
    BY <1>1 DEF YaffsOK
  <2>2. Len(job.log) \in Nat /\ DOMAIN job.log = 1 .. Len(job.log)
    BY <2>1
  <2>3. Cardinality(old) % 4 \in Nat
    <3>1. IsFiniteSet(1 .. Len(job.log))
      BY <2>2, FS_Interval
    <3>2. IsFiniteSet(old)
      BY <2>2, <3>1, FS_Subset
    <3>3. Cardinality(old) \in Nat
      BY <3>2, FS_CardinalityType
    <3> HIDE DEF old
    <3> QED BY <3>3
  <2>4. page \in Pages
    <3> HIDE DEF old, Hdrs, Ids
    <3> QED BY <2>1, <2>2, <2>3, RootIs DEF DataPage, Pages
  <2>5. log \in Seq(Pages)
    <3> HIDE DEF page, Pages
    <3> QED BY <2>1, <2>4, ReplaceOK
  <2>6. ObjOK(obj)
    <3> HIDE DEF Ids
    <3> QED BY <2>1 DEF ObjOK
  <2>7. DOMAIN truth \subseteq Ids /\ \A i \in DOMAIN truth : ObjOK(truth[i])
    <3> HIDE DEF obj
    <3> QED BY <2>1, <2>6
  <2>8. job' = [job EXCEPT !.truth = truth, !.rewritten = rewritten, !.log = log]
    BY <1>1, <2>0 DEF SetData, YaffsOK
  <2> HIDE DEF truth, rewritten, log
  <2> QED BY <1>1, <2>5, <2>7, <2>8 DEF YaffsOK
<1>5. YaffsOK(job')
  <2>1. CASE CreateObject
    BY <1>2, <2>1, Zenon DEF CreateObject
  <2>2. CASE MoveObject
    BY <1>3, <2>2, Zenon DEF MoveObject
  <2> QED BY <1>4, <2>1, <2>2, Zenon DEF WriterStep
<1> QED BY <1>1, <1>5 DEF JobOK

\* One more header among the entries.
LEMMA BindEntries ==
  ASSUME NEW entries, EntriesOK(entries), NEW id, NEW entry, entry.name \in Names
  PROVE  EntriesOK(Bind(entries, id, entry)) /\ DOMAIN Bind(entries, id, entry) = DOMAIN entries \cup {id}
<1>1. DOMAIN Bind(entries, id, entry) = DOMAIN entries \cup {id}
  BY Bound
<1>2. \A z \in DOMAIN entries \cup {id} : Bind(entries, id, entry)[z] = IF z = id THEN entry ELSE entries[z]
  BY DEF Bind
<1>3. IsFiniteSet(DOMAIN entries \cup {id})
  BY FS_AddElement DEF EntriesOK
<1>4. \A z \in DOMAIN entries : entries[z].name \in Names
  BY DEF EntriesOK
<1>5. \A z \in DOMAIN entries \cup {id} : Bind(entries, id, entry)[z].name \in Names
  BY <1>2, <1>4
<1> QED BY <1>1, <1>3, <1>5 DEF EntriesOK

\* The tree of headers with one more of them.
LEMMA BindTree ==
  ASSUME NEW j, YaffsOK(j), NEW id, NEW entry, entry.name \in Names, NEW parent
  PROVE  LET es == Bind(j.entries, id, entry)
             ns == Bind(j.nodes, id, parent)
         IN  EntriesOK(es) /\ DOMAIN ns = DOMAIN es /\ j.todo \in Seq(DOMAIN es)
<1>1. EntriesOK(j.entries) /\ DOMAIN j.nodes = DOMAIN j.entries /\ j.todo \in Seq(DOMAIN j.entries)
  BY DEF YaffsOK
<1>2. EntriesOK(Bind(j.entries, id, entry)) /\ DOMAIN Bind(j.entries, id, entry) = DOMAIN j.entries \cup {id}
  BY <1>1, BindEntries
<1>3. DOMAIN Bind(j.nodes, id, parent) = DOMAIN j.nodes \cup {id}
  BY Bound
<1>4. j.todo \in Seq(DOMAIN j.entries \cup {id})
  BY <1>1
<1> QED BY <1>1, <1>2, <1>3, <1>4

\* insert_entry keeps the tree of headers well formed.
LEMMA InsertEntryOK ==
  ASSUME YaffsOK(job), FsOK(fs), NEW id, NEW entry, entry.name \in Names, InsertEntry(id, entry)
  PROVE  FsOK(fs') /\ YaffsOK(job')
<1> DEFINE es == Bind(job.entries, id, entry)
           ns == Bind(job.nodes, id, entry.parent)
           fix == [job.entries EXCEPT ![id] = entry]
<1>1. EntriesOK(es) /\ DOMAIN ns = DOMAIN es /\ job.todo \in Seq(DOMAIN es)
  BY BindTree
<1>2. EntriesOK(fix) /\ DOMAIN fix = DOMAIN job.entries
  <2>1. EntriesOK(job.entries)
    BY DEF YaffsOK
  <2> QED BY <2>1 DEF EntriesOK
<1>3. job.pos + 1 \in Nat \ {0}
  BY DEF YaffsOK
<1>4. \/ fs' = Raise(fs) /\ job' = job
      \/ /\ fs' = fs
         /\ \/ job' = [job EXCEPT !.entries = fix, !.pos = @ + 1]
            \/ job' = [job EXCEPT !.entries = es, !.nodes = ns, !.pos = @ + 1]
            \/ job' = [job EXCEPT !.pos = @ + 1]
  BY DEF InsertEntry
<1>5. DOMAIN job = {"kind", "version", "at", "truth", "rewritten", "log", "pos", "entries", "nodes", "chunks", "todo"}
  BY DEF YaffsOK
<1> HIDE DEF es, ns, fix
<1>6. YaffsOK(job')
  <2>1. CASE job' = job
    BY <2>1
  <2>2. CASE job' = [job EXCEPT !.entries = fix, !.pos = @ + 1]
    BY <1>2, <1>3, <2>2 DEF YaffsOK
  <2>3. CASE job' = [job EXCEPT !.entries = es, !.nodes = ns, !.pos = @ + 1]
    BY <1>1, <1>3, <2>3 DEF YaffsOK
  <2>4. CASE job' = [job EXCEPT !.pos = @ + 1]
    BY <1>3, <2>4 DEF YaffsOK
  <2> QED BY <1>4, <2>1, <2>2, <2>3, <2>4
<1>7. FsOK(fs')
  BY <1>4, RaiseOK
<1> QED BY <1>6, <1>7

\* Reading the log keeps the invariant ...
LEMMA ParseInv ==
  ASSUME ExtractInv, ParseStart \/ ParsePage
  PROVE  FsOK(fs') /\ JobOK(job')
<1>1. YaffsOK(job) /\ FsOK(fs)
  BY KindOf DEF ExtractInv, ParseStart, ParsePage, Running
<1>2. CASE ParseStart
  <2> DEFINE es == Bind(job.entries, Root, RootObj)
             ns == Bind(job.nodes, Root, Root)
  <2>1. fs' = fs /\ \/ job' = [job EXCEPT !.at = "parsing"]
                    \/ job' = [job EXCEPT !.at = "parsing", !.entries = es, !.nodes = ns]
    BY <1>2 DEF ParseStart
  <2>2. RootObj.name \in Names
    BY RootIs DEF ObjOK
  <2>3. EntriesOK(es) /\ DOMAIN ns = DOMAIN es /\ job.todo \in Seq(DOMAIN es)
    BY <1>1, <2>2, BindTree
  <2> HIDE DEF es, ns
  <2>4. YaffsOK(job')
    BY <1>1, <2>1, <2>3 DEF YaffsOK
  <2> QED BY <1>1, <2>1, <2>4 DEF JobOK
<1>3. CASE ParsePage
  <2> DEFINE page == job.log[job.pos]
             chunks == IF page.deleted THEN job.chunks ELSE Append(job.chunks, page)
  <2>1. page \in Pages
    <3>1. job.pos \in DOMAIN job.log /\ job.log \in Seq(Pages)
      BY <1>1, <1>3 DEF ParsePage, YaffsOK
    <3> HIDE DEF Pages
    <3> QED BY <3>1
  <2>2. page.hdr.name \in Names
    BY <2>1 DEF Pages, Hdrs
  <2>3. \/ fs' = fs /\ job' = [job EXCEPT !.pos = @ + 1, !.chunks = chunks]
        \/ InsertEntry(page.obj, page.hdr)
    BY <1>3 DEF ParsePage
  <2> HIDE DEF page, chunks
  <2>4. CASE fs' = fs /\ job' = [job EXCEPT !.pos = @ + 1, !.chunks = chunks]
    <3>1. job.pos + 1 \in Nat \ {0}
      BY <1>1 DEF YaffsOK
    <3>2. YaffsOK(job')
      BY <1>1, <2>4, <3>1 DEF YaffsOK
    <3> QED BY <1>1, <2>4, <3>2 DEF JobOK
  <2>5. CASE InsertEntry(page.obj, page.hdr)
    BY <1>1, <2>2, <2>5, InsertEntryOK DEF JobOK
  <2> QED BY <2>3, <2>4, <2>5
<1> QED BY <1>2, <1>3

\* ... so does the order the entries are extracted in ...
LEMMA ParseEndInv ==
  ASSUME ExtractInv, ParseEnd
  PROVE  FsOK(fs') /\ JobOK(job')
<1>1. YaffsOK(job) /\ FsOK(fs)
  <2>1. Running("yaffs")
    BY Zenon DEF ParseEnd
  <2> QED BY <2>1, KindOf DEF ExtractInv, Running
<1>2. CASE fs' = Raise(fs) /\ UNCHANGED job
  BY <1>1, <1>2, RaiseOK DEF JobOK
<1>3. ASSUME NEW order \in Preorders(job.nodes),
             job' = [job EXCEPT !.at = "extracting", !.todo = order]
      PROVE  YaffsOK(job')
  <2>1. IsFiniteSet(DOMAIN job.nodes) /\ DOMAIN job.nodes = DOMAIN job.entries
    BY <1>1 DEF YaffsOK, EntriesOK
  <2>2. order \in Seq(DOMAIN job.entries)
    <3>1. CASE order = <<>>
      BY <3>1
    <3>2. CASE order \in SetToSeqs(DOMAIN job.nodes)
      BY <2>1, <3>2, OrderTyped
    <3> QED BY <3>1, <3>2 DEF Preorders
  <2> QED BY <1>1, <1>3, <2>2 DEF YaffsOK
<1>4. CASE ~(fs' = Raise(fs) /\ UNCHANGED job)
  <2>1. fs' = fs /\ \E order \in Preorders(job.nodes) :
          job' = [job EXCEPT !.at = "extracting", !.todo = order]
    BY <1>4, Zenon DEF ParseEnd
  <2>2. PICK order \in Preorders(job.nodes) : job' = [job EXCEPT !.at = "extracting", !.todo = order]
    BY <2>1, Zenon
  <2>3. YaffsOK(job')
    BY <1>3, <2>2, Zenon
  <2> QED BY <1>1, <2>1, <2>3 DEF JobOK
<1> QED BY <1>2, <1>4

\* ... and each entry that is extracted, under whatever path its parents give it.
LEMMA ExtractEntryInv ==
  ASSUME ExtractInv, ExtractEntry \/ ExtractEnd
  PROVE  FsOK(fs') /\ JobOK(job')
<1>1. YaffsOK(job) /\ FsOK(fs)
  BY KindOf DEF ExtractInv, ExtractEntry, ExtractEnd, Running
<1>2. CASE ExtractEnd
  <2>1. fs' = fs /\ job' = [job EXCEPT !.at = "end"]
    BY <1>2 DEF ExtractEnd
  <2>2. YaffsOK(job')
    BY <1>1, <2>1 DEF YaffsOK
  <2> QED BY <1>1, <2>1, <2>2 DEF JobOK
<1>3. CASE ExtractEntry
  <2> DEFINE id == Head(job.todo)
             e == job.entries[id]
             dst == Rel(PathOf(id).parts)
             src == Rel(PathOf(e.equiv).parts)
             todo == Tail(job.todo)
             data == <<id, GetChunks(id)>>
  <2>1. EntriesOK(job.entries) /\ job.todo \in Seq(DOMAIN job.entries) /\ job.todo # <<>>
    BY <1>1, <1>3 DEF ExtractEntry, YaffsOK
  <2>2. id \in DOMAIN job.entries /\ todo \in Seq(DOMAIN job.entries)
    BY <2>1, HeadTailProperties
  <2>3. \A i \in DOMAIN job.entries : Rel(PathOf(i).parts) \in Pathnames
    <3>1. \A i \in DOMAIN job.entries : PathOf(i).parts \in Seq(Names)
      BY <2>1, PathsOK DEF PathOf
    <3> QED BY <3>1, RelOK
  <2>4. job' = [job EXCEPT !.todo = todo]
    BY <1>3 DEF ExtractEntry
  <2>5. \/ fs' \in {Raise(fs), MkDir(fs, dst, FALSE, TRUE), WriteChunks(fs, dst, data), fs}
        \/ \E root \in BOOLEAN : fs' = MkNod(fs, dst, root)
        \/ \E to \in LinkTargets : fs' = CreateSymlink(fs, to, dst)
        \/ e.equiv \in DOMAIN job.entries /\ fs' = CreateHardlink(fs, src, dst)
    BY <1>3 DEF ExtractEntry
  <2>6. dst \in Pathnames /\ (e.equiv \in DOMAIN job.entries => src \in Pathnames)
    BY <2>2, <2>3
  <2>7. LinkTargets \subseteq Pathnames
    BY PathsAssumption
  <2> HIDE DEF id, e, dst, src, todo, data
  <2>8. FsOK(Raise(fs)) /\ FsOK(MkDir(fs, dst, FALSE, TRUE)) /\ FsOK(WriteChunks(fs, dst, data))
    BY <1>1, <2>6, RaiseOK, MkDirOK, WriteBytesOK, Zenon
  <2>9. /\ \A root \in BOOLEAN : FsOK(MkNod(fs, dst, root))
        /\ \A to \in LinkTargets : FsOK(CreateSymlink(fs, to, dst))
    BY <1>1, <2>6, <2>7, MkNodOK, CreateSymlinkOK
  <2>10. e.equiv \in DOMAIN job.entries => FsOK(CreateHardlink(fs, src, dst))
    BY <1>1, <2>6, CreateHardlinkOK, Zenon
  <2>11. FsOK(fs')
    BY <1>1, <2>5, <2>8, <2>9, <2>10
  <2>12. YaffsOK(job')
    BY <1>1, <2>2, <2>4 DEF YaffsOK
  <2> QED BY <2>11, <2>12 DEF JobOK
<1> QED BY <1>2, <1>3

\* The invariant holds when an extraction starts ...
LEMMA InitInv == Init => ExtractInv
<1>1. SUFFICES ASSUME Init PROVE JobOK(job)
  BY EmptyOK DEF Init, ExtractInv
<1>2. job \in AllJobs
  BY <1>1 DEF Init
<1>3. CASE job \in {ClientJob, StreamJob, CpioJob}
  <2>1. CASE job = ClientJob
    BY <2>1 DEF ClientJob, ClientOK, JobOK
  <2>2. CASE job = StreamJob
    BY <2>2 DEF StreamJob, StreamOK, JobOK
  <2>3. CASE job = CpioJob
    <3>1. IsFiniteSet({})
      BY FS_EmptySet
    <3> QED BY <2>3, <3>1 DEF CpioJob, CpioOK, JobOK
  <2> QED BY <1>3, <2>1, <2>2, <2>3
<1>4. ASSUME NEW k \in {"minixfs", "ufs"}, NEW d \in Disks, job = WalkJob(k, d)
      PROVE  JobOK(job)
  <2>1. <<>> \in Seq(Frames)
    OBVIOUS
  <2> HIDE DEF Frames
  <2> QED BY <1>4, <2>1 DEF WalkJob, WalkOK, JobOK
<1>5. ASSUME NEW d \in Roms, job = RomfsJob(d)
      PROVE  JobOK(job)
  <2>1. <<>> \in Seq(Names)
    OBVIOUS
  <2>2. [addr |-> RootIno, owner |-> 0, path |-> <<>>] \in RomFrames(d)
    BY <2>1 DEF RomFrames, RootIno
  <2> DEFINE frame == [addr |-> RootIno, owner |-> 0, path |-> <<>>]
             stack == <<frame>>
  <2>3. stack \in Seq(RomFrames(d))
    <3> HIDE DEF frame
    <3> QED BY <2>2 DEF frame
  <2>4. DOMAIN <<>> = {}
    OBVIOUS
  <2>5. job = [kind |-> "romfs", disk |-> d, at |-> "walking", inodes |-> <<>>, dumped |-> {}, stack |-> stack]
    BY <1>5 DEF RomfsJob
  <2> HIDE DEF stack
  <2>6. RomOK(job)
    BY <2>3, <2>4, <2>5 DEF RomOK
  <2> QED BY <2>6 DEF JobOK
<1>6. ASSUME NEW v \in {1, 2}, job = YaffsJob(v)
      PROVE  JobOK(job)
  <2> DEFINE truth == [id \in {Root} |-> RootObj]
             log == IF v = 1 THEN <<HeaderPage(Root, RootObj)>> ELSE <<>>
  <2>1. DOMAIN truth \subseteq Ids /\ \A id \in DOMAIN truth : ObjOK(truth[id])
    BY RootIs
  <2>2. HeaderPage(Root, RootObj) \in Pages
    BY RootIs, HeaderIs
  <2>3. log \in Seq(Pages)
    <3> HIDE DEF Pages
    <3> QED BY <2>2
  <2>4. DOMAIN <<>> = {} /\ EntriesOK(<<>>) /\ <<>> \in Seq({})
    BY FS_EmptySet DEF EntriesOK
  <2>5. job = [kind |-> "yaffs", version |-> v, at |-> "writing", truth |-> truth, rewritten |-> {},
               log |-> log, pos |-> 1, entries |-> <<>>, nodes |-> <<>>, chunks |-> <<>>, todo |-> <<>>]
    BY <1>6 DEF YaffsJob
  <2> HIDE DEF truth, log
  <2>6. YaffsOK(job)
    BY <2>1, <2>3, <2>4, <2>5 DEF YaffsOK
  <2> QED BY <2>6 DEF JobOK
<1> QED BY <1>2, <1>3, <1>4, <1>5, <1>6 DEF AllJobs

\* ... and after each step of any extractor.
LEMMA NextInv == ExtractInv /\ [Next]_vars => ExtractInv'
<1>1. SUFFICES ASSUME ExtractInv, [Next]_vars PROVE FsOK(fs') /\ JobOK(job')
  BY DEF ExtractInv
<1>2. CASE UNCHANGED vars
  BY <1>1, <1>2 DEF ExtractInv, vars
<1>3. CASE ExtractionNext
  BY <1>1, <1>3, CallInv, ReplayInv, DumpInv DEF ExtractionNext
<1>4. CASE WalkNext
  BY <1>1, <1>4, StartInv, MinixEntryInv, UfsEntryInv, WalkReturnInv, RomfsHeaderInv, RomfsReturnInv, RomfsDumpInv
     DEF WalkNext
<1>5. CASE YaffsNext
  BY <1>1, <1>5, WriterStepInv, ParseInv, ParseEndInv, ExtractEntryInv DEF YaffsNext
<1> QED BY <1>1, <1>2, <1>3, <1>4, <1>5 DEF Next

\* Whatever the image says, extraction stays below the output directory: no call that
\* FileSystem lets through acts outside, for any names, links, disks, logs and calls in any order.
THEOREM ContainedHolds == Spec => []Contained
<1>1. ExtractInv => Contained
  BY DEF ExtractInv, FsOK, Contained
<1> QED BY <1>1, InitInv, NextInv, PTL DEF Spec

=============================================================================
