-------------------------- MODULE ProcessingProofs --------------------------
(***************************************************************************)
(* What Processing promises, for every content, every set of workers and   *)
(* every number of runs, when the names of extracted entries are apart.    *)
(*                                                                         *)
(* No path that the program asks for resolves to another one then: LinkInv *)
(* holds, so that every step of Spec is one of HereSpec, of which          *)
(* HereProofs shows the properties.                                        *)
(***************************************************************************)
EXTENDS HereProofs

-----------------------------------------------------------------------------
(* Paths that no link is on                                                *)

\* What is held by directories and is not a link resolves to itself.
LEMMA NoLinkOn ==
  ASSUME NEW f, NEW p \in Paths, Room(f, p), ~ IsLink(f, p)
  PROVE  Resolve(f, p) = p
<1>1. ASSUME NEW k \in 1..Len(p), IsLink(f, SubSeq(p, 1, k)) PROVE FALSE
  <2> DEFINE s == SubSeq(p, 1, k)
  <2>1. p \in Seq(Names) /\ Len(p) \in Nat /\ k \in Nat \ {0} /\ k <= Len(p)
    BY DEF Paths
  <2>2. s \in Seq(Names) /\ Len(s) = k /\ \A i \in 1..k : s[i] = p[i]
    BY <2>1
  <2>3. s \in Paths
    BY <2>1, <2>2 DEF Paths
  <2>4. Under(p, s)
    BY <2>1, <2>2, <2>3, UnderNames
  <2>5. f[s] \in DOMAIN Links /\ s # p
    BY <1>1 DEF IsLink
  <2>6. f[s] = "dir"
    BY <2>3, <2>4, <2>5 DEF Room
  <2> QED BY <2>5, <2>6, ProcessingAssumption
<1>2. LinksOn(f, p) = {}
  BY <1>1 DEF LinksOn
<1> QED BY <1>2, Zenon DEF Resolve

\* mkdir(parents=True) of a path that directories hold.
LEMMA BranchMade ==
  ASSUME NEW d \in Paths, Room(fs, d)
  PROVE  /\ \A n : With(fs, Branch(d), n) = With(fs, {d}, n)
         /\ (d \in DOMAIN fs => fs[d] = "dir") => Makeable(d)
<1>1. \A x \in Branch(d) : x = d \/ (x \in DOMAIN fs /\ fs[x] = "dir")
  <2> SUFFICES ASSUME NEW x \in Branch(d), x # d PROVE x \in DOMAIN fs /\ fs[x] = "dir"
    OBVIOUS
  <2>1. d \in Seq(Names) /\ Len(d) \in Nat
    BY DEF Paths
  <2>2. PICK k \in 0..Len(d) : x = SubSeq(d, 1, k)
    BY DEF Branch, Prefixes
  <2>3. x # <<>>
    BY DEF Branch
  <2>4. k # 0
    <3>1. SubSeq(d, 1, 0) = <<>>
      BY <2>1
    <3> QED BY <2>2, <2>3, <3>1
  <2>5. x \in Seq(Names) /\ Len(x) = k /\ \A i \in 1..k : x[i] = d[i]
    BY <2>1, <2>2, <2>4
  <2>6. x \in Paths
    BY <2>3, <2>5 DEF Paths
  <2>7. Under(d, x)
    <3>1. Len(x) <= Len(d)
      BY <2>1, <2>5
    <3>2. \A i \in 1..Len(x) : d[i] = x[i]
      BY <2>5
    <3> QED BY <2>6, <3>1, <3>2, UnderNames
  <2> QED BY <2>6, <2>7 DEF Room
<1>2. d \in Branch(d)
  <2>1. d \in Seq(Names) /\ d # <<>> /\ Len(d) \in 0..Len(d)
    BY DEF Paths
  <2>2. SubSeq(d, 1, Len(d)) = d
    BY <2>1
  <2>3. d \in {SubSeq(d, 1, l) : l \in 0..Len(d)}
    BY <2>1, <2>2, Zenon
  <2> QED BY <2>1, <2>3 DEF Branch, Prefixes
<1>3. DOMAIN fs \cup Branch(d) = DOMAIN fs \cup {d}
  BY <1>1, <1>2
<1>4. \A n : With(fs, Branch(d), n) = With(fs, {d}, n)
  BY <1>3, Zenon DEF With
<1>5. (d \in DOMAIN fs => fs[d] = "dir") => Makeable(d)
  BY <1>1 DEF Makeable, Exists
<1> QED BY <1>4, <1>5

\* Beside a file there is no link.
LEMMA FileBeside ==
  ASSUME NEW f, FsOK(f), LinksAside(f), NEW p \in DOMAIN f, f[p] \in Files
  PROVE  Resolve(f, Beside(p)) = Beside(p) /\ ~ IsLink(f, Beside(p))
<1>1. ~ IsLink(f, Beside(p))
  BY DEF IsLink, LinksAside
<1>2. Room(f, Beside(p)) /\ Beside(p) \in Paths
  BY RoomBeside, BesideFacts DEF FsOK, FileTree
<1> QED BY <1>1, <1>2, NoLinkOn

\* What a worker extracts is there, with the directories that hold it.
LEMMA SourceThere ==
  ASSUME IInv, NEW w \in Workers, Busy(w), work[w].pc \in {"check", "mkdir", "extract", "settle"}
  PROVE  /\ work[w].src \in DOMAIN fs /\ work[w].src \in Paths /\ Beside(work[w].src) \in Paths
         /\ Room(fs, Beside(work[w].src))
         /\ Whole(work[w]) => fs[work[w].src] \in Files
<1>1. work[w].pc \in FilePcs
  BY DEF FilePcs
<1>2. /\ FsOK(fs) /\ FileLocal(w) /\ work[w].task.path = Path(w) /\ DOMAIN fs \subseteq Paths
  BY <1>1, OwnFile
<1>3. Whole(work[w]) => work[w].src \in DOMAIN fs /\ fs[work[w].src] \in Files
  BY <1>2 DEF FileLocal, Whole
<1>4. ~ Whole(work[w]) => work[w].src \in DOMAIN fs
  BY CarvedIn
<1> QED BY <1>2, <1>3, <1>4, RoomBeside, BesideFacts
-----------------------------------------------------------------------------
(* Links stay aside                                                        *)

\* Directories, pieces and removals bring no link and no file.
LEMMA PlainAside ==
  ASSUME NEW f, NEW g, LinksAside(f),
         \A p \in DOMAIN g : (p \in DOMAIN f /\ g[p] = f[p]) \/ g[p] \in {"dir", "piece"}
  PROVE  LinksAside(g)
<1>1. "dir" \notin DOMAIN Links \cup Files /\ "piece" \notin DOMAIN Links \cup Files
  BY ProcessingAssumption
<1> QED BY <1>1 DEF LinksAside

LEMMA WithAside ==
  ASSUME NEW f, LinksAside(f), NEW S, NEW n \in {"dir", "piece"}
  PROVE  LinksAside(With(f, S, n))
<1>1. \A p \in DOMAIN With(f, S, n) :
        (p \in DOMAIN f /\ With(f, S, n)[p] = f[p]) \/ With(f, S, n)[p] \in {"dir", "piece"}
  BY DEF With
<1> QED BY <1>1, PlainAside

LEMMA WithoutAside ==
  ASSUME NEW f, LinksAside(f), NEW S
  PROVE  LinksAside(Without(f, S))
<1>1. \A p \in DOMAIN Without(f, S) : p \in DOMAIN f /\ Without(f, S)[p] = f[p]
  BY DEF Without
<1> QED BY <1>1, PlainAside

\* A tree is put where nothing is, and its links are apart.
LEMMA TreeAside ==
  ASSUME NEW f, FsOK(f), LinksAside(f), NEW d \in DOMAIN f, f[d] = "dir", Bare(f, d),
         NEW tree, TreeOK(tree), LinksApartIn(tree)
  PROVE  LinksAside(WithTree(f, d, tree))
<1> DEFINE g == WithTree(f, d, tree)
<1>1. /\ DOMAIN g = DOMAIN f \cup {d \o r : r \in DOMAIN tree}
      /\ \A p \in DOMAIN f : g[p] = f[p]
      /\ \A r \in DOMAIN tree : g[d \o r] = tree[r] /\ d \o r \notin DOMAIN f
  BY WithTreeFacts
<1>2. DOMAIN tree \subseteq Paths /\ DOMAIN f \subseteq Paths /\ d \in Paths
  BY DEF TreeOK, FsOK, FileTree
<1> HIDE DEF g
<1>3. ASSUME NEW l \in DOMAIN g, g[l] \in DOMAIN Links, NEW p \in DOMAIN g, g[p] \in Files, l = Beside(p)
      PROVE  FALSE
  <2>1. CASE l \in DOMAIN f /\ p \in DOMAIN f
    BY <1>1, <1>3, <2>1 DEF LinksAside
  <2>2. ASSUME NEW r \in DOMAIN tree, l = d \o r, p \in DOMAIN f PROVE FALSE
    <3>1. Under(l, d) /\ l # d /\ l \in Paths
      BY <1>2, <2>2, ConcatFacts
    <3>2. p \in Paths /\ d \in Paths /\ Under(Beside(p), d) /\ d # Beside(p)
      BY <1>2, <1>3, <2>2, <3>1
    <3>3. Under(p, d) /\ p # d
      BY <3>2, BesideFacts
    <3> QED BY <2>2, <3>3 DEF Bare
  <2>3. ASSUME NEW s \in DOMAIN tree, p = d \o s, l \in DOMAIN f PROVE FALSE
    <3>1. Beside(s) \in Paths
      BY <1>2, BesideFacts
    <3>2. l = d \o Beside(s)
      BY <1>2, <1>3, <2>3, BesideConcat
    <3>3. Under(l, d) /\ l # d
      BY <1>2, <3>1, <3>2, ConcatFacts
    <3> QED BY <2>3, <3>3 DEF Bare
  <2>4. ASSUME NEW r \in DOMAIN tree, NEW s \in DOMAIN tree, l = d \o r, p = d \o s PROVE FALSE
    <3>1. Beside(s) \in Paths
      BY <1>2, BesideFacts
    <3>2. d \o r = d \o Beside(s)
      BY <1>2, <1>3, <2>4, BesideConcat
    <3>3. r = Beside(s)
      BY <1>2, <3>1, <3>2, ConcatSame
    <3>4. tree[r] \in DOMAIN Links /\ tree[s] \in Files
      BY <1>1, <1>3, <2>4
    <3> QED BY <3>3, <3>4 DEF LinksApartIn
  <2> QED BY <1>1, <2>1, <2>2, <2>3, <2>4
<1>4. ASSUME NEW l \in DOMAIN g, g[l] \in DOMAIN Links, NEW i \in 1..Len(DirHandlers)
      PROVE  Last(l) # Suffixed(DirHandlers[i].name)
  <2>1. CASE l \in DOMAIN f
    BY <1>1, <1>4, <2>1 DEF LinksAside
  <2>2. ASSUME NEW r \in DOMAIN tree, l = d \o r PROVE Last(l) # Suffixed(DirHandlers[i].name)
    <3>1. Last(l) = Last(r)
      BY <1>2, <2>2, ConcatFacts
    <3>2. tree[r] \in DOMAIN Links
      BY <1>1, <1>4, <2>2
    <3> QED BY <3>1, <3>2 DEF LinksApartIn
  <2> QED BY <1>1, <2>1, <2>2
<1> QED BY <1>3, <1>4 DEF LinksAside, g

\* The steps of a worker keep links aside.
LEMMA WorkAside ==
  ASSUME LinksApart, IInv, LinksAside(fs), NEW w \in Workers, WorkHere(w)
  PROVE  LinksAside(fs')
<1> DEFINE job == work[w]
<1>1. CASE fs' = fs
  BY <1>1
<1>2. CASE CarveUnknownHere(w) \/ CarveChunkHere(w)
  <2>1. fs' = fs \/ \E S, T : fs' = With(With(fs, S, "dir"), T, "piece")
    BY <1>2 DEF CarveUnknownHere, CarveChunkHere, CarveHere
  <2> QED BY <2>1, WithAside
<1>3. CASE MakeDirHere(w) \/ DirHandlerHere(w)
  <2>1. fs' = fs \/ \E S : fs' = With(fs, S, "dir")
    BY <1>3 DEF MakeDirHere, DirHandlerHere
  <2> QED BY <2>1, WithAside
<1>4. CASE SettleHere(w) \/ DeleteExtracted(w)
  <2>1. fs' = fs \/ \E S : fs' = Without(fs, S)
    BY <1>4 DEF SettleHere, DeleteExtracted
  <2> QED BY <2>1, WithoutAside
<1>5. CASE ExtractHere(w)
  <2> DEFINE d == Beside(job.src)
  <2>1. Busy(w) /\ job.pc = "extract" /\ job.pc \in FilePcs /\ fs' = WithTree(fs, d, TheChunk(job).tree)
    BY <1>5 DEF ExtractHere, Busy, FilePcs
  <2>2. FsOK(fs) /\ d \in DOMAIN fs /\ fs[d] = "dir" /\ Bare(fs, d)
    BY <2>1, OwnFile DEF FileLocal
  <2>3. TreeOK(TheChunk(job).tree)
    BY <2>1, TheTree
  <2>4. job.content \in Files /\ job.todo \in 1..Len(Chunks(job.content))
    BY <2>1, OwnFile DEF FileLocal
  <2>5. LinksApartIn(TheChunk(job).tree)
    BY <2>4 DEF LinksApart, TheChunk
  <2> HIDE DEF d, job
  <2> QED BY <2>1, <2>2, <2>3, <2>5, TreeAside
<1>6. CASE ExtractMultiHere(w)
  <2> DEFINE m == MultiHere(job)
  <2>1. /\ Busy(w) /\ job.pc = "multi" /\ job.pc \in {"dir_handler", "multi"}
        /\ fs' = fs \/ (m \in DOMAIN fs /\ fs' = WithTree(fs, m, Handler(job).tree))
    BY <1>6 DEF ExtractMultiHere, Busy, Exists
  <2>2. /\ FsOK(fs) /\ job.todo \in 1..Len(DirHandlers)
        /\ Bare(fs, m) /\ (m \in DOMAIN fs => fs[m] = "dir")
    <3>1. DirLocal(w) /\ job.todo \in Nat \ {0} /\ FsOK(fs)
      BY <2>1, OwnDir
    <3> QED BY <2>1, <3>1, ProcessingAssumption DEF DirLocal
  <2>3. TreeOK(Handler(job).tree) /\ LinksApartIn(Handler(job).tree)
    BY <2>2, HandlerFacts DEF Handler, LinksApart
  <2> HIDE DEF m, job
  <2> QED BY <1>1, <2>1, <2>2, <2>3, TreeAside
<1> QED BY <1>1, <1>2, <1>3, <1>4, <1>5, <1>6 DEF WorkHere, TakeTaskHere, CheckDirHere, Iterate
-----------------------------------------------------------------------------
(* What a worker remembers                                                 *)

\* A job that is still about the same places.
Keeps(j, job) ==
  j.task = job.task /\ j.carve_dir = job.carve_dir /\ j.extract_dir = job.extract_dir /\ j.src = job.src
\* A worker carves where its file says, and there is no link.
CarvesAside(job, f) ==
  /\ job.carve_dir = CarveDir(job)
  /\ \A p \in DOMAIN f : Child(p, CarveDir(job)) => f[p] \notin DOMAIN Links

LEMMA KeepsReport ==
  ASSUME NEW job \in Jobs, NEW r \in Reports
  PROVE  Report(job, r) \in Jobs /\ Keeps(Report(job, r), job) /\ Report(job, r).pc = job.pc
BY DEF Jobs, Report, Keeps

LEMMA KeepsSpawn ==
  ASSUME NEW job \in Jobs, NEW tasks \in Seq(Tasks)
  PROVE  Spawn(job, tasks) \in Jobs /\ Keeps(Spawn(job, tasks), job)
<1>1. Spawn(job, tasks) \in Jobs
  BY JobSpawn
<1>2. Keeps(Spawn(job, tasks), job)
  BY DEF Jobs, Spawn, Keeps
<1> QED BY <1>1, <1>2

LEMMA KeepsPc ==
  ASSUME NEW job \in Jobs, NEW pc \in Pcs
  PROVE  LET j == [job EXCEPT !.pc = pc] IN j \in Jobs /\ Keeps(j, job) /\ j.pc = pc
BY DEF Jobs, Keeps

LEMMA AdvanceKeeps ==
  ASSUME TypeOK, NEW w \in Workers, NEW job, NEW j \in Jobs, Keeps(j, job), Advance(w, j), Busy(w)'
  PROVE  Keeps(work'[w], job) /\ work'[w].pc = "carve" /\ ~ Whole(job)
<1>1. work \in [Workers -> Jobs \cup {Idle}]
  BY DEF TypeOK
<1>2. ~ Return(w, j)
  BY <1>1 DEF Return, Busy
<1> DEFINE k == [j EXCEPT !.pc = "carve", !.todo = @ + 1]
<1>3. ~ Whole(j) /\ Continue(w, k)
  BY <1>2 DEF Advance
<1>4. k.pc = "carve" /\ Keeps(k, j)
  BY DEF Jobs, Keeps
<1> HIDE DEF k
<1>5. work'[w] = k
  BY <1>1, <1>3 DEF Continue
<1> QED BY <1>3, <1>4, <1>5 DEF Keeps, Whole

\* What the directory that is carved into gets is no link.
LEMMA CarveStays ==
  ASSUME NEW job, NEW j, j.task = job.task, j.carve_dir = job.carve_dir, NEW f, NEW g, CarvesAside(job, f),
         \A p \in DOMAIN g : Child(p, CarveDir(job)) =>
           (p \in DOMAIN f /\ g[p] = f[p]) \/ g[p] \in {"dir", "piece"}
  PROVE  CarvesAside(j, g)
<1>1. "dir" \notin DOMAIN Links /\ "piece" \notin DOMAIN Links
  BY ProcessingAssumption
<1>2. CarveDir(j) = CarveDir(job)
  BY DEF CarveDir
<1> QED BY <1>1, <1>2 DEF CarvesAside

\* A worker that begins has made nothing beside its file.
LEMMA TakeRemembers ==
  ASSUME Inv, NEW w \in Workers, TakeTaskHere(w), Busy(w)'
  PROVE  Remembers(work'[w], fs')
<1> DEFINE t == Head(queue)  c == fs[t.path]
<1>1. IInv /\ RootInv /\ TypeOK /\ queue # <<>> /\ fs' = fs /\ FsOK(fs) /\ work \in [Workers -> Jobs \cup {Idle}]
  BY DEF Inv, IInv, TypeOK, TakeTaskHere
<1>2. t.path \in DOMAIN fs /\ t.path \in Paths
  BY <1>1, FirstTask
<1>3. \A job : ~ Return(w, job)
  BY <1>1 DEF Return, Busy
<1>4. \/ Continue(w, Job(t, c, "dir_handler")) \/ Continue(w, Job(t, c, "check"))
      \/ ~ Exists(Beside(t.path)) /\ Continue(w, Report(Starting(t, c), "CarveDirectory"))
  BY <1>2, <1>3 DEF TakeTaskHere, Exists, Starting
<1>5. CASE Continue(w, Job(t, c, "dir_handler")) \/ Continue(w, Job(t, c, "check"))
  <2> DEFINE a == Job(t, c, "dir_handler")  b == Job(t, c, "check")
  <2>1. a.pc = "dir_handler" /\ b.pc = "check" /\ Whole(b)
    BY DEF Job, Whole
  <2> HIDE DEF a, b
  <2>2. work'[w] = a \/ work'[w] = b
    BY <1>1, <1>5 DEF Continue, a, b
  <2> QED BY <2>1, <2>2 DEF Remembers, FilePcs
<1>6. CASE ~ Exists(Beside(t.path)) /\ Continue(w, Report(Starting(t, c), "CarveDirectory"))
  <2> DEFINE j == Report(Starting(t, c), "CarveDirectory")
  <2>1. j.pc = "unknown" /\ j.task = t /\ j.carve_dir = Beside(t.path)
    BY DEF Job, Starting, Report
  <2> HIDE DEF j
  <2>2. work'[w] = j
    BY <1>1, <1>6 DEF Continue, j
  <2>3. Beside(t.path) \in Paths
    BY <1>2, BesideFacts
  <2>4. \A p \in DOMAIN fs : ~ Child(p, Beside(t.path))
    <3>1. ASSUME NEW p \in DOMAIN fs, Child(p, Beside(t.path)) PROVE FALSE
      <4>1. p \in Paths
        BY <1>1 DEF FsOK, FileTree
      <4>2. Under(p, Beside(t.path)) /\ p # Beside(t.path)
        BY <2>3, <3>1, <4>1, ChildFacts
      <4>3. Beside(t.path) \in DOMAIN fs
        BY <1>1, <2>3, <4>2 DEF FsOK, Closed
      <4> QED BY <1>6, <4>3 DEF Exists
    <3> QED BY <3>1
  <2> QED BY <1>1, <2>1, <2>2, <2>4 DEF Remembers, CarveDir
<1> QED BY <1>4, <1>5, <1>6
\* Carving brings directories and pieces, and leads to the check of a piece.
LEMMA CarveRemembers ==
  ASSUME IInv, LinkInv, NEW w \in Workers, CarveUnknownHere(w) \/ CarveChunkHere(w), Busy(w)'
  PROVE  Remembers(work'[w], fs')
<1> DEFINE job == work[w]
<1>1. Busy(w) /\ job.pc \in {"unknown", "carve"} /\ job.pc \in FilePcs
  BY DEF CarveUnknownHere, CarveChunkHere, Busy, FilePcs
<1>2. job \in Jobs /\ TypeOK /\ work \in [Workers -> Jobs \cup {Idle}]
  BY <1>1, OwnFile DEF TypeOK
<1>3. CarvesAside(job, fs)
  BY <1>1 DEF LinkInv, Remembers, CarvesAside
<1>4. \A x : ~ Return(w, x)
  BY <1>2 DEF Return, Busy
<1>5. PICK S, T : fs' = With(With(fs, S, "dir"), T, "piece")
  BY <1>4 DEF CarveUnknownHere, CarveChunkHere, CarveHere
<1>6. \A p \in DOMAIN fs' : (p \in DOMAIN fs /\ fs'[p] = fs[p]) \/ fs'[p] \in {"dir", "piece"}
  BY <1>5 DEF With
<1>7. ASSUME NEW j, j.task = job.task, j.carve_dir = job.carve_dir, Continue(w, j), j.pc \in {"carve", "check"}
      PROVE  Remembers(work'[w], fs')
  <2>1. CarvesAside(j, fs')
    BY <1>3, <1>6, <1>7, CarveStays
  <2>2. work'[w] = j
    BY <1>2, <1>7 DEF Continue
  <2> QED BY <1>7, <2>1, <2>2 DEF Remembers, CarvesAside
<1>8. CASE CarveUnknownHere(w)
  <2> DEFINE j == [job EXCEPT !.pc = "carve"]
  <2>1. Continue(w, j)
    BY <1>4, <1>8 DEF CarveUnknownHere, CarveHere
  <2>2. j.task = job.task /\ j.carve_dir = job.carve_dir /\ j.pc = "carve"
    BY <1>2 DEF Jobs
  <2> HIDE DEF j
  <2> QED BY <1>7, <2>1, <2>2
<1>9. CASE CarveChunkHere(w)
  <2> DEFINE p == ChunkPath(job, job.todo)  j == [job EXCEPT !.pc = "check", !.src = p]
  <2>1. Continue(w, j)
    BY <1>4, <1>9 DEF CarveChunkHere, CarveHere
  <2> HIDE DEF p
  <2>2. j.task = job.task /\ j.carve_dir = job.carve_dir /\ j.pc = "check"
    BY <1>2 DEF Jobs
  <2> HIDE DEF j
  <2> QED BY <1>7, <2>1, <2>2
<1> QED BY <1>8, <1>9

\* A worker on a piece carves aside.
LEMMA PieceAside ==
  ASSUME IInv, LinkInv, NEW w \in Workers, Busy(w), work[w].pc \in {"check", "mkdir", "extract", "settle"}
  PROVE  /\ work[w] \in Jobs /\ TypeOK /\ work \in [Workers -> Jobs \cup {Idle}]
         /\ ~ Whole(work[w]) => CarvesAside(work[w], fs)
         /\ work[w].pc # "check" => work[w].extract_dir = Beside(work[w].src)
<1>1. work[w].pc \in FilePcs
  BY DEF FilePcs
<1>2. work[w] \in Jobs /\ TypeOK /\ work \in [Workers -> Jobs \cup {Idle}]
  BY <1>1, OwnFile DEF TypeOK
<1>3. Remembers(work[w], fs)
  BY DEF LinkInv
<1> QED BY <1>1, <1>2, <1>3 DEF Remembers, CarvesAside

\* What a job that keeps its places remembers, when no link came to them.
LEMMA KeptRemembers ==
  ASSUME NEW job, NEW j, Keeps(j, job), ~ Whole(job) => CarvesAside(job, fs),
         j.pc \in {"carve", "extract", "settle", "delete"},
         j.pc = "carve" => ~ Whole(job),
         j.pc # "carve" => job.extract_dir = Beside(job.src),
         ~ Whole(job) => \A p \in DOMAIN fs' : Child(p, CarveDir(job)) =>
           (p \in DOMAIN fs /\ fs'[p] = fs[p]) \/ fs'[p] \in {"dir", "piece"}
  PROVE  Remembers(j, fs')
<1>1. Whole(j) <=> Whole(job)
  BY DEF Keeps, Whole
<1>2. ~ Whole(job) => CarvesAside(j, fs')
  BY CarveStays DEF Keeps
<1> QED BY <1>1, <1>2 DEF Remembers, CarvesAside, Keeps

LEMMA CheckRemembers ==
  ASSUME IInv, LinkInv, NEW w \in Workers, CheckDirHere(w), Busy(w)'
  PROVE  Remembers(work'[w], fs')
<1> DEFINE job == work[w]
<1>1. Busy(w) /\ job.pc = "check" /\ fs' = fs
  BY DEF CheckDirHere, Busy
<1>2. /\ job \in Jobs /\ TypeOK /\ work \in [Workers -> Jobs \cup {Idle}]
      /\ ~ Whole(job) => CarvesAside(job, fs)
  BY <1>1, PieceAside
<1>3. CASE Exists(Beside(job.src))
  <2> DEFINE j == Report(job, "OutputExists")
  <2>1. Advance(w, j)
    BY <1>3 DEF CheckDirHere
  <2>2. j \in Jobs /\ Keeps(j, job)
    BY <1>2, KeepsReport DEF Reports
  <2> HIDE DEF j
  <2>3. Keeps(work'[w], job) /\ work'[w].pc = "carve" /\ ~ Whole(job)
    BY <1>2, <2>1, <2>2, AdvanceKeeps
  <2> QED BY <1>1, <1>2, <2>3, KeptRemembers
<1>4. CASE ~ Exists(Beside(job.src))
  <2> DEFINE r == TheChunk(job).result
             pc == IF r = "silent" THEN "settle" ELSE "mkdir"
             e == Beside(job.src)
             j == [job EXCEPT !.outcome = r, !.extract_dir = e, !.pc = pc]
  <2>1. Continue(w, j)
    BY <1>4 DEF CheckDirHere
  <2>2. pc \in {"settle", "mkdir"}
    OBVIOUS
  <2> HIDE DEF r, pc, e
  <2>3. j.task = job.task /\ j.carve_dir = job.carve_dir /\ j.src = job.src /\ j.extract_dir = e /\ j.pc = pc
    BY <1>2 DEF Jobs
  <2> HIDE DEF j
  <2>4. work'[w] = j
    BY <1>2, <2>1 DEF Continue
  <2>5. (Whole(j) <=> Whole(job)) /\ CarveDir(j) = CarveDir(job)
    BY <2>3 DEF Whole, CarveDir
  <2>6. ~ Whole(j) => CarvesAside(j, fs)
    BY <1>2, <2>3, <2>5 DEF CarvesAside
  <2> QED BY <1>1, <2>2, <2>3, <2>4, <2>6 DEF Remembers, CarvesAside, e
<1> QED BY <1>3, <1>4

LEMMA MakeRemembers ==
  ASSUME IInv, LinkInv, NEW w \in Workers, MakeDirHere(w), Busy(w)'
  PROVE  Remembers(work'[w], fs')
<1> DEFINE job == work[w]
<1>1. Busy(w) /\ job.pc = "mkdir"
  BY DEF MakeDirHere, Busy
<1>2. /\ job \in Jobs /\ TypeOK /\ work \in [Workers -> Jobs \cup {Idle}]
      /\ ~ Whole(job) => CarvesAside(job, fs)
      /\ job.extract_dir = Beside(job.src)
  BY <1>1, PieceAside
<1>3. \A p \in DOMAIN fs' : (p \in DOMAIN fs /\ fs'[p] = fs[p]) \/ fs'[p] \in {"dir", "piece"}
  BY DEF MakeDirHere, With
<1> DEFINE a == [job EXCEPT !.outcome = "error", !.pc = "settle"]  b == [job EXCEPT !.pc = "extract"]
<1>4. Keeps(a, job) /\ a.pc = "settle" /\ Keeps(b, job) /\ b.pc = "extract"
  BY <1>2 DEF Jobs, Keeps
<1>5. Continue(w, a) \/ Continue(w, b)
  BY DEF MakeDirHere
<1> HIDE DEF a, b
<1>6. work'[w] = a \/ work'[w] = b
  BY <1>2, <1>5 DEF Continue
<1> QED BY <1>2, <1>3, <1>4, <1>6, KeptRemembers
\* What is extracted of a piece is put deeper.
LEMMA ExtractRemembers ==
  ASSUME IInv, LinkInv, NEW w \in Workers, ExtractHere(w), Busy(w)'
  PROVE  Remembers(work'[w], fs')
<1> DEFINE job == work[w]  d == Beside(job.src)  tree == TheChunk(job).tree  c == CarveDir(job)
<1>1. Busy(w) /\ job.pc = "extract" /\ job.pc \in FilePcs /\ fs' = WithTree(fs, d, tree)
  BY DEF ExtractHere, Busy, FilePcs
<1>2. /\ job \in Jobs /\ TypeOK /\ work \in [Workers -> Jobs \cup {Idle}]
      /\ ~ Whole(job) => CarvesAside(job, fs)
      /\ job.extract_dir = Beside(job.src)
  BY <1>1, PieceAside
<1>3. /\ FsOK(fs) /\ d \in DOMAIN fs /\ fs[d] = "dir" /\ Bare(fs, d) /\ c \in Paths /\ d \in Paths
      /\ DOMAIN fs \subseteq Paths
  BY <1>1, OwnFile DEF FileLocal
<1>4. TreeOK(tree) /\ DOMAIN tree \subseteq Paths
  BY <1>1, TheTree
<1>5. ~ Whole(job) => Child(d, c)
  BY <1>1, CarvedIn
<1> DEFINE g == WithTree(fs, d, tree)
<1> HIDE DEF tree, d, c
<1>6. /\ DOMAIN fs' = DOMAIN fs \cup {d \o r : r \in DOMAIN tree}
      /\ \A p \in DOMAIN fs : fs'[p] = fs[p]
  <2>1. DOMAIN g = DOMAIN fs \cup {d \o r : r \in DOMAIN tree} /\ \A p \in DOMAIN fs : g[p] = fs[p]
    BY <1>3, <1>4, WithTreeFacts
  <2>2. fs' = g
    BY <1>1
  <2> HIDE DEF g
  <2> QED BY <2>1, <2>2
<1>7. ~ Whole(job) => \A p \in DOMAIN fs' : Child(p, c) =>
        (p \in DOMAIN fs /\ fs'[p] = fs[p]) \/ fs'[p] \in {"dir", "piece"}
  <2>1. ASSUME ~ Whole(job), NEW r \in DOMAIN tree, Child(d \o r, c) PROVE FALSE
    <3>1. d \o r \in Paths /\ Under(d \o r, d) /\ d \o r # d
      BY <1>3, <1>4, ConcatFacts
    <3> QED BY <1>3, <1>5, <2>1, <3>1, ChildFacts
  <2> QED BY <1>6, <2>1
<1> DEFINE j == [job EXCEPT !.pc = "settle"]
<1>8. Continue(w, j)
  BY DEF ExtractHere
<1>9. Keeps(j, job) /\ j.pc = "settle"
  BY <1>2 DEF Jobs, Keeps
<1> HIDE DEF j
<1>10. work'[w] = j
  BY <1>2, <1>8 DEF Continue
<1> QED BY <1>2, <1>7, <1>9, <1>10, KeptRemembers DEF c

LEMMA SettleRemembers ==
  ASSUME IInv, LinkInv, NEW w \in Workers, SettleHere(w), Busy(w)'
  PROVE  Remembers(work'[w], fs')
<1> DEFINE job == work[w]  d == Beside(job.src)
           empty == Exists(d) /\ \A p \in DOMAIN fs : ~ Child(p, d)
           reported == IF job.outcome = "error" THEN Report(job, "ExtractError") ELSE job
           ts == <<SubTask(d, job.task.depth + 1)>>
           j == IF Exists(d) /\ ~ empty THEN Spawn(reported, ts) ELSE reported
<1>1. /\ Busy(w) /\ job.pc = "settle" /\ job.pc \in FilePcs /\ \E R : fs' = Without(fs, R)
      /\ IF ShouldDelete(job) THEN Continue(w, [j EXCEPT !.pc = "delete"]) ELSE Advance(w, j)
  BY DEF SettleHere, Busy, FilePcs
<1>2. /\ job \in Jobs /\ TypeOK /\ work \in [Workers -> Jobs \cup {Idle}]
      /\ ~ Whole(job) => CarvesAside(job, fs)
      /\ job.extract_dir = Beside(job.src)
  BY <1>1, PieceAside
<1>3. d \in Paths
  BY <1>1, TheTree
<1>4. \A p \in DOMAIN fs' : p \in DOMAIN fs /\ fs'[p] = fs[p]
  BY <1>1 DEF Without
<1>5. reported \in Jobs /\ Keeps(reported, job)
  <2>1. CASE job.outcome = "error"
    BY <1>2, <2>1, KeepsReport DEF Reports
  <2>2. CASE job.outcome # "error"
    BY <1>2, <2>2 DEF Keeps
  <2> QED BY <2>1, <2>2
<1>6. ts \in Seq(Tasks)
  <2>1. job.task.depth \in Nat
    BY <1>2 DEF Jobs, Tasks
  <2> QED BY <1>3, <2>1, OneTask
<1> HIDE DEF d, reported, ts, empty
<1>7. Spawn(reported, ts) \in Jobs /\ Keeps(Spawn(reported, ts), reported)
  BY <1>5, <1>6, KeepsSpawn
<1>8. j \in Jobs /\ Keeps(j, job)
  BY <1>5, <1>7 DEF Keeps
<1> HIDE DEF j
<1>9. CASE ShouldDelete(job)
  <2> DEFINE k == [j EXCEPT !.pc = "delete"]
  <2>1. Continue(w, k)
    BY <1>1, <1>9
  <2>2. Keeps(k, j) /\ k.pc = "delete"
    BY <1>8, KeepsPc DEF Pcs
  <2> HIDE DEF k
  <2>3. work'[w] = k /\ Keeps(k, job)
    BY <1>2, <1>8, <2>1, <2>2 DEF Continue, Keeps
  <2> QED BY <1>2, <1>4, <2>2, <2>3, KeptRemembers
<1>10. CASE ~ ShouldDelete(job)
  <2>1. Keeps(work'[w], job) /\ work'[w].pc = "carve" /\ ~ Whole(job)
    BY <1>1, <1>2, <1>8, <1>10, AdvanceKeeps
  <2> QED BY <1>2, <1>4, <2>1, KeptRemembers
<1> QED BY <1>9, <1>10

\* A worker on a directory remembers where the multi-file goes.
LEMMA DirRemembers ==
  ASSUME IInv, LinkInv, NEW w \in Workers, DirHandlerHere(w) \/ ExtractMultiHere(w) \/ Iterate(w), Busy(w)'
  PROVE  Remembers(work'[w], fs')
<1> DEFINE job == work[w]
<1>1. Busy(w) /\ job.pc \in {"dir_handler", "multi"}
  BY DEF DirHandlerHere, ExtractMultiHere, Iterate, Busy
<1>2. job \in Jobs /\ TypeOK /\ work \in [Workers -> Jobs \cup {Idle}]
  BY <1>1, OwnDir DEF TypeOK
<1>3. \A x : ~ Return(w, x)
  BY <1>2 DEF Return, Busy
<1>4. CASE DirHandlerHere(w)
  <2> DEFINE m == MultiHere(job)
             a == [job EXCEPT !.todo = @ + 1]  b == [job EXCEPT !.pc = "multi", !.extract_dir = m]
  <2>1. (Continue(w, a) \/ Continue(w, b)) /\ job.pc = "dir_handler"
    BY <1>3, <1>4 DEF DirHandlerHere
  <2> HIDE DEF m
  <2>2. a.pc = job.pc
    BY <1>2 DEF Jobs
  <2>3. b.pc = "multi" /\ b.extract_dir = m /\ b.task = job.task /\ b.todo = job.todo
    BY <1>2 DEF Jobs
  <2> HIDE DEF a, b
  <2>4. work'[w] = a \/ work'[w] = b
    BY <1>2, <2>1 DEF Continue
  <2>5. MultiHere(b) = m
    BY <2>3 DEF MultiHere, Handler, m
  <2> QED BY <2>1, <2>2, <2>3, <2>4, <2>5 DEF Remembers, FilePcs
<1>5. CASE ExtractMultiHere(w)
  <2> DEFINE reported == IF Handler(job).result = "error" THEN Report(job, "MultiError") ELSE job
             S == Parts(job)
             next == [reported EXCEPT !.processed = @ \cup S, !.todo = @ + 1, !.pc = "dir_handler"]
             d == MultiHere(job)
             more == [next EXCEPT !.extract_dirs = @ \cup {d}]
             last == Spawn(more, <<SubTask(d, job.task.depth + 1)>>)
  <2>1. Continue(w, last) \/ Continue(w, next)
    BY <1>5 DEF ExtractMultiHere
  <2>2. DOMAIN reported = DOMAIN job
    BY DEF Report
  <2>3. DOMAIN job = {"task", "content", "pc", "todo", "src", "carve_dir", "extract_dir", "outcome",
                      "subtasks", "reports", "processed", "extract_dirs"}
    BY <1>2 DEF Jobs
  <2> HIDE DEF reported, S
  <2>4. next.pc = "dir_handler" /\ DOMAIN next = DOMAIN reported
    BY <2>2, <2>3, Zenon
  <2> HIDE DEF next
  <2>5. more.pc = next.pc /\ DOMAIN more = DOMAIN next
    BY <2>2, <2>3, <2>4
  <2> HIDE DEF more
  <2>6. last.pc = more.pc
    BY <2>2, <2>3, <2>4, <2>5 DEF Spawn
  <2> HIDE DEF last
  <2>7. work'[w] = last \/ work'[w] = next
    BY <1>2, <2>1 DEF Continue
  <2> QED BY <2>4, <2>5, <2>6, <2>7 DEF Remembers, FilePcs
<1>6. CASE Iterate(w)
  BY <1>3, <1>6 DEF Iterate
<1> QED BY <1>4, <1>5, <1>6

\* What a worker remembers is left alone by the others.
LEMMA RemembersFrame ==
  ASSUME TypeOK, NEW v \in Workers, Busy(v), Remembers(work[v], fs), \A p : InRegion(v, p) => Same(fs, fs', p),
         DOMAIN fs' \subseteq Paths, Local(v)
  PROVE  Remembers(work[v], fs')
<1> DEFINE job == work[v]
<1>1. CASE job.pc \in {"unknown", "carve"} \/ (job.pc \in FilePcs /\ ~ Whole(job))
  <2>1. Engaged(job)
    BY <1>1 DEF Engaged, FilePcs
  <2>2. InRegion(v, CarveDir(job)) /\ CarveDir(job) \in Paths
    BY <2>1, RegionMembers
  <2>3. ASSUME NEW p \in DOMAIN fs', Child(p, CarveDir(job)) PROVE fs'[p] \notin DOMAIN Links
    <3>1. InRegion(v, p)
      BY <2>2, <2>3, RegionDown DEF Child
    <3>2. p \in DOMAIN fs /\ fs'[p] = fs[p]
      BY <2>3, <3>1 DEF Same
    <3> QED BY <1>1, <2>3, <3>2 DEF Remembers
  <2> QED BY <2>3 DEF Remembers
<1>2. CASE ~ (job.pc \in {"unknown", "carve"} \/ (job.pc \in FilePcs /\ ~ Whole(job)))
  BY <1>2 DEF Remembers
<1> QED BY <1>1, <1>2

LEMMA StepRemembers ==
  ASSUME Inv, IInv', LinkInv, NEW w \in Workers, WorkHere(w), ~ TakeTaskHere(w), StepOK(w)
  PROVE  \A v \in Workers : Busy(v)' => Remembers(work'[v], fs')
<1>1. IInv /\ TypeOK /\ Unique /\ RegionInv /\ Busy(w) /\ LocalInv /\ DOMAIN fs' \subseteq Paths
  BY DEF Inv, IInv, StepOK, TypeOK, FileTree
<1>2. PICK new : Effect(w, new) /\ (Goes(w, new) \/ Returns(w, new))
  BY DEF StepOK
<1>3. ASSUME NEW v \in Workers, v # w, Busy(v)' PROVE Remembers(work'[v], fs')
  <2>1. work'[v] = work[v] /\ Busy(v)
    BY <1>1, <1>2, <1>3, StepMoves DEF StepOK, Busy
  <2>2. \A p : InRegion(v, p) => Same(fs, fs', p)
    BY <1>1, <1>2, <1>3, <2>1, WorkersApart DEF Effect
  <2>3. Remembers(work[v], fs) /\ Local(v)
    BY <1>1, <2>1 DEF LinkInv, LocalInv
  <2>4. Remembers(work[v], fs')
    BY <1>1, <2>1, <2>2, <2>3, RemembersFrame
  <2> QED BY <2>1, <2>4
<1>4. ASSUME Busy(w)' PROVE Remembers(work'[w], fs')
  <2>1. CASE CarveUnknownHere(w) \/ CarveChunkHere(w)
    BY <1>1, <1>4, <2>1, CarveRemembers
  <2>2. CASE CheckDirHere(w)
    BY <1>1, <1>4, <2>2, CheckRemembers
  <2>3. CASE MakeDirHere(w)
    BY <1>1, <1>4, <2>3, MakeRemembers
  <2>4. CASE ExtractHere(w)
    BY <1>1, <1>4, <2>4, ExtractRemembers
  <2>5. CASE SettleHere(w)
    BY <1>1, <1>4, <2>5, SettleRemembers
  <2>6. CASE DeleteExtracted(w)
    BY <1>1, <1>4, <2>6 DEF DeleteExtracted, Return, TypeOK, Busy
  <2>7. CASE DirHandlerHere(w) \/ ExtractMultiHere(w) \/ Iterate(w)
    BY <1>1, <1>4, <2>7, DirRemembers
  <2> QED BY <2>1, <2>2, <2>3, <2>4, <2>5, <2>6, <2>7 DEF WorkHere
<1> QED BY <1>3, <1>4
\* Every step of HereSpec keeps links aside, and what the workers remember.
LEMMA NextLink ==
  ASSUME NamesApart, Inv, Inv', LinkInv, [NextHere]_vars
  PROVE  LinkInv'
<1>1. IInv /\ IInv' /\ LinksApart /\ LinksAside(fs)
  BY DEF Inv, NamesApart, LinkInv
<1>2. ASSUME NEW w \in Workers, WorkHere(w) PROVE LinkInv'
  <2>1. LinksAside(fs')
    BY <1>1, <1>2, WorkAside
  <2>2. CASE TakeTaskHere(w)
    <3>1. \A v \in Workers : v # w => work'[v] = work[v]
      BY <1>1, <2>2, TakeTaskInv DEF Inv, Taken
    <3>2. fs' = fs
      BY <2>2 DEF TakeTaskHere
    <3>3. Busy(w)' => Remembers(work'[w], fs')
      BY <2>2, TakeRemembers
    <3> QED BY <2>1, <3>1, <3>2, <3>3 DEF LinkInv, Busy
  <2>3. CASE ~ TakeTaskHere(w)
    <3>1. StepOK(w)
      BY <1>2, <2>3, WorkOK
    <3>2. \A v \in Workers : Busy(v)' => Remembers(work'[v], fs')
      BY <1>1, <1>2, <2>3, <3>1, StepRemembers
    <3> QED BY <2>1, <3>2 DEF LinkInv, Busy
  <2> QED BY <2>2, <2>3
<1>3. CASE UNCHANGED <<fs, work>>
  BY <1>3 DEF LinkInv, Busy
<1>4. CASE Crash \/ RemoveOldHere
  <2>1. \A w \in Workers : work'[w] = Idle
    BY <1>1, <1>4 DEF Crash, RemoveOldHere, IInv, Quiet
  <2>2. fs' = fs \/ \E S : fs' = Without(fs, S)
    BY <1>4 DEF Crash, RemoveOldHere
  <2>3. LinksAside(fs')
    BY <1>1, <2>2, WithoutAside
  <2> QED BY <2>1, <2>3 DEF LinkInv, Busy
<1>5. CASE PrepareReport \/ Register \/ WriteReport \/ Rerun \/ Over \/ UNCHANGED vars
  BY <1>3, <1>5 DEF PrepareReport, Register, WriteReport, Rerun, Over, vars
<1> QED BY <1>2, <1>4, <1>5 DEF NextHere, HostHere

-----------------------------------------------------------------------------
(* Every step is one of HereSpec                                           *)

LEMMA RemoveOldIsHere ==
  ASSUME Inv, RemoveOld
  PROVE  RemoveOldHere
<1>1. InputPath \in Paths /\ Beside(InputPath) \in Paths /\ Room(fs, Beside(InputPath))
  BY InputFacts DEF Room
<1>2. ~ IsLink(fs, Beside(InputPath))
  BY ProcessingAssumption DEF Inv, RootInv, RootFs, IsLink
<1>3. ExtractDir(InputPath) = Beside(InputPath)
  BY <1>1, <1>2, NoLinkOn DEF ExtractDir
<1> QED BY <1>3 DEF RemoveOld, RemoveOldHere

LEMMA TakeTaskIsHere ==
  ASSUME IInv, LinkInv, NEW w \in Workers, TakeTask(w)
  PROVE  TakeTaskHere(w)
<1> DEFINE t == Head(queue)  c == fs[t.path]  b == Beside(t.path)
<1>1. FsOK(fs) /\ LinksAside(fs) /\ queue # <<>>
  BY DEF IInv, LinkInv, TakeTask
<1>2. t.path \in DOMAIN fs /\ c \in Nodes /\ c # "piece"
  BY <1>1, FirstTask
<1>3. ~ Ignored(t) /\ c # "dir" => ExtractDir(t.path) = b /\ (Stands(b) <=> Exists(b))
  <2>1. ~ Ignored(t) /\ c # "dir" => c \in Files
    BY <1>2, NotIgnored
  <2> QED BY <1>1, <1>2, <2>1, FileBeside DEF ExtractDir, Stands
<1> HIDE DEF b
<1>4. /\ phase = "run" /\ work[w] = Idle /\ queue # <<>> /\ queue' = Tail(queue) /\ UNCHANGED <<fs, results, host>>
      /\ IF ~ Exists(t.path) THEN Return(w, Report(Job(t, "special", "none"), "UnknownError"))
         ELSE IF Ignored(t) THEN Return(w, Job(t, c, "none"))
         ELSE IF c = "dir" THEN Continue(w, Job(t, c, "dir_handler"))
         ELSE IF Pieces(c) = 1 THEN Continue(w, Job(t, c, "check"))
         ELSE IF Exists(b) THEN Return(w, Report(Report(Job(t, c, "none"), "CarveDirectory"), "OutputExists"))
         ELSE Continue(w, Report([Job(t, c, "unknown") EXCEPT !.carve_dir = b], "CarveDirectory"))
  BY <1>3 DEF TakeTask
<1> QED BY <1>4 DEF TakeTaskHere, b

\* The directory that is carved into has its place, which no link takes.
LEMMA CarveIsHere ==
  ASSUME IInv, LinkInv, NEW w \in Workers, Busy(w), work[w].pc \in {"unknown", "carve"},
         NEW files, NEW next, Carve(w, work[w], files, next)
  PROVE  CarveHere(w, work[w], files, next) /\ work[w].carve_dir = CarveDir(work[w])
<1> DEFINE job == work[w]  c == CarveDir(job)
<1>1. job.pc \in FilePcs /\ job.carve_dir = c
  BY DEF FilePcs, LinkInv, Remembers
<1>2. c \in Paths /\ Room(fs, c) /\ FileLocal(w)
  BY <1>1, OwnFile
<1>3. c \in DOMAIN fs => fs[c] = "dir"
  BY <1>2 DEF FileLocal
<1>4. Makeable(c) /\ With(fs, Branch(c), "dir") = With(fs, {c}, "dir")
  BY <1>2, <1>3, BranchMade
<1> HIDE DEF c
<1>5. files = {} \/ files # {}
  OBVIOUS
<1> QED BY <1>1, <1>4, <1>5 DEF Carve, CarveHere, c

LEMMA CarvingIsHere ==
  ASSUME IInv, LinkInv, NEW w \in Workers, CarveUnknown(w) \/ CarveChunk(w)
  PROVE  CarveUnknownHere(w) \/ CarveChunkHere(w)
<1> DEFINE job == work[w]
<1>1. CASE CarveUnknown(w)
  <2> DEFINE U == {Append(job.carve_dir, n) : n \in Content[job.content].unknown}
             next == [job EXCEPT !.pc = "carve"]
  <2>1. Busy(w) /\ job.pc = "unknown" /\ Carve(w, job, U, next) /\ UNCHANGED <<queue, results, host>>
    BY <1>1 DEF CarveUnknown, Busy
  <2> HIDE DEF next, U
  <2>2. CarveHere(w, job, U, next) /\ job.carve_dir = CarveDir(job)
    BY <2>1, CarveIsHere
  <2>3. U = UnknownPaths(job)
    BY <2>2 DEF U, UnknownPaths
  <2> QED BY <2>1, <2>2, <2>3 DEF CarveUnknownHere, Busy, next
<1>2. CASE CarveChunk(w)
  <2> DEFINE p == Append(job.carve_dir, Chunks(job.content)[job.todo].name)
             next == [job EXCEPT !.pc = "check", !.src = p]
  <2>1. Busy(w) /\ job.pc = "carve" /\ Carve(w, job, {p}, next) /\ UNCHANGED <<queue, results, host>>
    BY <1>2 DEF CarveChunk, Busy
  <2> HIDE DEF next, p
  <2>2. CarveHere(w, job, {p}, next) /\ job.carve_dir = CarveDir(job)
    BY <2>1, CarveIsHere
  <2>3. p = ChunkPath(job, job.todo)
    BY <2>2 DEF p, ChunkPath
  <2> QED BY <2>1, <2>2, <2>3 DEF CarveChunkHere, Busy, next
<1> QED BY <1>1, <1>2

\* What a worker looks for beside its file is what stands there.
LEMMA BesideSource ==
  ASSUME IInv, LinkInv, NEW w \in Workers, Busy(w), work[w].pc = "check"
  PROVE  LET d == Beside(work[w].src) IN
         ExtractDir(work[w].src) = d /\ (Stands(d) <=> Exists(d))
<1> DEFINE job == work[w]  d == Beside(job.src)
<1>1. /\ job.src \in DOMAIN fs /\ job.src \in Paths /\ d \in Paths /\ Room(fs, d)
      /\ Whole(job) => fs[job.src] \in Files
  BY SourceThere
<1>2. FsOK(fs) /\ LinksAside(fs)
  BY DEF IInv, LinkInv
<1>3. ~ IsLink(fs, d)
  <2>1. CASE Whole(job)
    BY <1>1, <1>2, <2>1, FileBeside
  <2>2. CASE ~ Whole(job)
    BY <2>2, CarvedIn, PieceAside DEF CarvesAside, IsLink
  <2> QED BY <2>1, <2>2
<1> QED BY <1>1, <1>3, NoLinkOn DEF ExtractDir, Stands

LEMMA CheckDirIsHere ==
  ASSUME IInv, LinkInv, NEW w \in Workers, CheckDir(w)
  PROVE  CheckDirHere(w)
<1> DEFINE job == work[w]  d == Beside(job.src)
<1>1. Busy(w) /\ job.pc = "check"
  BY DEF CheckDir, Busy
<1>2. ExtractDir(job.src) = d /\ (Stands(d) <=> Exists(d))
  BY <1>1, BesideSource
<1> QED BY <1>2 DEF CheckDir, CheckDirHere

LEMMA MakeDirIsHere ==
  ASSUME IInv, LinkInv, NEW w \in Workers, MakeDir(w)
  PROVE  MakeDirHere(w)
<1> DEFINE job == work[w]  d == Beside(job.src)
<1>1. Busy(w) /\ job.pc = "mkdir" /\ job.pc \in FilePcs
  BY DEF MakeDir, Busy, FilePcs
<1>2. job.extract_dir = d
  BY <1>1, PieceAside
<1>3. d \in Paths /\ Room(fs, d)
  BY <1>1, SourceThere
<1>4. d \notin DOMAIN fs
  BY <1>1, OwnFile DEF FileLocal
<1>5. Makeable(d) /\ With(fs, Branch(d), "dir") = With(fs, {d}, "dir")
  BY <1>3, <1>4, BranchMade
<1> HIDE DEF d
<1> QED BY <1>2, <1>5 DEF MakeDir, MakeDirHere, d

LEMMA ExtractIsHere ==
  ASSUME IInv, LinkInv, NEW w \in Workers, Extract(w)
  PROVE  ExtractHere(w)
<1>1. Busy(w) /\ work[w].pc = "extract"
  BY DEF Extract, Busy
<1>2. work[w].extract_dir = Beside(work[w].src)
  BY <1>1, PieceAside
<1> QED BY <1>2 DEF Extract, ExtractHere

LEMMA SettleIsHere ==
  ASSUME IInv, LinkInv, OutcomeInv, NEW w \in Workers, Settle(w)
  PROVE  SettleHere(w)
<1> DEFINE job == work[w]  d == Beside(job.src)
<1>1. Busy(w) /\ job.pc = "settle"
  BY DEF Settle, Busy
<1>2. job.extract_dir = d
  BY <1>1, PieceAside
<1>3. Exists(d) => fs[d] = "dir"
  BY <1>1 DEF OutcomeInv, OutcomeFor, Exists
<1>4. Stands(d) <=> Exists(d)
  BY <1>3, ProcessingAssumption DEF Stands, IsLink
<1> HIDE DEF d
<1> QED BY <1>2, <1>3, <1>4 DEF Settle, SettleHere, d

\* What a handler of directories extracts to is held by the directory itself.
LEMMA MultiBeside ==
  ASSUME IInv, LinkInv, NEW w \in Workers, Busy(w), work[w].pc = "dir_handler", work[w].todo <= Len(DirHandlers)
  PROVE  LET m == MultiHere(work[w]) IN
         /\ m \in Paths /\ Room(fs, m)
         /\ MultiDir(work[w]) = m /\ (Stands(m) <=> Exists(m))
<1> DEFINE job == work[w]  n == Handler(job).name  m == MultiHere(job)
<1>1. /\ FsOK(fs) /\ DirLocal(w) /\ job.task.path = Path(w) /\ Path(w) \in Paths /\ job.todo \in Nat \ {0}
      /\ Path(w) \in DOMAIN fs
  BY OwnDir
<1>2. LinksAside(fs)
  BY DEF LinkInv
<1>3. DirHandlers \in Seq(Range(DirHandlers))
  BY ProcessingAssumption
<1>4. job.todo \in 1..Len(DirHandlers)
  BY <1>1, <1>3
<1>5. n \in Names /\ Suffixed(n) \in Names
  BY <1>4, HandlerFacts, ProcessingAssumption DEF Handler, HandlerOK
<1>6. /\ m = Beside(Append(job.task.path, n)) /\ m \in Paths /\ Child(m, Path(w)) /\ Last(m) = Suffixed(n)
  <2>1. Path(w) \in Paths /\ n \in Names /\ Suffixed(n) \in Names
    BY <1>1, <1>5
  <2>2. m = Append(Path(w), Suffixed(n)) /\ Append(job.task.path, n) = Append(Path(w), n)
    BY <1>1 DEF MultiHere
  <2>3. Beside(Append(Path(w), n)) = Append(Path(w), Suffixed(n))
    BY <2>1, BesideAppend
  <2> DEFINE s == Suffixed(n)
  <2> HIDE DEF n, s
  <2>4. Append(Path(w), s) \in Paths /\ Child(Append(Path(w), s), Path(w)) /\ Last(Append(Path(w), s)) = s
    BY <2>1, AppendFacts DEF s
  <2> QED BY <2>2, <2>3, <2>4 DEF s
<1>7. Room(fs, m)
  BY <1>1, <1>6, RoomInDir DEF DirLocal
<1>8. ~ IsLink(fs, m)
  BY <1>2, <1>4, <1>6 DEF LinksAside, IsLink, Handler
<1>9. Resolve(fs, m) = m
  BY <1>6, <1>7, <1>8, NoLinkOn
<1>10. MultiDir(job) = m
  BY <1>6, <1>9 DEF MultiDir, ExtractDir
<1> QED BY <1>6, <1>7, <1>8, <1>10 DEF Stands

LEMMA DirHandlerIsHere ==
  ASSUME IInv, LinkInv, NEW w \in Workers, DirHandler(w)
  PROVE  DirHandlerHere(w)
<1> DEFINE job == work[w]  m == MultiHere(job)
<1>1. Busy(w) /\ job.pc = "dir_handler" /\ job.todo <= Len(DirHandlers)
  BY DEF DirHandler, Busy
<1>2. m \in Paths /\ Room(fs, m) /\ MultiDir(job) = m /\ (Stands(m) <=> Exists(m))
  BY <1>1, MultiBeside
<1>3. /\ With(fs, Branch(m), "dir") = With(fs, {m}, "dir")
      /\ m \notin DOMAIN fs => Makeable(m)
  BY <1>2, BranchMade
<1> HIDE DEF m
<1> QED BY <1>2, <1>3 DEF DirHandler, DirHandlerHere, Triggered, Exists, m

LEMMA ExtractMultiIsHere ==
  ASSUME IInv, LinkInv, NEW w \in Workers, ExtractMulti(w)
  PROVE  ExtractMultiHere(w)
<1> DEFINE job == work[w]  m == MultiHere(job)
           reported == IF Handler(job).result = "error" THEN Report(job, "MultiError") ELSE job
<1>1. Busy(w) /\ job.pc = "multi"
  BY DEF ExtractMulti, Busy
<1>2. DirLocal(w) /\ job \in Jobs
  BY <1>1, OwnDir
<1>3. job.extract_dir = m
  BY <1>1 DEF LinkInv, Remembers
<1>4. Stands(m) <=> Exists(m)
  BY <1>1, <1>2, ProcessingAssumption DEF DirLocal, Stands, Exists, IsLink
<1>5. Parts(reported) = Parts(job)
  BY <1>2 DEF Jobs, Report, Parts, Handler
<1> HIDE DEF m
<1> QED BY <1>3, <1>4, <1>5 DEF ExtractMulti, ExtractMultiHere, PartsDone, m

\* Every step of the program is one that meets no link.
LEMMA NextIsHere ==
  ASSUME Inv, OutcomeInv, LinkInv, [Next]_vars
  PROVE  [NextHere]_vars
<1>1. IInv
  BY DEF Inv
<1>2. ASSUME NEW w \in Workers, Work(w) PROVE WorkHere(w)
  <2>1. TakeTask(w) => TakeTaskHere(w)
    BY <1>1, TakeTaskIsHere
  <2>2. CarveUnknown(w) \/ CarveChunk(w) => CarveUnknownHere(w) \/ CarveChunkHere(w)
    BY <1>1, CarvingIsHere
  <2>3. CheckDir(w) => CheckDirHere(w)
    BY <1>1, CheckDirIsHere
  <2>4. MakeDir(w) => MakeDirHere(w)
    BY <1>1, MakeDirIsHere
  <2>5. Extract(w) => ExtractHere(w)
    BY <1>1, ExtractIsHere
  <2>6. Settle(w) => SettleHere(w)
    BY <1>1, SettleIsHere
  <2>7. DirHandler(w) => DirHandlerHere(w)
    BY <1>1, DirHandlerIsHere
  <2>8. ExtractMulti(w) => ExtractMultiHere(w)
    BY <1>1, ExtractMultiIsHere
  <2> QED BY <1>2, <2>1, <2>2, <2>3, <2>4, <2>5, <2>6, <2>7, <2>8 DEF Work, WorkHere
<1>3. RemoveOld => RemoveOldHere
  BY RemoveOldIsHere
<1> QED BY <1>2, <1>3 DEF Next, NextHere, Host, HostHere

-----------------------------------------------------------------------------
(* The program keeps to the directories beside its files                   *)

LEMMA InitOutcomeLink ==
  Init => OutcomeInv /\ LinkInv
<1> SUFFICES ASSUME Init PROVE OutcomeInv /\ LinkInv
  OBVIOUS
<1>1. \A w \in Workers : ~ Busy(w)
  BY DEF Init, Busy
<1>2. PICK c \in Files : fs = [p \in {InputPath} |-> c]
  BY DEF Init
<1>3. LinksAside(fs)
  BY <1>2, ProcessingAssumption DEF LinksAside
<1> QED BY <1>1, <1>3 DEF OutcomeInv, LinkInv

\* However often the program is killed and run again, whatever the workers do at the same
\* time, and wherever the extracted links lead, even to what is not there: the directories
\* that _get_output_path resolves are the ones beside the files, as long as no archive holds
\* a link by the name of such a directory (LinksApart).  So the program does what HereSpec
\* does, and the invariants hold in all its states.
THEOREM SpecImplementsHere ==
  ASSUME NamesApart
  PROVE  Spec => HereSpec /\ [](Inv /\ OutcomeInv /\ LinkInv)
<1> DEFINE All == Inv /\ OutcomeInv /\ LinkInv
<1>1. Init => All
  BY InitInv, InitOutcomeLink
<1>2. All /\ [Next]_vars => [NextHere]_vars
  BY NextIsHere
<1>3. All /\ [NextHere]_vars => All'
  BY NextInv, NextOutcome, NextLink
<1> HIDE DEF All
<1>4. Spec => []All
  <2>1. All /\ [Next]_vars => All'
    BY <1>2, <1>3
  <2> QED BY <1>1, <1>2, <2>1, PTL DEF Spec
<1>5. Spec => HereSpec
  BY <1>1, <1>2, <1>3, PTL DEF Spec, HereSpec
<1> QED BY <1>4, <1>5, PTL DEF All

\* The inductive invariant of process_task and of process_file: which paths have a task,
\* what each worker may touch and what is there, in every run, also after a crash.
THEOREM Invariance ==
  ASSUME NamesApart
  PROVE  Spec => []Inv
BY SpecImplementsHere, PTL

\* The state of process_file and of its workers has its type.
THEOREM TypeCorrect ==
  ASSUME NamesApart
  PROVE  Spec => []TypeOK
<1>1. Inv => TypeOK
  BY DEF Inv, IInv
<1> QED BY <1>1, Invariance, PTL

-----------------------------------------------------------------------------
(* The properties                                                          *)

\* No path has two tasks among those queued, worked on and answered, so that nothing is
\* extracted twice and no two workers share a path (process_result submits the subtasks of
\* listings and of extractions).  It needs LinksApart: two names that resolve to one
\* directory would give it two tasks.
THEOREM EachPathOnce ==
  ASSUME NamesApart
  PROVE  Spec => []OneTaskPerPath
BY SpecImplementsHere, HereEachPathOnce, PTL

\* Between the check of _extract_chunk and the mkdir of Handler.extract, no other worker
\* makes the directory, nor a directory to carve into, and what a worker works on is there.
\* It needs LinksApart, without which two workers could resolve to one directory.
THEOREM NoInterferenceHolds ==
  ASSUME NamesApart
  PROVE  Spec => []NoInterference
<1>1. ASSUME Inv, LinkInv PROVE NoInterference
  <2> SUFFICES ASSUME NEW w \in Workers, Busy(w)
               PROVE  /\ work[w].pc = "mkdir" => ~ Exists(work[w].extract_dir)
                      /\ work[w].pc = "unknown" => ~ Exists(work[w].carve_dir)
                      /\ Exists(work[w].task.path)
    BY DEF NoInterference
  <2>1. IInv /\ LocalInv
    BY <1>1 DEF Inv, IInv
  <2>2. Exists(work[w].task.path)
    BY <2>1, OwnExists DEF Exists, Path
  <2>3. work[w].pc \in {"mkdir", "unknown"} => FileLocal(w)
    BY <2>1 DEF LocalInv, Local, FilePcs
  <2>4. /\ work[w].pc = "mkdir" => work[w].extract_dir = Beside(work[w].src)
        /\ work[w].pc = "unknown" => work[w].carve_dir = CarveDir(work[w])
    BY <1>1 DEF LinkInv, Remembers, FilePcs
  <2> QED BY <2>2, <2>3, <2>4 DEF FileLocal, Exists
<1> QED BY <1>1, SpecImplementsHere, PTL

\* A run without --force leaves every file and directory that it finds as it was, however
\* earlier runs ended (process_file, carve and Handler.extract never write over anything).
THEOREM OldStays ==
  ASSUME NamesApart
  PROVE  Spec => []OldUntouched
BY SpecImplementsHere, HereOldStays, PTL

\* A run removes only files of the extraction directory, and only those whose chunk has been
\* extracted without an error and whose extracted files are all there, provided that no
\* chunk fails silently (_should_delete_extracted_file, and carved chunks that are removed).
THEOREM RemovedIsExtracted ==
  ASSUME NamesApart, NothingSilent
  PROVE  Spec => RemovedMeansExtracted
<1>1. ASSUME Inv, OutcomeInv, LinkInv, [NextHere]_vars
      PROVE  [\A p \in DOMAIN fs \ DOMAIN fs' : phase = "run" /\ fs[p] # "dir" =>
                /\ Under(p, Beside(InputPath))
                /\ \E w \in Workers : Busy(w) /\ work[w].src = p /\ FullyExtracted(work[w])]_vars
  <2> SUFFICES ASSUME NEW p \in DOMAIN fs \ DOMAIN fs', phase = "run", fs[p] # "dir"
               PROVE  /\ Under(p, Beside(InputPath))
                      /\ \E w \in Workers : Busy(w) /\ work[w].src = p /\ FullyExtracted(work[w])
    OBVIOUS
  <2>1. fs' # fs
    OBVIOUS
  <2>2. PICK w \in Workers : WorkHere(w)
    BY <1>1, <2>1 DEF NextHere, HostHere, RemoveOldHere, PrepareReport, Register, WriteReport, Crash, Rerun, Over, vars
  <2> QED BY <1>1, <2>2, WorkRemoves
<1> QED BY <1>1, SpecImplementsHere, PTL DEF HereSpec, RemovedMeansExtracted

\* When a run is over, every entry of every directory that was listed has its result or is a
\* carve directory, also an entry that another worker made after the directory was listed
\* (_iterate_directory runs while the siblings are extracted).
THEOREM EntriesVisited ==
  ASSUME NamesApart
  PROVE  Spec => []AllVisited
BY SpecImplementsHere, HereEntriesVisited, PTL

\* When a run is over, of each file that was processed without an existing directory in its
\* way, the gaps, the chunks that failed and everything that was extracted are there, but
\* for files that a result reports as deleted, whatever other workers removed meanwhile
\* (carve_unknown_chunk, carve_valid_chunk, _extract_chunk, remove_empty_directory).
THEOREM NothingIsLost ==
  ASSUME NamesApart
  PROVE  Spec => []NothingLost
BY SpecImplementsHere, HereNothingIsLost, PTL

\* With --force no file fails with OutputExistsReport: process_file has removed what an
\* earlier run left, also one that was killed, and each directory is made by the one task
\* that is entitled to it.  FreshNames is needed: an archive that holds a file and, beside
\* it, an entry with the name of its extraction directory makes _extract_chunk report it.
THEOREM ForceStartsFresh ==
  ASSUME NamesApart, FreshNames
  PROVE  Spec => []ForceIsFresh
BY SpecImplementsHere, HereForceStartsFresh, PTL
=============================================================================
