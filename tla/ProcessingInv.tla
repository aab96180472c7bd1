---------------------------- MODULE ProcessingInv ---------------------------
(***************************************************************************)
(* The inductive invariants of Processing: which paths have a task, which  *)
(* part of the file system each worker has for itself, and what is there   *)
(* at each place in the code.  ProcessingProofs shows that they hold.      *)
(***************************************************************************)
EXTENDS Processing

-----------------------------------------------------------------------------
(* Files and directories                                                   *)

\* What holds a path is a directory.
Closed(f) ==
  \A p \in DOMAIN f : \A d \in Paths : Under(p, d) /\ d # p => d \in DOMAIN f /\ f[d] = "dir"
FsOK(f) == FileTree(f) /\ Closed(f)
Bare(f, d) == \A p \in DOMAIN f : Under(p, d) => p = d
Room(f, p) == \A d \in Paths : Under(p, d) /\ d # p => d \in DOMAIN f /\ f[d] = "dir"

-----------------------------------------------------------------------------
(* The program where no link is in the way: every directory is made where  *)
(* its name says.  ProcessingProofs shows that Spec implements HereSpec.   *)

RemoveOldHere ==
  /\ phase = "start"
  /\ fs' = IF config.force THEN Without(fs, {p \in DOMAIN fs : Under(p, Beside(InputPath))}) ELSE fs
  /\ phase' = "prepare"
  /\ UNCHANGED <<config, report, queue, work, outbox, results, runs, old>>
TakeTaskHere(w) ==
  /\ phase = "run" /\ work[w] = Idle /\ queue # <<>>
  /\ queue' = Tail(queue)
  /\ LET t == Head(queue)
         job(pc) == Job(t, fs[t.path], pc)
     IN IF ~ Exists(t.path) THEN Return(w, Report(Job(t, "special", "none"), "UnknownError"))
        ELSE IF Ignored(t) THEN Return(w, job("none"))
        ELSE IF fs[t.path] = "dir" THEN Continue(w, job("dir_handler"))
        ELSE IF Pieces(fs[t.path]) = 1 THEN Continue(w, job("check"))
        ELSE IF Exists(Beside(t.path))
        THEN Return(w, Report(Report(job("none"), "CarveDirectory"), "OutputExists"))
        ELSE Continue(w, Report([job("unknown") EXCEPT !.carve_dir = Beside(t.path)], "CarveDirectory"))
  /\ UNCHANGED <<fs, results, host>>
CarveHere(w, job, files, next) ==
  IF \E p \in files : Exists(p)
  THEN Return(w, Report(job, "UnknownError")) /\ UNCHANGED fs
  ELSE /\ fs' = With(With(fs, IF files = {} THEN {} ELSE {CarveDir(job)}, "dir"), files, "piece")
       /\ Continue(w, next)
CarveUnknownHere(w) ==
  LET job == work[w] IN
  /\ job # Idle /\ job.pc = "unknown"
  /\ CarveHere(w, job, UnknownPaths(job), [job EXCEPT !.pc = "carve"])
  /\ UNCHANGED <<queue, results, host>>
CarveChunkHere(w) ==
  LET job == work[w]
      p == ChunkPath(job, job.todo)
  IN
  /\ job # Idle /\ job.pc = "carve"
  /\ CarveHere(w, job, {p}, [job EXCEPT !.pc = "check", !.src = p])
  /\ UNCHANGED <<queue, results, host>>
CheckDirHere(w) ==
  LET job == work[w] IN
  /\ job # Idle /\ job.pc = "check"
  /\ IF Exists(Beside(job.src)) THEN Advance(w, Report(job, "OutputExists"))
     ELSE LET r == TheChunk(job).result IN
          Continue(w, [job EXCEPT !.outcome = r, !.extract_dir = Beside(job.src),
                                  !.pc = IF r = "silent" THEN "settle" ELSE "mkdir"])
  /\ UNCHANGED <<fs, queue, results, host>>
MakeDirHere(w) ==
  LET job == work[w]
      d == Beside(job.src)
  IN
  /\ job # Idle /\ job.pc = "mkdir"
  /\ IF Exists(d) THEN Continue(w, [job EXCEPT !.outcome = "error", !.pc = "settle"]) /\ UNCHANGED fs
     ELSE Continue(w, [job EXCEPT !.pc = "extract"]) /\ fs' = With(fs, {d}, "dir")
  /\ UNCHANGED <<queue, results, host>>
ExtractHere(w) ==
  LET job == work[w] IN
  /\ job # Idle /\ job.pc = "extract"
  /\ fs' = WithTree(fs, Beside(job.src), TheChunk(job).tree)
  /\ Continue(w, [job EXCEPT !.pc = "settle"])
  /\ UNCHANGED <<queue, results, host>>
SettleHere(w) ==
  LET job == work[w]
      d == Beside(job.src)
      empty == Exists(d) /\ \A p \in DOMAIN fs : ~ Child(p, d)
      removed == (IF empty THEN {d} ELSE {})
                 \cup (IF ~ Whole(job) /\ job.outcome = "ok" /\ ~ config.keep THEN {job.src} ELSE {})
      reported == IF job.outcome = "error" THEN Report(job, "ExtractError") ELSE job
      spawned == IF Exists(d) /\ ~ empty THEN Spawn(reported, <<SubTask(d, job.task.depth + 1)>>)
                 ELSE reported
  IN
  /\ job # Idle /\ job.pc = "settle"
  /\ fs' = Without(fs, removed)
  /\ IF ShouldDelete(job) THEN Continue(w, [spawned EXCEPT !.pc = "delete"]) ELSE Advance(w, spawned)
  /\ UNCHANGED <<queue, results, host>>
MultiHere(job) == Append(job.task.path, Suffixed(Handler(job).name))
DirHandlerHere(w) ==
  LET job == work[w] IN
  /\ job # Idle /\ job.pc = "dir_handler" /\ job.todo <= Len(DirHandlers)
  /\ \/ /\ ~ Exists(Append(job.task.path, Handler(job).trigger))
        /\ Continue(w, [job EXCEPT !.todo = @ + 1]) /\ UNCHANGED fs
     \/ /\ Exists(Append(job.task.path, Handler(job).trigger))
        /\ IF Parts(job) \cap job.processed # {}
           THEN Return(w, Report(job, "MultiFileCollision")) /\ UNCHANGED fs
           ELSE IF Exists(MultiHere(job))
           THEN Return(w, Report(job, "MultiOutputExists")) /\ UNCHANGED fs
           ELSE /\ Continue(w, [job EXCEPT !.pc = "multi", !.extract_dir = MultiHere(job)])
                /\ fs' = IF Handler(job).result = "silent" THEN fs ELSE With(fs, {MultiHere(job)}, "dir")
  /\ UNCHANGED <<queue, results, host>>
ExtractMultiHere(w) ==
  LET job == work[w]
      d == MultiHere(job)
      reported == IF Handler(job).result = "error" THEN Report(job, "MultiError") ELSE job
      next == [reported EXCEPT !.processed = @ \cup Parts(job), !.todo = @ + 1, !.pc = "dir_handler"]
  IN
  /\ job # Idle /\ job.pc = "multi"
  /\ IF Exists(d)
     THEN /\ fs' = WithTree(fs, d, Handler(job).tree)
          /\ Continue(w, Spawn([next EXCEPT !.extract_dirs = @ \cup {d}],
                               <<SubTask(d, job.task.depth + 1)>>))
     ELSE UNCHANGED fs /\ Continue(w, next)
  /\ UNCHANGED <<queue, results, host>>
WorkHere(w) ==
  \/ TakeTaskHere(w) \/ CarveUnknownHere(w) \/ CarveChunkHere(w)
  \/ CheckDirHere(w) \/ MakeDirHere(w) \/ ExtractHere(w) \/ SettleHere(w) \/ DeleteExtracted(w)
  \/ DirHandlerHere(w) \/ ExtractMultiHere(w) \/ Iterate(w)
HostHere == RemoveOldHere \/ PrepareReport \/ Register \/ WriteReport
NextHere == HostHere \/ (\E w \in Workers : WorkHere(w)) \/ Crash \/ Rerun \/ Over
HereSpec == Init /\ [][NextHere]_vars

-----------------------------------------------------------------------------
(* Where tasks are                                                         *)

\* The places of a task: k is the kind of the place, x the worker or the result and i the
\* index there.
At(k, x, i, p) ==
  \/ k = "queue" /\ x = 0 /\ i \in DOMAIN queue /\ p = queue[i].path
  \/ k = "work" /\ x \in Workers /\ work[x] # Idle /\ i = 0 /\ p = work[x].task.path
  \/ /\ k = "sub" /\ x \in Workers /\ work[x] # Idle
     /\ i \in DOMAIN work[x].subtasks /\ p = work[x].subtasks[i].path
  \/ k = "out" /\ x \in DOMAIN outbox /\ i = 0 /\ p = outbox[x].task.path
  \/ /\ k = "outsub" /\ x \in DOMAIN outbox
     /\ i \in DOMAIN outbox[x].subtasks /\ p = outbox[x].subtasks[i].path
  \/ k = "res" /\ x \in DOMAIN results /\ i = 0 /\ p = results[x].task.path

Tasked(p) == \E k, x, i : At(k, x, i, p)
Pending(p) == \E k, x, i : k \in {"queue", "sub", "outsub"} /\ At(k, x, i, p)
Done(p) == \E k, x, i : k \in {"out", "res"} /\ At(k, x, i, p)
Sub(w, p) == \E i : At("sub", w, i, p)
\* No path has two places.
Unique == \A k, x, i, l, y, j, p : At(k, x, i, p) /\ At(l, y, j, p) => k = l /\ x = y /\ i = j

-----------------------------------------------------------------------------
(* The inductive invariant                                                 *)

Path(w) == work[w].task.path
\* A worker that works on a file has the place beside it to itself once it has looked there.
Engaged(job) ==
  \/ job.pc \in {"unknown", "carve", "mkdir", "extract", "settle", "delete"}
  \/ job.pc = "check" /\ ~ Whole(job)
InRegion(w, p) ==
  /\ p \in Paths
  /\ Under(p, Path(w)) \/ (Engaged(work[w]) /\ Under(p, CarveDir(work[w])))
NoPiece(f, d) == \A p \in DOMAIN f : Under(p, d) => f[p] # "piece"

Plain(f) == Deleting => \A p \in DOMAIN f : f[p] \in Files /\ p # InputPath => Last(p).ext = 0

\* Nothing under a task that waits has a task.
PendingInv == \A d, p : Pending(d) /\ Tasked(p) /\ Under(p, d) => p = d
\* What a worker touches has no task but its own and those it is about to submit.
RegionInv ==
  \A w \in Workers : Busy(w) => \A p : Tasked(p) /\ InRegion(w, p) => p = Path(w) \/ Sub(w, p)
\* No carved piece gets a task.
CleanInv ==
  /\ \A d : Pending(d) => NoPiece(fs, d)
  /\ \A w \in Workers : Busy(w) => NoPiece(fs, Path(w))
\* What has a task is there, or was deleted after it.
Gone(f, p) == Done(p) /\ Last(p).ext = 0 /\ Room(f, p)
ExistInv == \A p : Tasked(p) => p \in DOMAIN fs \/ Gone(fs, p)

FilePcs == {"check", "mkdir", "extract", "settle", "delete", "unknown", "carve"}
FileLocal(w) ==
  LET job == work[w]
      c == CarveDir(job)
      d == Beside(job.src)
  IN
  /\ job.content \in Files /\ Path(w) \in DOMAIN fs /\ fs[Path(w)] = job.content
  /\ job.todo \in 1..Len(Chunks(job.content))
  /\ job.pc = "unknown" => c \notin DOMAIN fs /\ \A p : ~ Sub(w, p)
  /\ job.pc = "carve" => (c \in DOMAIN fs => fs[c] = "dir") /\ \A p : Sub(w, p) => Child(p, c)
  /\ job.pc \in {"check", "mkdir", "extract", "settle"} =>
       \/ Whole(job) /\ \A p : ~ Sub(w, p)
       \/ /\ job.src = ChunkPath(job, job.todo) /\ job.src \in DOMAIN fs /\ fs[job.src] = "piece"
          /\ \A p : Sub(w, p) => Child(p, c)
  /\ job.pc \in {"mkdir", "extract", "settle"} => ~ Sub(w, d) /\ NoPiece(fs, d)
  /\ job.pc = "mkdir" => d \notin DOMAIN fs
  /\ job.pc = "extract" => d \in DOMAIN fs /\ fs[d] = "dir" /\ Bare(fs, d)
  /\ job.pc = "delete" => /\ Whole(job) /\ config.delete # "none" /\ job.task.depth # 0
                          /\ \A p : Sub(w, p) => p = c
DirLocal(w) ==
  LET job == work[w] IN
  /\ Path(w) \in DOMAIN fs /\ fs[Path(w)] = "dir"
  /\ \A p : Sub(w, p) <=> p \in job.extract_dirs
  /\ \A p \in job.extract_dirs :
       /\ p \in DOMAIN fs
       /\ \E j \in 1..Len(DirHandlers) : p = Append(Path(w), Suffixed(DirHandlers[j].name))
  /\ IsFiniteSet(job.processed)
  /\ \A p \in job.processed :
       /\ p \in DOMAIN fs
       /\ \E j \in 1..Len(DirHandlers) : \E n \in DirHandlers[j].parts : p = Append(Path(w), n)
  /\ job.pc = "multi" => /\ job.todo <= Len(DirHandlers)
                         /\ MultiHere(job) \notin job.extract_dirs
                         /\ Bare(fs, MultiHere(job))
                         /\ MultiHere(job) \in DOMAIN fs => fs[MultiHere(job)] = "dir"
Local(w) ==
  /\ work[w].pc \in FilePcs => FileLocal(w)
  /\ work[w].pc \notin FilePcs => DirLocal(w)
LocalInv == \A w \in Workers : Busy(w) => Local(w)
\* The input is a file that stays; the rest is under its extraction directory.
RootFs(f) ==
  /\ InputPath \in DOMAIN f /\ f[InputPath] \in Files
  /\ Beside(InputPath) \in DOMAIN f => f[Beside(InputPath)] = "dir"
  /\ \A p \in DOMAIN f : p = InputPath \/ Under(p, Beside(InputPath))
RootInv ==
  /\ RootFs(fs)
  /\ \A p : Tasked(p) => p = InputPath \/ Under(p, Beside(InputPath))
  /\ \A x, i : ~ At("sub", x, i, InputPath) /\ ~ At("outsub", x, i, InputPath)
  /\ \A i \in DOMAIN queue : queue[i].path = InputPath => queue[i].depth = 0
  /\ \A w \in Workers : Busy(w) /\ Path(w) = InputPath => work[w].task.depth = 0
Quiet ==
  /\ phase # "run" => queue = <<>> /\ outbox = <<>> /\ \A w \in Workers : work[w] = Idle
  /\ phase \in {"start", "prepare"} => results = <<>>

IInv ==
  /\ TypeOK /\ FsOK(fs) /\ Plain(fs)
  /\ Unique /\ PendingInv /\ RegionInv /\ CleanInv /\ ExistInv
  /\ LocalInv /\ Quiet

Inv == IInv /\ RootInv

-----------------------------------------------------------------------------
(* What OldStays and RemovedIsExtracted need                               *)

\* With the output of an earlier run, the input is the only task and nothing is written.
OldInv ==
  /\ FsOK(old) /\ RootFs(old)
  /\ ~ config.force =>
       IF Beside(InputPath) \in DOMAIN old
       THEN /\ fs = old /\ \A p : Tasked(p) => p = InputPath
            /\ \A w \in Workers : Busy(w) => work[w].pc = "check" /\ Whole(work[w])
       ELSE fs[InputPath] = old[InputPath]

\* What a worker remembers of an extraction, and what it finds of it.
OutcomeFor(job, f) ==
  LET d == Beside(job.src) IN
  /\ job.pc \in {"mkdir", "extract", "settle", "delete"} => job.outcome = TheChunk(job).result
  /\ job.pc = "delete" => job.outcome # "error"
  /\ job.pc = "settle" /\ d \in DOMAIN f => f[d] = "dir"
  /\ job.pc \in {"settle", "delete"} /\ job.outcome # "silent" =>
       \A r \in DOMAIN TheChunk(job).tree : d \o r \in DOMAIN f
OutcomeInv == \A w \in Workers : Busy(w) => OutcomeFor(work[w], fs)

-----------------------------------------------------------------------------
(* What EntriesVisited needs                                               *)

\* What a job keeps to its end.
Carries(j, job) == j.task = job.task /\ j.content = job.content /\ job.reports \subseteq j.reports
\* A job on a file with one chunk, which is extracted beside it.
Single(job) == Whole(job) /\ job.pc \in {"check", "mkdir", "extract", "settle", "delete"}

Finished(r) == (\E i \in DOMAIN outbox : r = outbox[i]) \/ (\E i \in DOMAIN results : r = results[i])

\* The directories that get no task: what a worker carves into, and what it is just
\* extracting to, for which the task comes with the result.
Carves(job) ==
  /\ job.pc \in FilePcs
  /\ "CarveDirectory" \in job.reports \/ (Single(job) /\ job.pc \in {"extract", "settle"})
Carving(p) ==
  \/ \E r : Finished(r) /\ "CarveDirectory" \in r.reports /\ p = Beside(r.task.path)
  \/ \E w \in Workers : Busy(w) /\ Carves(work[w]) /\ p = CarveDir(work[w])

ReportInv ==
  \A w \in Workers : Busy(w) /\ work[w].pc \in FilePcs => Single(work[w]) \/ "CarveDirectory" \in work[w].reports
VisitedInv ==
  /\ ReportInv
  /\ \A r : Finished(r) /\ Listed(r) =>
       \A p \in DOMAIN fs : Child(p, r.task.path) => Tasked(p) \/ Carving(p)

-----------------------------------------------------------------------------
(* What NothingIsLost needs                                                *)

\* What is extracted of chunk i of a file, what stays of it, and the gaps that are carved.
From(x, i) == IF Pieces(x.content) = 1 THEN x.task.path ELSE ChunkPath(x, i)
Extracts(x, i) ==
  {Beside(From(x, i)) \o q :
     q \in {r \in DOMAIN Chunks(x.content)[i].tree : Chunks(x.content)[i].result # "silent"}}
Lefts(x, i) == {p \in {ChunkPath(x, i)} : Pieces(x.content) # 1 /\ Chunks(x.content)[i].result # "ok"}
Gaps(x) == {p \in UnknownPaths(x) : Pieces(x.content) # 1}

\* Of the first n chunks, everything is there.
Held(x, n, f) ==
  /\ \A p \in Gaps(x) : p \in DOMAIN f /\ f[p] = "piece"
  /\ \A i \in 1..n : \A p \in Extracts(x, i) : p \in DOMAIN f
  /\ \A i \in 1..n : \A p \in Lefts(x, i) : p \in DOMAIN f /\ f[p] = "piece"
\* The other chunks are not carved yet.
Ahead(x, n, f) == \A i \in 1..Len(Chunks(x.content)) : i > n => ChunkPath(x, i) \notin DOMAIN f

\* What a worker on a file has done so far.
JobKept(job, f) ==
  /\ job.content \in Files
  /\ Single(job) <=> Pieces(job.content) = 1
  /\ job.pc = "unknown" => job.todo = 1
  /\ job.pc = "carve" => Ahead(job, job.todo - 1, f)
  /\ ~ Single(job) /\ job.pc \in {"check", "mkdir", "extract", "settle"} => Ahead(job, job.todo, f)
  /\ ~ Single(job) /\ job.pc # "unknown" /\ "OutputExists" \notin job.reports => Held(job, job.todo - 1, f)
KeptInv ==
  \A w \in Workers : Busy(w) =>
    IF work[w].pc \in FilePcs THEN JobKept(work[w], fs) ELSE work[w].content = "dir"

Deleted(p) == \E r : Finished(r) /\ r.task.path = p /\ "Deleted" \in r.reports
Safe(r) ==
  /\ \A p \in Gaps(r) : p \in DOMAIN fs /\ fs[p] = "piece"
  /\ \A i \in 1..Len(Chunks(r.content)) : \A p \in Extracts(r, i) : p \in DOMAIN fs \/ Deleted(p)
  /\ \A i \in 1..Len(Chunks(r.content)) : \A p \in Lefts(r, i) : p \in DOMAIN fs /\ fs[p] = "piece"
SafeInv == \A r : Finished(r) /\ Processed(r) => Safe(r)

\* What a worker may remove is nothing that another one has extracted.
OwnInv ==
  \A w \in Workers : Busy(w) => \A r : Finished(r) /\ Processed(r) =>
    \A i \in 1..Len(Chunks(r.content)) :
      /\ work[w].pc \in {"mkdir", "extract", "settle"} => Beside(work[w].src) \notin Extracts(r, i)
      /\ work[w].pc \in {"check", "mkdir", "extract", "settle"} /\ ~ Whole(work[w]) =>
           work[w].src \notin Extracts(r, i)
LostInv == KeptInv /\ SafeInv /\ OwnInv

-----------------------------------------------------------------------------
(* What ForceStartsFresh needs                                             *)

\* The directories of the chunks that come after the n-th are not made yet.
DirsAhead(x, n, f) ==
  \A i \in 1..Len(Chunks(x.content)) : i > n => Beside(ChunkPath(x, i)) \notin DOMAIN f
\* A worker has met no directory where it extracts to, and will meet none.
JobFresh(job, f) ==
  /\ "OutputExists" \notin job.reports
  /\ ~ Single(job) /\ job.pc \in {"carve", "check"} => DirsAhead(job, job.todo - 1, f)
  /\ ~ Single(job) /\ job.pc \in {"mkdir", "extract", "settle"} => DirsAhead(job, job.todo, f)
\* A file that has its extraction directory was processed, or is at work.
Begun(p) == Done(p) \/ \E w \in Workers : Busy(w) /\ Path(w) = p /\ Engaged(work[w])
FilesFresh ==
  \A p \in DOMAIN fs : fs[p] \in Files =>
    /\ p # InputPath => FreeName(p)
    /\ Beside(p) \in DOMAIN fs => Begun(p)
\* With --force, a run starts without the old output and meets none of it.
FreshInv ==
  config.force =>
    /\ phase = "prepare" => Beside(InputPath) \notin DOMAIN fs
    /\ phase = "run" => FilesFresh
    /\ \A w \in Workers : Busy(w) => JobFresh(work[w], fs)
    /\ \A r : Finished(r) => "OutputExists" \notin r.reports

-----------------------------------------------------------------------------
(* What SpecImplementsHere needs                                           *)

\* No link has the name that a file beside it, or a multi-file, is extracted to.
LinksAside(f) ==
  \A l \in DOMAIN f : f[l] \in DOMAIN Links =>
    /\ \A p \in DOMAIN f : f[p] \in Files => l # Beside(p)
    /\ \A i \in 1..Len(DirHandlers) : Last(l) # Suffixed(DirHandlers[i].name)
\* A worker has remembered the directories beside its files, and carves into no link.
Remembers(job, f) ==
  /\ job.pc \in {"unknown", "carve"} \/ (job.pc \in FilePcs /\ ~ Whole(job)) =>
       /\ job.carve_dir = CarveDir(job)
       /\ \A p \in DOMAIN f : Child(p, CarveDir(job)) => f[p] \notin DOMAIN Links
  /\ job.pc \in {"mkdir", "extract", "settle", "delete"} => job.extract_dir = Beside(job.src)
  /\ job.pc = "multi" => job.extract_dir = MultiHere(job)
LinkInv == LinksAside(fs) /\ \A w \in Workers : Busy(w) => Remembers(work[w], fs)
=============================================================================
