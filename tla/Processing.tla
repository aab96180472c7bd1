----------------------------- MODULE Processing -----------------------------
(***************************************************************************)
(* process_file of python/unblob/processing.py: the tasks that recursively *)
(* extract an input file, run by several workers on one file system, and   *)
(* the runs of the program that follow a crash.                            *)
(*                                                                         *)
(* The pool is abstracted to what TaskPool promises: a queue of tasks, a   *)
(* worker per running task, a queue of results.  What the search, the      *)
(* layout and the extractors do with a file is given by its content.       *)
(***************************************************************************)
EXTENDS Naturals, Sequences, SequencesExt, FiniteSets, TLC

CONSTANTS
  Workers,
  Content,        \* content |-> [chunks, unknown (names of the gaps), skipped]
  DirHandlers,    \* sequence of [trigger, name, parts, tree, result]
  Links,          \* symbolic link |-> where it leads, from the directory that holds it
  Input,          \* the name of the input file
  Configs,        \* values of ExtractionConfig
  MaxRuns,        \* bound on the runs of the program
  Idle            \* a worker without a task

\* A name is a base and the number of "_extract" suffixes; a path is a sequence of names.
Names == [base : STRING, ext : Nat]
Paths == Seq(Names) \ {<<>>}
Suffixed(n) == [n EXCEPT !.ext = @ + 1]
\* the name that get_extract_dir_for and get_carve_dir_for ask for, with the default suffixes
Beside(p) == [p EXCEPT ![Len(p)] = Suffixed(@)]
Under(p, d) == IsPrefix(d, p)
Child(p, d) == Len(p) = Len(d) + 1 /\ Under(p, d)

Files == DOMAIN Content
\* the nodes of the file system: file contents, carved pieces, directories and the rest
Nodes == Files \cup {"piece", "dir", "special"} \cup DOMAIN Links

\* What an extractor makes of a chunk: files, in directories.
TreeOK(tree) ==
  /\ DOMAIN tree \subseteq Paths /\ IsFiniteSet(DOMAIN tree)
  /\ \A p \in DOMAIN tree : tree[p] \in Nodes \ {"piece"}
  /\ \A p \in DOMAIN tree : \A k \in 1..(Len(p) - 1) :
       SubSeq(p, 1, k) \in DOMAIN tree /\ tree[SubSeq(p, 1, k)] = "dir"
\* A chunk: its carved name, its handler, the files it extracts to, and how extracting
\* it ends: without an error, with a reported one, or with an unreported one.
ChunkOK(c) ==
  /\ DOMAIN c = {"name", "handler", "tree", "result"}
  /\ c.name \in Names
  /\ c.result \in {"ok", "error", "silent"}
  /\ TreeOK(c.tree)
\* carve_unknown_chunk, carve_valid_chunk: a piece is named after its place and its kind
PieceNames(c) ==
  /\ \A j \in 1..Len(c.chunks) : c.chunks[j].name.ext = 0 /\ c.chunks[j].name \notin c.unknown
  /\ \A j, k \in 1..Len(c.chunks) : c.chunks[j].name = c.chunks[k].name => j = k
  /\ \A n \in c.unknown : n.ext = 0
ContentOK(c) ==
  /\ c.unknown \subseteq Names /\ IsFiniteSet(c.unknown) /\ c.skipped \in BOOLEAN
  /\ c.chunks \in Seq(Range(c.chunks))
  /\ \A j \in 1..Len(c.chunks) : ChunkOK(c.chunks[j])
  /\ c.chunks = <<>> => c.unknown = {}      \* calculate_unknown_chunks
  /\ PieceNames(c)
ConfigOK(c) ==
  /\ c.force \in BOOLEAN /\ c.keep \in BOOLEAN /\ c.skip_extraction \in BOOLEAN
  /\ c.max_depth \in Nat
  /\ c.delete \in {"none", "selected", "all"}
  /\ c.report \in {"no", "yes", "unwritable"}

\* A handler of directories: the file it looks for, the files it takes, the name of what
\* they hold.
HandlerOK(h) ==
  /\ h.trigger \in Names /\ h.name \in Names
  /\ h.parts \subseteq Names /\ IsFiniteSet(h.parts)
  /\ TreeOK(h.tree)
  /\ h.result \in {"ok", "error", "silent"}

ASSUME ProcessingAssumption ==
  /\ Input \in Names
  /\ (Files \cup DOMAIN Links) \cap {"piece", "dir", "special"} = {}
  /\ Files \cap DOMAIN Links = {} /\ \A l \in DOMAIN Links : Links[l] \in Paths
  /\ \A c \in Files : ContentOK(Content[c])
  /\ DirHandlers \in Seq(Range(DirHandlers))
  /\ \A j \in 1..Len(DirHandlers) : HandlerOK(DirHandlers[j])
  /\ \A c \in Configs : ConfigOK(c)
  /\ MaxRuns \in Nat \ {0}

VARIABLES
  fs,         \* path |-> node: the output directory and the input file
  config,     \* the ExtractionConfig of this run
  phase,      \* "start", "prepare", "run", "done", "refused" or "crashed"
  report,     \* the report file: "none", "blank" or "written"
  queue,      \* submitted tasks
  work,       \* worker |-> Idle or what it is doing
  outbox,     \* results that are not yet registered
  results,    \* registered results, in order
  runs,       \* number of runs started
  old         \* the file system when the run started

vars == <<fs, config, phase, report, queue, work, outbox, results, runs, old>>
host == <<config, phase, report, runs, old>>

InputPath == <<Input>>
RootTask == [path |-> InputPath, depth |-> 0, multi |-> FALSE]
SubTask(p, d) == [path |-> p, depth |-> d, multi |-> FALSE]
MultiTask(p, d) == [path |-> p, depth |-> d, multi |-> TRUE]

Exists(p) == p \in DOMAIN fs
Without(f, S) == [p \in DOMAIN f \ S |-> f[p]]
\* the paths of S are made, where there is nothing yet
With(f, S, node) == [p \in DOMAIN f \cup S |-> IF p \in DOMAIN f THEN f[p] ELSE node]
\* mkdir(parents=True): a directory with those that lead to it
Branch(p) == Prefixes(p) \ {<<>>}
Makeable(p) == \A d \in Branch(p) : Exists(d) => fs[d] = "dir"
\* a tree is put into the directory d
WithTree(f, d, tree) ==
  LET new == {d \o r : r \in DOMAIN tree} IN
  [p \in DOMAIN f \cup new |-> IF p \in new THEN tree[SubSeq(p, Len(d) + 1, Len(p))] ELSE f[p]]

Init ==
  /\ \E c \in Files : fs = [p \in {InputPath} |-> c]
  /\ config \in Configs
  /\ phase = "start" /\ report = "none"
  /\ queue = <<>> /\ outbox = <<>> /\ results = <<>>
  /\ work = [w \in Workers |-> Idle]
  /\ runs = 1 /\ old = fs

-----------------------------------------------------------------------------
(* _get_output_path: a path is used as resolve() gives it                  *)

IsLink(f, p) == p \in DOMAIN f /\ f[p] \in DOMAIN Links
LinksOn(f, p) == {k \in 1..Len(p) : IsLink(f, SubSeq(p, 1, k))}
\* the first link on a path is followed
Follow(f, p) ==
  LET k == Min(LinksOn(f, p)) IN
  SubSeq(p, 1, k - 1) \o Links[f[SubSeq(p, 1, k)]] \o SubSeq(p, k + 1, Len(p))
\* ... until there is none; what leads in a circle is given up
Resolve(f, p) ==
  IF LinksOn(f, p) = {} THEN p
  ELSE LET after[n \in Nat] ==
             IF n = 0 THEN p
             ELSE IF LinksOn(f, after[n - 1]) = {} THEN after[n - 1] ELSE Follow(f, after[n - 1])
       IN after[Cardinality({q \in DOMAIN f : IsLink(f, q)})]

\* get_extract_dir_for, get_carve_dir_for
ExtractDir(p) == Resolve(fs, Beside(p))
\* exists() of a path that was resolved
Stands(p) == Exists(p) /\ ~ IsLink(fs, p)

-----------------------------------------------------------------------------
(* process_file                                                            *)

\* Mutants: the old output is removed without --force; --force leaves the directory itself.
RemoveAlways ==
  /\ phase = "start"
  /\ fs' = Without(fs, {p \in DOMAIN fs : Under(p, ExtractDir(InputPath))})
  /\ phase' = "prepare"
  /\ UNCHANGED <<config, report, queue, work, outbox, results, runs, old>>
RemoveContents ==
  /\ phase = "start"
  /\ fs' = IF config.force
           THEN Without(fs, {p \in DOMAIN fs : Under(p, ExtractDir(InputPath)) /\ Len(p) > 1})
           ELSE fs
  /\ phase' = "prepare"
  /\ UNCHANGED <<config, report, queue, work, outbox, results, runs, old>>

\* --force removes what an earlier run left
RemoveOld ==
  /\ phase = "start"
  /\ fs' = IF config.force THEN Without(fs, {p \in DOMAIN fs : Under(p, ExtractDir(InputPath))})
           ELSE fs
  /\ phase' = "prepare"
  /\ UNCHANGED <<config, report, queue, work, outbox, results, runs, old>>

\* prepare_report_file, then the first task is submitted
PrepareReport ==
  /\ phase = "prepare"
  /\ LET exists == config.report = "yes" /\ report # "none"
         refused == (exists /\ ~ config.force) \/ config.report = "unwritable"
     IN /\ report' = IF exists /\ ~ refused THEN "blank" ELSE report
        /\ queue' = IF refused THEN <<>> ELSE <<RootTask>>
        /\ phase' = IF refused THEN "refused" ELSE "run"
  /\ UNCHANGED <<fs, config, work, outbox, results, runs, old>>

\* process_result: the subtasks are submitted, then the result is registered
Register ==
  /\ phase = "run" /\ outbox # <<>>
  /\ queue' = queue \o Head(outbox).subtasks
  /\ results' = Append(results, Head(outbox))
  /\ outbox' = Tail(outbox)
  /\ UNCHANGED <<fs, work, host>>

\* write_json_report, whose failure is only logged
WriteReport ==
  /\ phase = "run"
  /\ queue = <<>> /\ outbox = <<>> /\ \A w \in Workers : work[w] = Idle
  /\ phase' = "done"
  /\ report' \in IF config.report = "yes" THEN {"written", report} ELSE {report}
  /\ UNCHANGED <<fs, config, queue, work, outbox, results, runs, old>>

\* the program is killed, with its workers
Crash ==
  /\ phase \in {"start", "prepare", "run"} /\ runs < MaxRuns
  /\ phase' = "crashed"
  /\ queue' = <<>> /\ outbox' = <<>> /\ results' = <<>>
  /\ work' = [w \in Workers |-> Idle]
  /\ UNCHANGED <<fs, config, report, runs, old>>

\* ... and is run again
Rerun ==
  /\ phase \in {"done", "refused", "crashed"} /\ runs < MaxRuns
  /\ config' \in Configs
  /\ phase' = "start" /\ results' = <<>>
  /\ runs' = runs + 1 /\ old' = fs
  /\ UNCHANGED <<fs, report, queue, work, outbox>>

-----------------------------------------------------------------------------
(* Processor.process_task, in a worker                                     *)

Job(t, c, pc) ==
  [task |-> t, content |-> c, pc |-> pc,
   todo |-> 1,            \* the chunk or the directory handler that comes next
   src |-> t.path,        \* carved_path
   carve_dir |-> t.path,  \* set for a file that is carved
   extract_dir |-> t.path,   \* set when something is extracted
   outcome |-> "ok", subtasks |-> <<>>, reports |-> {},
   processed |-> {}, extract_dirs |-> {}]
Report(job, r) == [job EXCEPT !.reports = @ \cup {r}]
Spawn(job, tasks) == [job EXCEPT !.subtasks = @ \o tasks]

Continue(w, job) == work' = [work EXCEPT ![w] = job] /\ UNCHANGED outbox
\* the worker returns the TaskResult
Return(w, job) ==
  /\ outbox' = Append(outbox, [task |-> job.task, content |-> job.content,
                               subtasks |-> job.subtasks, reports |-> job.reports])
  /\ work' = [work EXCEPT ![w] = Idle]

Chunks(c) == Content[c].chunks
Pieces(c) == Len(Chunks(c)) + Cardinality(Content[c].unknown)
Ignored(t) ==
  \/ t.depth >= config.max_depth \/ t.multi \/ fs[t.path] = "special" \/ IsLink(fs, t.path)
  \/ /\ fs[t.path] \in Files
     /\ LET c == fs[t.path] IN Content[c].skipped \/ Pieces(c) = 0 \/ config.skip_extraction

\* StatReport.from_path raises when the path is gone; _FileTask has the layout of the file
TakeTask(w) ==
  /\ phase = "run" /\ work[w] = Idle /\ queue # <<>>
  /\ queue' = Tail(queue)
  /\ LET t == Head(queue)
         job(pc) == Job(t, fs[t.path], pc)
     IN IF ~ Exists(t.path) THEN Return(w, Report(Job(t, "special", "none"), "UnknownError"))
        ELSE IF Ignored(t) THEN Return(w, job("none"))
        ELSE IF fs[t.path] = "dir" THEN Continue(w, job("dir_handler"))
        ELSE IF Pieces(fs[t.path]) = 1 THEN Continue(w, job("check"))
        ELSE IF Stands(ExtractDir(t.path))
        THEN Return(w, Report(Report(job("none"), "CarveDirectory"), "OutputExists"))
        ELSE Continue(w, Report([job("unknown") EXCEPT !.carve_dir = ExtractDir(t.path)],
                                "CarveDirectory"))
  /\ UNCHANGED <<fs, results, host>>

-----------------------------------------------------------------------------
(* _FileTask: carving                                                      *)

\* carve: the directory is made when it is not there, the file must not exist
Carve(w, job, files, next) ==
  IF files # {} /\ (~ Makeable(job.carve_dir) \/ \E p \in files : Exists(p))
  THEN Return(w, Report(job, "UnknownError")) /\ UNCHANGED fs
  ELSE /\ fs' = With(With(fs, IF files = {} THEN {} ELSE Branch(job.carve_dir), "dir"), files, "piece")
       /\ Continue(w, next)

CarveUnknown(w) ==
  LET job == work[w] IN
  /\ job # Idle /\ job.pc = "unknown"
  /\ Carve(w, job, {Append(job.carve_dir, n) : n \in Content[job.content].unknown},
           [job EXCEPT !.pc = "carve"])
  /\ UNCHANGED <<queue, results, host>>

CarveChunk(w) ==
  LET job == work[w]
      p == Append(job.carve_dir, Chunks(job.content)[job.todo].name)
  IN
  /\ job # Idle /\ job.pc = "carve"
  /\ Carve(w, job, {p}, [job EXCEPT !.pc = "check", !.src = p])
  /\ UNCHANGED <<queue, results, host>>

-----------------------------------------------------------------------------
(* _FileTask: _extract_chunk                                               *)

Whole(job) == job.src = job.task.path
TheChunk(job) == Chunks(job.content)[job.todo]
Advance(w, job) ==
  IF ~ Whole(job) /\ job.todo < Len(Chunks(job.content))
  THEN Continue(w, [job EXCEPT !.pc = "carve", !.todo = @ + 1])
  ELSE Return(w, job)

\* Mutant: the directory is not looked for.
SkipCheck(w) ==
  LET job == work[w]
      r == TheChunk(job).result
  IN
  /\ job # Idle /\ job.pc = "check"
  /\ Continue(w, [job EXCEPT !.outcome = r, !.extract_dir = ExtractDir(job.src),
                             !.pc = IF r = "silent" THEN "settle" ELSE "mkdir"])
  /\ UNCHANGED <<fs, queue, results, host>>

\* extraction is skipped when the directory exists; an encrypted chunk, or one without
\* an extractor, raises ExtractError without a report
CheckDir(w) ==
  LET job == work[w]
      d == ExtractDir(job.src)
      r == TheChunk(job).result
  IN
  /\ job # Idle /\ job.pc = "check"
  /\ IF Stands(d) THEN Advance(w, Report(job, "OutputExists"))
     ELSE Continue(w, [job EXCEPT !.outcome = r, !.extract_dir = d,
                                  !.pc = IF r = "silent" THEN "settle" ELSE "mkdir"])
  /\ UNCHANGED <<fs, queue, results, host>>

\* Handler.extract: outdir.mkdir(parents=True, exist_ok=False)
MakeDir(w) ==
  LET job == work[w]
      d == job.extract_dir
  IN
  /\ job # Idle /\ job.pc = "mkdir"
  /\ IF Exists(d) \/ ~ Makeable(d)
     THEN Continue(w, [job EXCEPT !.outcome = "error", !.pc = "settle"]) /\ UNCHANGED fs
     ELSE Continue(w, [job EXCEPT !.pc = "extract"]) /\ fs' = With(fs, Branch(d), "dir")
  /\ UNCHANGED <<queue, results, host>>

\* the extractor
Extract(w) ==
  LET job == work[w] IN
  /\ job # Idle /\ job.pc = "extract"
  /\ fs' = WithTree(fs, job.extract_dir, TheChunk(job).tree)
  /\ Continue(w, [job EXCEPT !.pc = "settle"])
  /\ UNCHANGED <<queue, results, host>>

\* Mutant: a file is deleted after an error.
DeleteFailed(job) == Whole(job) /\ job.task.depth # 0 /\ config.delete = "all"

\* _should_delete_extracted_file
ShouldDelete(job) ==
  /\ Whole(job) /\ job.outcome # "error" /\ job.task.depth # 0
  /\ \/ config.delete = "all"
     \/ config.delete = "selected" /\ TheChunk(job).handler \in config.filter
\* Mutant: a carved chunk is removed whatever became of it.
SettleRemoves(w) ==
  LET job == work[w]
      d == job.extract_dir
  IN
  /\ job # Idle /\ job.pc = "settle"
  /\ fs' = IF Whole(job) THEN fs ELSE Without(fs, {job.src})
  /\ Advance(w, IF Stands(d) THEN Spawn(job, <<SubTask(d, job.task.depth + 1)>>) ELSE job)
  /\ UNCHANGED <<queue, results, host>>

\* a carved chunk that was extracted is removed, as is an empty directory; what is in
\* the directory becomes a task, and what is not a directory cannot be listed
Settle(w) ==
  LET job == work[w]
      d == job.extract_dir
      empty == Stands(d) /\ fs[d] = "dir" /\ \A p \in DOMAIN fs : ~ Child(p, d)
      removed == (IF empty THEN {d} ELSE {})
                 \cup (IF ~ Whole(job) /\ job.outcome = "ok" /\ ~ config.keep THEN {job.src} ELSE {})
      reported == IF job.outcome = "error" THEN Report(job, "ExtractError") ELSE job
      spawned == IF Stands(d) /\ ~ empty THEN Spawn(reported, <<SubTask(d, job.task.depth + 1)>>)
                 ELSE reported
  IN
  /\ job # Idle /\ job.pc = "settle"
  /\ fs' = Without(fs, removed)
  /\ IF Stands(d) /\ fs[d] # "dir" THEN Return(w, Report(reported, "UnknownError"))
     ELSE IF ShouldDelete(job) THEN Continue(w, [spawned EXCEPT !.pc = "delete"])
     ELSE Advance(w, spawned)
  /\ UNCHANGED <<queue, results, host>>

\* _delete_extracted_file_if_needed
DeleteExtracted(w) ==
  LET job == work[w] IN
  /\ job # Idle /\ job.pc = "delete"
  /\ IF Exists(job.src) /\ fs[job.src] # "dir"
     THEN fs' = Without(fs, {job.src}) /\ Return(w, Report(job, "Deleted"))
     ELSE UNCHANGED fs /\ Return(w, job)
  /\ UNCHANGED <<queue, results, host>>

-----------------------------------------------------------------------------
(* _DirectoryTask                                                          *)

Handler(job) == DirHandlers[job.todo]
MultiDir(job) == ExtractDir(Append(job.task.path, Handler(job).name))
Triggered(job) == Exists(Append(job.task.path, Handler(job).trigger))
Parts(job) == {p \in {Append(job.task.path, n) : n \in Handler(job).parts} : Exists(p)}

\* Mutant: a handler that finds nothing is tried again.
DirHandlerAgain(w) ==
  LET job == work[w] IN
  /\ job # Idle /\ job.pc = "dir_handler" /\ job.todo <= Len(DirHandlers)
  /\ Triggered(job)
  /\ Continue(w, [job EXCEPT !.pc = "multi", !.extract_dir = MultiDir(job)])
  /\ fs' = With(fs, Branch(MultiDir(job)), "dir")
  /\ UNCHANGED <<queue, results, host>>

PartsDone(job) == [job EXCEPT !.processed = @ \cup Parts(job), !.todo = @ + 1, !.pc = "dir_handler"]

\* the handlers of directories look for their files; a conflict ends the task
DirHandler(w) ==
  LET job == work[w]
      d == MultiDir(job)
  IN
  /\ job # Idle /\ job.pc = "dir_handler" /\ job.todo <= Len(DirHandlers)
  /\ \/ /\ ~ Triggered(job)
        /\ Continue(w, [job EXCEPT !.todo = @ + 1]) /\ UNCHANGED fs
     \/ /\ Triggered(job)
        /\ IF Parts(job) \cap job.processed # {}
           THEN Return(w, Report(job, "MultiFileCollision")) /\ UNCHANGED fs
           ELSE IF Stands(d)
           THEN Return(w, Report(job, "MultiOutputExists")) /\ UNCHANGED fs
           ELSE IF Handler(job).result # "silent" /\ ~ Makeable(d)
           THEN Continue(w, Report(PartsDone(job), "MultiError")) /\ UNCHANGED fs
           ELSE /\ Continue(w, [job EXCEPT !.pc = "multi", !.extract_dir = d])
                /\ fs' = IF Handler(job).result = "silent" THEN fs ELSE With(fs, Branch(d), "dir")
  /\ UNCHANGED <<queue, results, host>>

ExtractMulti(w) ==
  LET job == work[w]
      d == job.extract_dir
      reported == IF Handler(job).result = "error" THEN Report(job, "MultiError") ELSE job
      next == PartsDone(reported)
  IN
  /\ job # Idle /\ job.pc = "multi"
  /\ IF Stands(d)
     THEN /\ fs' = WithTree(fs, d, Handler(job).tree)
          /\ Continue(w, Spawn([next EXCEPT !.extract_dirs = @ \cup {d}],
                               <<SubTask(d, job.task.depth + 1)>>))
     ELSE UNCHANGED fs /\ Continue(w, next)
  /\ UNCHANGED <<queue, results, host>>

\* Mutants: what a multi-file was extracted to is listed again; subdirectories are not.
IterateOver(w, Wanted(_, _)) ==
  LET job == work[w]
      children == {p \in DOMAIN fs : Child(p, job.task.path) /\ Wanted(job, p)}
      tasks == {SubTask(p, job.task.depth) : p \in children}
  IN
  /\ job # Idle /\ job.pc = "dir_handler" /\ job.todo > Len(DirHandlers)
  /\ \E order \in SetToSeqs(tasks) : Return(w, Spawn(job, order))
  /\ UNCHANGED <<fs, queue, results, host>>
IterateAll(w) == IterateOver(w, LAMBDA job, p : p \notin job.processed)
IterateFiles(w) == IterateOver(w, LAMBDA job, p : fs[p] # "dir")

\* _iterate_directory, in the order of iterdir(), and _iterate_processed_files
Iterate(w) ==
  LET job == work[w]
      children == {p \in DOMAIN fs : Child(p, job.task.path)}
      tasks == {SubTask(p, job.task.depth) : p \in children \ (job.extract_dirs \cup job.processed)}
      multi == {MultiTask(p, job.task.depth) : p \in job.processed}
  IN
  /\ job # Idle /\ job.pc = "dir_handler" /\ job.todo > Len(DirHandlers)
  /\ \E order \in SetToSeqs(tasks) : Return(w, Spawn(job, order \o SetToSeq(multi)))
  /\ UNCHANGED <<fs, queue, results, host>>

-----------------------------------------------------------------------------

Work(w) ==
  \/ TakeTask(w) \/ CarveUnknown(w) \/ CarveChunk(w)
  \/ CheckDir(w) \/ MakeDir(w) \/ Extract(w) \/ Settle(w) \/ DeleteExtracted(w)
  \/ DirHandler(w) \/ ExtractMulti(w) \/ Iterate(w)
Host == RemoveOld \/ PrepareReport \/ Register \/ WriteReport
Over == phase \in {"done", "refused"} /\ runs = MaxRuns /\ UNCHANGED vars

Next == Host \/ (\E w \in Workers : Work(w)) \/ Crash \/ Rerun \/ Over

Spec == Init /\ [][Next]_vars
LiveSpec == Spec /\ WF_vars(Host) /\ \A w \in Workers : WF_vars(Work(w))
-----------------------------------------------------------------------------
(* Properties.                                                             *)

Pcs == {"check", "mkdir", "extract", "settle", "delete", "unknown", "carve", "dir_handler", "multi"}
Reports == {"UnknownError", "CarveDirectory", "OutputExists", "ExtractError", "Deleted",
            "MultiFileCollision", "MultiOutputExists", "MultiError"}
Tasks == [path : Paths, depth : Nat, multi : BOOLEAN]
Jobs ==
  [task : Tasks, content : Nodes, pc : Pcs, todo : Nat \ {0}, src : Paths,
   carve_dir : Paths, extract_dir : Paths,
   outcome : {"ok", "error", "silent"}, subtasks : Seq(Tasks), reports : SUBSET Reports,
   processed : SUBSET Paths, extract_dirs : SUBSET Paths]
ASSUME IdleAssumption == Idle \notin Jobs
TaskResults == [task : Tasks, content : Nodes, subtasks : Seq(Tasks), reports : SUBSET Reports]
FileTree(f) == DOMAIN f \subseteq Paths /\ IsFiniteSet(DOMAIN f) /\ f \in [DOMAIN f -> Nodes]
TypeOK ==
  /\ FileTree(fs) /\ FileTree(old)
  /\ queue \in Seq(Tasks) /\ outbox \in Seq(TaskResults) /\ results \in Seq(TaskResults)
  /\ config \in Configs
  /\ phase \in {"start", "prepare", "run", "done", "refused", "crashed"}
  /\ report \in {"none", "blank", "written"}
  /\ work \in [Workers -> Jobs \cup {Idle}]
  /\ runs \in 1..MaxRuns

\* No handler of directories takes what another extracts to.
PartsApart ==
  \A i, j \in 1..Len(DirHandlers) : Suffixed(DirHandlers[i].name) \notin DirHandlers[j].parts
\* With --delete-extracted, no extracted file has the name of an extraction directory: the
\* file could be gone when something is extracted to that place.
Deleting == \E c \in Configs : c.delete # "none"
PlainTree(tree) == \A r \in DOMAIN tree : tree[r] \in Files => Last(r).ext = 0
DeletesApart ==
  Deleting => /\ \A c \in Files : \A j \in 1..Len(Chunks(c)) : PlainTree(Chunks(c)[j].tree)
              /\ \A j \in 1..Len(DirHandlers) : PlainTree(DirHandlers[j].tree)
\* No extracted link has the name of the directory that a file beside it is extracted to,
\* nor of one that a handler of directories extracts to.
LinksApartIn(tree) ==
  \A l \in DOMAIN tree : tree[l] \in DOMAIN Links =>
    /\ \A r \in DOMAIN tree : tree[r] \in Files => l # Beside(r)
    /\ \A i \in 1..Len(DirHandlers) : Last(l) # Suffixed(DirHandlers[i].name)
LinksApart ==
  /\ \A c \in Files : \A j \in 1..Len(Chunks(c)) : LinksApartIn(Chunks(c)[j].tree)
  /\ \A j \in 1..Len(DirHandlers) : LinksApartIn(DirHandlers[j].tree)
\* What the names of extracted files must be for the properties below to hold.
NamesApart == PartsApart /\ DeletesApart /\ LinksApart
\* A name that no handler of directories gives to what it extracts.
FreeName(p) == \A i \in 1..Len(DirHandlers) : Last(p) # DirHandlers[i].name
\* What is extracted holds no file beside the directory that it would be extracted to.
FreshTree(tree) ==
  \A r \in DOMAIN tree : tree[r] \in Files => Beside(r) \notin DOMAIN tree /\ FreeName(r)
\* The condition on names for ForceIsFresh: an image that holds a file and, beside it, an
\* entry named like its extraction directory makes _extract_chunk report OutputExists.
FreshNames ==
  /\ \A c \in Files : \A i \in 1..Len(Chunks(c)) : FreshTree(Chunks(c)[i].tree)
  /\ \A i \in 1..Len(DirHandlers) : FreshTree(DirHandlers[i].tree)

Ran(s) == [j \in 1..Len(s) |-> s[j].task.path]
Busy(w) == work[w] # Idle

\* No path gets two tasks, so that no blob is extracted twice, and no two workers
\* ever work on the same path.
OneTaskPerPath ==
  LET paths == [j \in 1..Len(queue) |-> queue[j].path] \o Ran(outbox) \o Ran(results) IN
  /\ IsInjective(paths)
  /\ \A w \in Workers : Busy(w) => work[w].task.path \notin Range(paths)
  /\ \A v, w \in Workers : v # w /\ Busy(v) /\ Busy(w) => work[v].task.path # work[w].task.path

\* A worker never finds its output directory made by someone else between the check
\* and its mkdir, nor a carved file there: process_task fails for no such reason.
NoInterference ==
  \A w \in Workers : Busy(w) =>
    /\ work[w].pc = "mkdir" => ~ Exists(work[w].extract_dir)
    /\ work[w].pc = "unknown" => ~ Exists(work[w].carve_dir)
    /\ Exists(work[w].task.path)

\* Without --force, a run leaves alone what it found in the output directory.
OldUntouched ==
  ~ config.force => \A p \in DOMAIN old : Exists(p) /\ fs[p] = old[p]

\* With --force, nothing that an earlier run left keeps a file from being extracted.
ForceIsFresh ==
  config.force => \A r \in Range(results) : "OutputExists" \notin r.reports

\* A file is removed only from the extraction directory (the input never is), and only
\* when everything in it has been extracted.
FullyExtracted(job) ==
  /\ TheChunk(job).result = "ok"
  /\ \A r \in DOMAIN TheChunk(job).tree : Exists(job.extract_dir \o r)
RemovedMeansExtracted ==
  [][\A p \in DOMAIN fs \ DOMAIN fs' : phase = "run" /\ fs[p] # "dir" =>
       /\ Under(p, Beside(InputPath))
       /\ \E w \in Workers : Busy(w) /\ work[w].src = p /\ FullyExtracted(work[w])]_vars

\* When the run is over, everything that was found in a file that was processed is
\* there: the pieces or what they were extracted to.
CarveDir(job) == Beside(job.task.path)
ChunkPath(job, k) == Append(CarveDir(job), Chunks(job.content)[k].name)
UnknownPaths(job) == {Append(CarveDir(job), n) : n \in Content[job.content].unknown}
ResultOf(p) == {r \in Range(results) : r.task.path = p}
Kept(p) == Exists(p) \/ \E r \in ResultOf(p) : "Deleted" \in r.reports
TreeKept(d, tree) == \A r \in DOMAIN tree : Kept(d \o r)
Processed(r) ==
  /\ r.content \in Files /\ ~ Content[r.content].skipped
  /\ r.task.depth < config.max_depth /\ ~ r.task.multi /\ ~ config.skip_extraction
  /\ "OutputExists" \notin r.reports
ChunkKept(r, p, c) == c.result = "silent" \/ TreeKept(Beside(p), c.tree)
NothingLost ==
  phase = "done" => \A r \in Range(results) : Processed(r) =>
    IF Pieces(r.content) = 1
    THEN ChunkKept(r, r.task.path, Chunks(r.content)[1])
    ELSE /\ \A p \in UnknownPaths(r) : Exists(p)
         /\ \A j \in 1..Len(Chunks(r.content)) :
              LET c == Chunks(r.content)[j] IN
              /\ ChunkKept(r, ChunkPath(r, j), c)
              /\ Exists(ChunkPath(r, j)) \/ c.result = "ok"

\* ... and every entry of every directory that was processed has had its task, unless
\* it is a carve directory.
IsCarveDir(p) == \E r \in Range(results) : "CarveDirectory" \in r.reports /\ Beside(r.task.path) = p
Listed(r) ==
  /\ r.content = "dir" /\ r.task.depth < config.max_depth /\ ~ r.task.multi
  /\ r.reports = {}
AllVisited ==
  phase = "done" => \A r \in Range(results) : Listed(r) =>
    \A p \in DOMAIN fs : Child(p, r.task.path) => ResultOf(p) # {} \/ IsCarveDir(p)

\* A run ends, however deep its files are nested in themselves.
RunEnds == []<>(phase \in {"done", "refused", "crashed"})
=============================================================================
