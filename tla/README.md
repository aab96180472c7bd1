# A TLA+ model of unblob

unblob takes a binary file, finds the pieces in it whose format it knows
(*chunks*), carves them out, extracts them with a handler, and does the same with
everything it extracted, recursively, with several worker processes.  The modules
here model that machinery (`python/unblob/pool.py`, `finder.py`, `processing.py`
and the parts of `models.py` and `extractor.py` they use), `calculate_chunk` of the
handlers, the extractors that rebuild a file system through `file_utils.FileSystem`,
and one run of the program from `main` to its exit status.  TLC checks them on small
instances and TLAPS proves the main results for every value of the constants.

## 1. Inventory

| Component | State | Operations | Interacts with |
|---|---|---|---|
| **MultiPool** `pool.py` | input queue with its counter of unfinished tasks, output pipe, locks, lifeline pipe, worker processes | `start`, `submit`, `process_until_done`, `close`, `_worker_process` | the callback of `_process_task` submits subtasks from inside the result loop |
| **SinglePool** `pool.py` | the call stack | `submit`, `process_until_done` | the same callback, recursively |
| **Finder** `finder.py` | scan position, stream offset, list of chunks | `search_chunks`, `_hyperscan_match`, `stream_scan_chunks` | `calculate_chunk` of every handler; the Hyperscan stream |
| **Layout** `processing.py` | outer and unknown chunks | `remove_inner_chunks`, `calculate_unknown_chunks` | the finder's list; carving |
| **Recursive extraction** `processing.py`, `extractor.py` | the output directory, task results, report file | `process_file`, `process_task`, `_FileTask`, `_DirectoryTask`, deletion of extracted files | workers share the file system only; the pool carries tasks and results |
| **Command extractor** `extractors/command.py` | none | `extract`: run, time out, report | `Handler.extract`, `ExtractError` |
| **Python extractors** in the handlers | directory stacks, log tables, the parsed image | `extract`: carve by a table of contents, or rebuild a tree | `FileSystem`, `carve_chunk_to_file` |
| **Extraction file system** `file_utils.py` | files below an output root, problems | `write_bytes`, `write_chunks`, `carve`, `mkdir`, `mkfifo`, `mknod`, `create_symlink`, `create_hardlink`, `open`, `unlink`, `rmdir`, `rename`, `truncate`, `utime`, `chmod`, xattrs | used by the Python extractors |
| **Reports, exit code** `report.py`, `models.py`, `cli.py` | lists of reports | `errors`, `to_json`, `get_exit_code_from_reports` | everything above |
| **Command line** `cli.py` | none | `main`, `cli` | plugins, sandbox, `process_file` |
| **Handlers** `handlers/**` | the cursor in the file | `calculate_chunk`, `calculate_multifile` | the finder and the directory task |
| **Sandbox** `sandbox.py`, `rust/src/sandbox` | a daemon thread, access rules | `run` | wraps `process_file` |
| **HexString** `parser.py` | none | pattern to regular expression | the Hyperscan database |
| Plugins, dependencies, logging, documentation, entropy | start-up or formatting only | | |

What is hard here: the pool (several processes, two queues with locks, signals, a
lifeline, exceptions in the middle of closing); the finder, which restarts a stream
scanner at offsets that untrusted headers decide; the layout, whose exception gives
up a whole file; the shared file system, where a worker's output directory, a
sibling file of the same name, an earlier crashed run and the deletion of extracted
files meet; the loops of some seventy handlers over lengths that the image decides;
the extractors, for which links, repeated names and cycles come from the image; and
Ctrl-C, which ends the main thread while the job goes on in another one.  `PROJECT.json` lists each hazard with its line and the properties aimed at it.

## 2. Modules

| Module | Models | Remarks |
|---|---|---|
| `TaskTree` | the tasks one input file creates | a tree: `Children[t]` are the subtasks in the result of `t` |
| `TaskPool` | what a pool promises `_process_task` | abstract specification |
| `MultiPool` | `MultiPool`, `_worker_process`, the result callback | one action per blocking operation; implements `TaskPool` |
| `SinglePool` | `SinglePool` | the stack of callbacks; implements `TaskPool` |
| `Chunks` | `Chunk`: `contains`, `contains_offset`, validity | shared by the next three |
| `Finder` | `search_chunks` | a file is its size and its matches, a match carries the chunk the handler calculates there |
| `Layout` | `remove_inner_chunks`, `calculate_unknown_chunks` | the loops are actions, so that invariants describe what they compute |
| `FileScan` | `_FileTask.process` up to carving | composes `Finder` and `Layout` |
| `Processing` | `process_file` and the workers on the file system, crashes, reruns | the pool is abstracted to what `TaskPool` promises |
| `Reader` | `File`, `StructParser`, and the ways a calculation ends | the cursor, the end of the file, the chunk; shared by the next four |
| `ArchiveHandlers` | ar, arc, arj, cab, rar, 7z, StuffIt, dmg, partclone, par2, tar, zip, msi | |
| `VendorHandlers` | airoha, autel, D-Link, EnGenius, HP, Instar, Moxa, Netgear, QNAP, Tesla, Xiaomi | with their extractors |
| `CompressionHandlers` | gzip, zlib, lzma, compress, lzo, lz4, zstd, qnx, lzh, uzip, xalz, lzip, bzip2, xz | |
| `FilesystemHandlers` | cramfs, ext, FAT, ISO 9660, NTFS, UBI, EROFS, MINIX, UFS, SquashFS, JFFS2, sparse, btrfs stream, ROMFS, YAFFS, cpio, ELF | |
| `Handlers` | all of them, at one offset of one file | composes the four; what the finder relies on |
| `ExtractFS` | `FileSystem`, `_FSPath`, `_FSLink`, path lookup | every operation as a function of the tree and the problems |
| `Extraction` | an arbitrary extractor, the btrfs replay, cpio's `dump_entries` | |
| `InodeWalk` | MINIX, UFS and ROMFS extraction | the recursion is a stack of directories |
| `Yaffs` | the YAFFS parser and extractor | with a driver that writes the log |
| `Extractors` | one run of any of them | composes the three; the disks and images are constants |
| `Invocation` | `main`, `cli`, `Sandbox.run`, `start` and `close` of the pool, exit | two threads, the workers, the interpreter's shutdown |
| `ProcessingInv` | | the inductive invariants of `Processing`, and the program without links (`HereSpec`) |
| `HereProofs` | | the lemmas about `HereSpec` |
| `MultiPoolProofs`, `SinglePoolProofs`, `LayoutProofs`, `FileScanProofs` (with the finder's), `ProcessingProofs`, `ExtractionProofs`, `InvocationProofs` | | theorems |
| `MC*` | | instances for TLC |

**MultiPool.** `pc` is the host's place in `_process_task`, `process_until_done` or
`close`; `wpc[w]` the place of a worker in `_worker_process`.  The input
`JoinableQueue` is `input`, of which the feeder thread has written `flushed` items to
the pipe; `unfinished` is its semaphore, `inLock` its reader lock.  The output
`SimpleQueue` is `outq` (complete messages, at most `OutCap`), `partial` (the
beginning of a message larger than one pipe write is there) and `outLock`.  A killed
worker keeps the locks it holds, as an operating system semaphore does.  `Interrupt`
is an exception in the result loop, `InterruptClose` one inside `close`, `HostCrash`
the death of the host, after which only the lifeline can stop the workers.

**Finder.** The Hyperscan stream is external: after a reset it reports the matches
that begin in the stream and end in the data scanned so far, by increasing end.
`real_offset`, the skip rules and the restart are the code's.  The two rules a handler
must keep are stated as `Advances` (the chunk ends behind the beginning of its match)
and `StartsThere` (it starts where `calculate_chunk` was asked to look).  Nothing in
the code enforces them.

**Layout.** `sorted` is any rearrangement in order, so ties are resolved in all ways.
`raised` stands for the `InvalidInputFormat` of an `UnknownChunk` with start > end.

**Processing.** A path is a sequence of names, a name a base and a number of
`_extract` suffixes: the output directory of `x` and an archived file called
`x_extract` have the same path, which is where workers can meet.  A file has a
content; `Content` says which chunks and gaps it has, which tree each chunk extracts
to, and how the extraction ends: `ok`, `error` (an exception or report), `silent`
(`ExtractError` without a report: encrypted, or no extractor).  A worker's step is
one file system access (or a group no other task can see between): the check for the
output directory and the `mkdir` are separate steps, carving is separate from
extraction, deletion from extraction.  `Crash` may come between any two; `Rerun`
starts the program again on what is left, with any configuration.  Extracted links stay
where they are, and `_get_output_path` follows them: `ExtractDir` is `Resolve` of the name
with its suffix in the file system of the moment, and a worker keeps what it got
(`extract_dir`, `carve_dir`) until it uses it.  A directory `Stands` when the resolved path
exists; a dangling link resolves to a path that does not.  `Links` says where a link leads
from its own directory, always further down: links that lead up, or to an absolute path,
are not modelled here (that none of them leads an extractor out of its directory is the
subject of `Extraction`).  What leads in a circle resolves to the link itself, as in Python
3.13 and later; earlier ones raise.

**Handlers.** `scan` is one call of `calculate_chunk`: the handler, where it is in its
code (`at`), the cursor `pos`, the parsed fields it still needs, the entries counted so
far, and how far the structures it has accepted `reach`.  One action is the parse of one
structure with the checks and the seek that follow, so a loop over members is a loop of
steps.  A header is a record of fields with values from `Fields`; structures are one unit
long, alignments are scaled to two or four units, and what a checksum or a decompressor
answers is a choice.  `ShortRead` is the `EOFError` of a structure at the end of the file:
formats that catch it have an action of their own.  `to` is the end the code returns,
computed as the code does.  Most handlers return the value of a field, or the cursor behind
the last structure; there is nothing to compare such an end with.  Four others end where they stopped
reading: ar winds back from a header it could not read, SHRS and zlib
read whole buffers, ROMFS reads past its padding.  For these `reach` is where the
data that their headers describe end, set from the headers and the stream and not from
the cursor, and `EndsWhereRead` compares the two.  `carved` is what an extractor cuts out of
the chunk, by its own reading of the header.

**Extraction.** A tree maps locations (sequences of names below the output root) to
files, directories, links, fifos and devices.  `Follow` and `NoFollow` are the kernel's
lookups with links and `..`, `Resolve` is Python's `Path.resolve`: all three are one
recursive walk (`WalkStep`) that follows at most `MaxLinks` links; a lookup that leaves the root is noted as `Outside`, which
is what `Contained` excludes.  `is_safe_path` resolves a path at the moment of use,
`FSPath` sends the unsafe ones to lost+found, and each operation ends with the tree, an
`OSError` or a problem.  `job` is the extractor: `client` makes any calls, the others
are the loops of the real ones over an image from a small set.  Whether the process is
root is a choice (`mknod`).  For btrfs and YAFFS the writer of the image is modelled
too (`SentTree`, `WriterStep`), so that the extracted tree has something to be compared with.

**Invocation.** `main` and `job` are the places of the two threads; without the sandbox
the job runs in the main thread.  `closing[t]` is the place of thread `t` in `close()`:
the test of `_running`, its assignment with `atexit.unregister`, the stopping and the
join are separate steps, since two threads may be in it.  What the pool does in between
is `MultiPool`'s subject; here a worker is `new`, `working`, `told` or `gone`.

**Mutants.** Operators introduced by a comment `Mutant:` are wrong versions of the
definition that follows them.  No specification uses them; each is there to show
that the property named with it in `PROJECT.json` fails when the code has that mistake.

## 3. Runs

| Run | Bounds | What it shows |
|---|---|---|
| `multi_pool` | 2 workers, 4 tasks in 3 levels, one of them with a large result, pipes that hold 1 item, 1 kill, host interrupted or killed anywhere | `EachTaskOnce`, `UnfinishedIsExact`, `DoneMeansComplete`, `ParentFirst`; refinement of `TaskPool`; `Termination` without faults, with every worker exited by itself; `InterruptedCloses`, `NoOrphans`, `DeathNoticed` |
| `torn_result` | the same, no host faults | violates `DeathAlwaysNoticed` |
| `single_pool` | 7 tasks in 3 levels | refinement of `TaskPool` |
| `file_scan` | all files of 4 bytes with 1 to 3 matches of length 1 or 2, blocks of 2 bytes, handlers that keep the rules | `Laminar`, `NothingMissed`, `ScanAdvances`, `NeverRaised`, `Accounted` |
| `iso9660` | chunks as the ISO 9660 handler computes them | violates `ScanAdvances` |
| `layout` | all lists of up to 3 chunks of 5 bytes | `OuterAreMaximal`, `Tiled`, `RaisedMeansOverlap` |
| `processing` | 2 workers, 18 kinds of input, one of them with a link, 3 configurations, depth up to 3 | `OneTaskPerPath`, `NoInterference`, `NothingLost`, `AllVisited`, `RunEnds` |
| `reruns` | 2 runs, 18 configurations, 7 kinds of input | `OldUntouched`, `ForceIsFresh`, `RemovedMeansExtracted` |
| `encrypted_deleted` | deletion with encrypted files | violates `RemovedMeansExtracted` |
| `handlers` | files of 2 and 6 units, start 0 or 1, every header field 0, 1 or 3, 2 entries | `EndsWhereRead`, `EndsInFile`, `Obeys` (the finder's rules), `CarvesInside` (handler and extractor agree), `CalculationEnds` |
| `extraction` | 3 calls, 4 stream commands, 3 cpio entries, 10 disks, 4 ROMFS images, logs of 4 pages over 2 objects | `Contained`, `LossIsReported`, `LastEntryWins`, `WalkIsComplete`, `LatestHeaderHolds`, `WalkEnds` |
| `invocation` | 2 workers, 2 results, one Ctrl-C at any step, failing start-up and fork | `ExitCodeTells`, `InterruptEnds` |

Why these bounds suffice: two workers give every pairwise race over the locks, the
pipes and the paths, and a pipe of one item makes every writer block.  In the task
tree one task has two subtasks and one a subtask of its own, so results overtake each
other.  Blocks of two bytes make patterns, gaps and chunks begin, end and straddle at
every phase; three chunks are the least for "contained in a kept chunk that is not the
last one".  A handler that looks two bytes before its pattern is the least that finds
a chunk around an earlier one: with one byte the start would lie in the earlier chunk
and the match be skipped.  A field of 0, 1 or 3 in a file of six units is nothing, one
unit, more than an alignment, and (twice, or behind an offset) more than is left; two
entries show what the loop carries from one to the next.  Three calls are a link, a
directory through it and a file below that, the shortest way out if a check were
missing; the disks hold one case each (a directory in itself, in two places, a name
twice, an entry without inode, holes).  The theorems of section 5 remove the bounds for the pools, the finder,
the layout, most of the recursive extraction and, for `Contained`, all extractors.

### What the violations say

* `torn_result`: `process_until_done` looks at the deaths before it reads, then blocks
  in `self._output.get()`.  A worker killed between two writes of a large result
  leaves the host there for ever, where `test_multipool_worker_death` expects
  `WorkerDiedError`.
* `iso9660`: the size comes from the header and the start is moved back by the system
  area, so the chunk can end before the match and the scan never gets past it.
* `encrypted_deleted`: success is the absence of error reports, so
  `--delete-extracted-files` deletes an encrypted file that was never extracted.

### What modelling showed besides

The models contain the following, and the properties say where they had to leave it out.

*Pool and program.*
* With `--delete-extracted-files`, an archived file `x_extract` next to `x` is extracted
  and deleted, after which the path is free for the output of `x`: whether `x` is
  extracted depends on which worker comes first, and the path can get two tasks.
  `reruns` and `processing` do not combine clashing names with deletion (`DeletesApart`).
* A directory handler that takes as a part the directory another one extracted to gives
  it two tasks, one of them `multi`; no handler of the repository does (`PartsApart`).
* With `process_num=1` the results are registered innermost first (`SinglePool`), but
  `ProcessResult.get_output_dir` (models.py:328) reads `results[0]` as the top result.
* Between `_running = True` and `atexit.register` (pool.py:141-147) a Ctrl-C without
  sandbox or a failing `fork` leaves workers that nobody tells to quit, and that
  multiprocessing's exit function joins for ever; so does a Ctrl-C in `close()` between
  `unregister` and `try`.  With the sandbox a Ctrl-C before the registration waits for
  the run to end.  `InterruptEnds` begins at the registration.  Two threads in `close()`
  are harmless: the second `os.close` of the lifeline raises after all is done.
* A run refused by `prepare_report_file` exits with 0, after `--force` has removed the
  old output (processing.py:144-158).
* Errors of multi-file extractions do not reach the exit status: `errors`
  (models.py:301) opens `ChunkReport`s only.
* A command that times out is reported as `UnknownError`: `ExtractorTimedOut` wants a
  string and gets the argument list (command.py:87).

*Links.*
* `_get_output_path` resolves the path below the extraction root (processing.py:123).  An
  archive that holds `x`, `y` and a link `y_extract` to `x_extract` gives both files one
  extraction directory: both workers see that it is not there, the second `mkdir` fails,
  and which file is extracted depends on the timing.  TLC finds it when `MCProcessing` is
  run with `Content <- LinkedContent`: `NoInterference` is violated.  With a link to a
  place that another task lists, that place gets two tasks.  `LinksApart` is the condition
  that excludes both: no link of an extracted tree has the name of the extraction directory
  of a file beside it, or of a multi-file.  Nothing in the code enforces it.

*Finder and layout.*
* Overlapping chunks are not discarded, as `docs/index.md:54` says, but only contained
  ones.  The dmg and QNAP networking handlers compute the start from a trailer; a chunk
  that overlaps an earlier one partially makes the whole file fail (`Obeys` names the two,
  `NeverRaised` needs handlers without trailers).

*Handlers.*
* `README.md:24` of the repository promises the end of a chunk "according to the format
  standard".  SHRS takes the rest of the last buffer of 1024 bytes into the chunk
  (shrs.py:108).  zlib reads the next buffer before it looks at `eof` (zlib.py:78): a
  stream that ends in the last byte of a buffer takes the whole following one with it.
  ROMFS drops the result of `read_until_past` (romfs.py:375) and takes the cursor, one
  byte later; YAFFS does the same (yaffs.py:770).  `ReadsOn` is how much that is:
  `EndsWhereRead` says that it is never more, and that nothing is lost.
* An ar archive followed by fewer bytes than a header, at the end of the file, ends in the
  middle of its last member, since the code winds back a whole header (ar.py:104); SHRS
  seeks back by the size it asked for, though less was hashed.  `EndsWhereRead` leaves
  these two out (`SeeksTooFar`).
* compress says itself that the end of a stream cannot be told to the byte
  (compress.py:16-27); no property is about it.
* SHRS (shrs.py:107) never leaves its loop when the file is shorter than `file_size`;
  `CalculationEnds` leaves it out.
* A truncated later gzip member raises `EOFError`, and the complete members before it
  are lost with the chunk.
* The handlers in `TrustsHeader` take the end from a field that nothing bounds, and
  leave it to the finder to drop the chunk (trx and hdr too: their checksum is taken over
  what a short read gives); the extractors in `TrustsOffsets` cut where a
  table says, also outside of the chunk.

*Extractors.*
* YAFFS keeps obsolete data chunks in some logs, although the comments of `get_chunks`
  (yaffs.py:568) exclude it; `LatestHeaderHolds` asks for the content only of files that
  were not rewritten.
* MINIX stops at a hole in any list of zones, so the data behind it is shifted or lost:
  `WalkIsComplete` is about its files without holes (`Solid`), and about UFS files whose
  holes are data blocks (`Mapped`).  `read_indirect_blocks` (ufs.py:394) ends the file at the
  first of the three indirect pointers that is 0, and passes over a pointer of 0 inside a
  block of pointers to blocks of pointers; only where a data block is missing does it put
  zeros.  A sparse file loses its tail, or the data behind the hole move forward, although
  the comments (ufs.py:388, 412) say that it reads as zeros.  UFS and cramfs walks
  have no set of visited directories and end a cycle with an exception; a ROMFS chain of
  siblings that leads back is walked for ever (`ChainsEnd` leaves those images out).
* Problems recorded by the cpio, MINIX, deafbead, fpkg and Moxa extractors are dropped:
  their `extract` returns `None`.  `LossIsReported` is about the problems recorded.

## 4. Fairness

`MultiPool`: weak fairness of the host's steps as one process, of the feeder thread,
of each worker as one process, and of delivered signals and a closed lifeline: the
operating system schedules every process that can run, and a handler returns.  Who
gets a free lock is left open; no fairness for faults.  `CHECK_DEADLOCK` is off for
MultiPool because the torn result really stops the system.  `FileScan` and
`Processing`: weak fairness of the sequential code of each process.  `Handlers`,
`Extraction`: weak fairness of the one thread there is.  `Invocation`: of each thread, and
of a worker that was told to quit; none for the end of a task, which may take twelve hours
(`COMMAND_TIMEOUT`), so that `InterruptEnds` cannot rely on it.  Deadlock is not checked
where a run or a calculation ends.

## 5. Proofs

* `MultiPoolProofs`, from `TasksAssumption` (the tasks form a tree) and
  `PoolAssumption` (at least one worker, finitely many; positive capacities).  The
  properties are not inductive alone: a task in the input queue may be repeated later
  if nothing says where the others are.  The invariant `IInv` adds `Placed` (every
  task that is anywhere was submitted), `Tree` (the submitted tasks are exactly the
  subtasks of the registered results, and those the callback has passed), the
  consistency of worker states, locks and queue counters, and what each outcome
  implies.  One lemma per action shows that it is kept; `TypeCorrect`, `TasksOnce`,
  `ExactCount`, `Completeness` and `ParentsFirst` are its consequences, and
  `Refinement` shows that each step is a step of `TaskPool` or leaves it alone.
  `PromiseKept` carries the promise over: what is shown of `TaskPool` (a normal return means
  a complete tree) holds of the pool of processes, through the refinement.
* `FileScanProofs`, of the finder: `TypeCorrect`; `Progress` under `AllAdvance`; `LaminarChunks` under
  both rules, by the invariant that all chunks lie behind the scan; `NoMatchMissed`
  under `AllStartThere`, by the invariant that every match before the scan position has
  a reason for yielding no chunk.  The rules are hypotheses on the constant `Files`,
  not on the code of the finder: whether a handler keeps them is a question about that handler.
* `LayoutProofs`: `KeepsMaximal`, `NothingDropped`, `Tiling`, `WholeFileChunk`,
  `RaisesOnOverlap`, `NoRaise` for every list of chunks and every size.  The
  invariant describes the loops: the chunks passed so far are kept or within a kept
  one, every chunk still to come is no larger, the gaps so far tile the file up to
  the end of the last chunk passed.
* `FileScanProofs`, of the composition: `NoFileRaises`, `FilesTiled`, `AllAccounted`: if
  the handlers keep the rules, no file is given up, every byte is in exactly one
  carved piece, and every usable match is in an outer chunk.

* `InvocationProofs`: `ExitCode`, from `InvocationAssumption` (finitely many workers).  The
  exit status is set several steps before the process is gone, in one of two threads, so
  the invariant says of every place of the main thread what the status may already be,
  and that `ended` and `reports` no longer change once the job is done.  Of the pool only
  what `CloseReturns` does to `ended` matters.

* `SinglePoolProofs`: `Refinement`, for every tree of tasks.  The invariant says of every
  active callback that it has submitted just the subtasks that are no longer in its `todo`,
  and that what is submitted is on the stack or registered.
* `ProcessingProofs`, for any number of workers and runs, any contents (also a file that
  contains itself) and any configurations, from `ProcessingAssumption`, `IdleAssumption`
  and the hypothesis `NamesApart`.  The proof has two parts.  `SpecImplementsHere`: under
  `LinksApart`, a part of `NamesApart`, no path that the program asks for has a link on it,
  so each of its steps is one of `HereSpec`, where every directory is the one beside its
  file.  That needs an invariant, `LinkInv`: no link lies beside a file by the name of its
  extraction directory, none in a carve directory, none where a multi-file goes, and what a
  worker remembers is the directory beside its file.  A link that another worker extracts is
  kept out of these places by `RegionInv` below, so `LinkInv` and `Inv` are proved together.
  The second part, `HereProofs`, is about `HereSpec`.  The
  properties are about races on paths, and say nothing of who may touch what.  `Inv`, in
  `ProcessingInv`, does:
    * `Unique`: a path has at most one place among the queue, the workers, the subtasks
      collected so far and the results; `PendingInv`: nothing below a task that waits has a
      task yet;
    * `RegionInv`: a worker on a file owns its path and, from the check for the output
      directory on, everything below that directory: no path there has a task but those the
      worker is about to submit; a worker on a directory owns the directory;
    * `CleanInv`, `ExistInv`: no carved piece has a task; what has a task exists, or was
      deleted by a worker that is done with it, in a directory that is still there;
    * `LocalInv`: what each place in `_FileTask` and `_DirectoryTask` says of the file
      system and of the subtasks; `Quiet` and `RootInv`: between runs nobody works, the
      input stays, and all else is under its extraction directory.
  Since two regions never meet, each action of a worker is summarised once (`StepOK`: it
  changes its region only, and new tasks are for paths of its region that have none), and
  the lemma `StepInv` shows that such a step keeps everything that is about the other
  workers.  `EachPathOnce` follows from `Inv`, `NoInterferenceHolds` from `Inv` and `LinkInv`; `OldStays` adds
  `OldInv` (what a run found is outside of all regions or left as it is); `RemovedIsExtracted`
  adds `OutcomeInv` (from the extraction to the deletion the tree of the chunk is complete, if
  `outcome` says so);
  `EntriesVisited` adds `VisitedInv`: an entry of a listed directory has a task, or some job
  carves into it, or is extracting to it and will submit it.  A worker that touches an entry
  of a directory that is done is the one whose carve directory that is (`ChildOfDone`).
  `NothingIsLost` adds `OutcomeInv` and `LostInv`, in three parts.  `KeptInv`: of a worker on a
  file, all that was found before chunk `todo` is there, and no later chunk is carved yet, so
  that carving never meets a file.  `SafeInv`: the same of all chunks for each result, or the
  result of the missing file says "Deleted".  `OwnInv`: what a worker may remove, its chunk and
  the directory of its chunk, is nothing that another task extracted; needed because the tree
  of a chunk may hold a name with the suffix `_extract`.  `PieceNames`, a part of
  `ProcessingAssumption`, is what keeps the pieces of one file apart: they are named after
  their offsets, and `calculate_unknown_chunks` raises before anything is carved when two
  chunks overlap.
  `ForceStartsFresh` adds `FreshInv` and the hypothesis `FreshNames`.  `FilesFresh`: a file that
  has its extraction directory beside it was processed, or a worker is on it; `DirsAhead`: the
  directories of the chunks still to come are not made yet; and a step makes no directory
  that a file still to be processed would be extracted to (`Makes`).  `FreshNames` is needed:
  an image that holds a file and, beside it, an entry named like the file's extraction
  directory makes `_extract_chunk` report `OutputExists`, although the run started afresh.
  The module of the runs checks it for the instance with `--force`.
  `NamesApart` is needed: without `PartsApart` or `DeletesApart` the path of a taken or
  deleted file gets a second task (see "What modelling showed besides"), without `LinksApart`
  workers share directories (see there, *Links*).  `NothingSilent`, the second hypothesis
  of `RemovedIsExtracted`, says that no extraction fails without a report; the run
  `encrypted_deleted` shows what happens otherwise.  The module of the runs checks
  `NamesApart` for the instances of TLC, and that `LinkedContent` breaks it.

* `ExtractionProofs`: `ContainedHolds`, from `LinksAssumption`, `NamesAssumption`,
  `PathsAssumption`, `YaffsAssumption`, `DisksAssumption` and `RomsAssumption`, which only say
  that names are names and that an image consists of entries: the names, the links, the
  inodes and the order of everything are arbitrary.  The check (`is_safe_path`) and the use
  of a path are two different lookups, at two different times, and the proof is about both:
    * *What a walk is.*  A walk is a recursive function on the names to come and the links
      still allowed.  `Recursion` proves that a function defined from the values below
      (in any order in which every set has a least element) exists; `BeforeLeast` and
      `BeforeTransitive` give the order, so `WalkEquation` may unfold a walk.  Facts about
      all walks are shown at a least walk where they would fail, which is an induction that
      the provers can do.  The loops of `EnsureParentDir`, `ChModAll` and `ResolvePath` are
      unfolded the same way (`Loop`).
    * *Two lookups.*  `StrictWalk`: the kernel goes where `resolve` went, or fails.
      `InsideNoFollow`: also when the last name is not followed.  `PrefixInside`: if a path is
      inside, so is every directory on the way; needed for `mkdir(parents=True)`, which acts
      on each of them.
    * *Two times.*  `SameInside`: a path leads where it led as long as the links are the same.
      `EnsureOK`: making the parent directories adds no link, so what was inside when it was
      checked still is when it is used.
    * *Every step.*  One lemma per method of `FileSystem`, then one per step of each extractor.
      The invariant `ExtractInv` says that nothing has escaped, that every link's target is a
      path, and that what a job holds (stacks, headers, the paths by address, the tree of YAFFS
      headers) consists of names.  That all of them go through the checks is the point of it:
      `Contained` alone is not inductive, since a link without a path in it leads anywhere.

Only model-checked:
* the liveness properties, as fairness is out of the prover's reach;
* of the extractors, `LossIsReported`, `LastEntryWins`, `WalkIsComplete` and
  `LatestHeaderHolds`, which compare the tree with a second one that is built by recursion
  over the image (the sender's tree, the disk's, the log's);
* the handlers, which are some seventy small programs with nothing in common to induct over.

## 6. Not modelled, and why

* What external libraries and commands do: decompressors, ciphers, archivers, Hyperscan,
  Landlock.  They are choices over the outcomes the code distinguishes.
* Extractors that only decrypt or wrap a library (`_safe_tarfile`, `_ucl`, `instar_hd`,
  UBI, cramfs), and external commands: a chunk's tree in `Processing` stands for them.
* The values of integers: endianness, bit fields and overflow are abstracted to small
  fields; Python's integers do not overflow.
* A worker that exits with status 0 on its own, signal handlers of an embedding
  application, a second Ctrl-C during the interpreter's shutdown.
* `HexString` (a grammar over text), option callbacks, printing, JSON.
* An exception inside the Hyperscan scan, after which `search_chunks` returns what it has.
* `fix_extracted_directory`: permissions; the tree of a chunk is what is there afterwards.
* A directory handler looks for one file per directory; `calculate_multifile` that
  raises or returns `None` is a handler that does not match.
* Entropy, padding names, ids, log output, progress bars.

## 7. Plan

1. Done: pool, finder, layout, their composition, recursive extraction, handlers,
   extraction file system and extractors, one run of the program; the proofs of section 5.
2. Every safety property of the pool, the finder, the layout, the recursion and the program
   run has its theorem.  What section 5 lists as only model-checked stays with TLC.
