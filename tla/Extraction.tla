----------------------------- MODULE Extraction -----------------------------
(***************************************************************************)
(* One call of a Python extractor: the output directory fs (ExtractFS) and *)
(* job, the extractor at work on it.  Three kinds of job are here: any     *)
(* caller of the FileSystem interface, the replay of a btrfs send stream,  *)
(* and the dump of a cpio archive.  The extractors that walk an on-disk    *)
(* tree are in InodeWalk and Yaffs, on the same two variables.             *)
(***************************************************************************)
EXTENDS ExtractFS, FiniteSets

CONSTANTS ClientPaths,    \* the paths an arbitrary caller passes
          LinkTargets,    \* the targets of its links
          MaxCalls,       \* how many calls it makes
          StreamPaths,    \* the names a btrfs stream uses
          MaxCommands,    \* how many commands a stream has before END
          CpioPaths, MaxEntries

ASSUME PathsAssumption == /\ ClientPaths \cup LinkTargets \cup CpioPaths \subseteq Pathnames
                          /\ StreamPaths \subseteq Seq(Names)

VARIABLES fs, job
vars == <<fs, job>>

Running(kind) == fs.outcome = "ok" /\ job.kind = kind

-----------------------------------------------------------------------------
(* An extractor that makes any calls in any order (ar, fpkg, ipkg, airoha, *)
(* sbfh, xalz and the other small ones make a few of these).               *)
ClientJob == [kind |-> "client", n |-> 0, at |-> "calling"]

Call ==
  /\ Running("client") /\ job.n < MaxCalls
  /\ job' = [job EXCEPT !.n = @ + 1]
  /\ \E p \in ClientPaths :
       \/ fs' = WriteBytes(fs, p, job.n)
       \/ fs' = Carve(fs, p, job.n)
       \/ \E parents, exist_ok \in BOOLEAN : fs' = MkDir(fs, p, parents, exist_ok)
       \/ fs' = MkFifo(fs, p)
       \/ \E root \in BOOLEAN : fs' = MkNod(fs, p, root)
       \/ \E to \in LinkTargets : fs' = CreateSymlink(fs, to, p)
       \/ \E mode \in {"wb+", "rb+", "xb+"} : fs' = Open(fs, p, mode, job.n)
       \/ fs' = Unlink(fs, p)
       \/ fs' = RmDir(fs, p)
       \/ fs' = Truncate(fs, p)
       \/ \E q \in ClientPaths : \/ fs' = Rename(fs, p, q)
                                 \/ fs' = CreateHardlink(fs, p, q)

-----------------------------------------------------------------------------
(* The btrfs send stream.  sent is the subvolume the sender has described  *)
(* so far: the sender only sends commands that make sense there and always *)
(* names a node by its real path.                                          *)
StreamJob == [kind |-> "btrfs", n |-> 0, sent |-> EmptyFS.tree, at |-> "start"]

Rel(parts) == Path(FALSE, parts)

Kinds == {"mkfile", "mkdir", "mknod", "mkfifo", "mksock", "symlink", "rename",
          "link", "unlink", "rmdir", "write", "encoded_write", "clone",
          "truncate", "chmod", "utimes", "set_xattr", "remove_xattr", "chown",
          "update_extent", "fallocate", "fileattr"}
Makes(cmd) == cmd \in {"mkfile", "mkdir", "mknod", "mkfifo", "mksock", "symlink"}

(* What a sender may say when its subvolume is tree.                       *)
Sendable(tree, cmd, p, q) ==
  LET There(x) == x \in DOMAIN tree
      Free(x)  == ~There(x) /\ x # <<>> /\ Is(tree, Front(x), "dir")
  IN  /\ Makes(cmd) => Free(p) /\ p = q
      /\ cmd = "rename" => There(p) /\ Free(q) /\ ~IsPrefix(p, q)
      /\ cmd = "link" => Free(p) /\ There(q) /\ ~Is(tree, q, "dir")
      /\ cmd = "clone" => Is(tree, p, "file") /\ Is(tree, q, "file")
      /\ cmd = "unlink" => There(p) /\ ~Is(tree, p, "dir") /\ p = q
      /\ cmd = "rmdir" => Is(tree, p, "dir") /\ Children(tree, p) = {} /\ p = q
      /\ cmd \in {"write", "encoded_write", "truncate"} =>
           Is(tree, p, "file") /\ p = q
      /\ ~Makes(cmd) => There(p) \/ cmd = "link"
      /\ cmd \notin {"rename", "link", "clone"} => p = q

(* Its subvolume after the command.                                        *)
SentTree(tree, cmd, p, q, to, id) ==
  LET s == [EmptyFS EXCEPT !.tree = tree]
  IN  CASE cmd = "mkfile"  -> Put(s, p, File(id)).tree
        [] cmd = "mkdir"   -> Put(s, p, Dir).tree
        [] cmd = "mkfifo"  -> Put(s, p, Fifo).tree
        [] cmd \in {"mknod", "mksock"} -> Put(s, p, Dev).tree
        [] cmd = "symlink" -> Put(s, p, Link(to)).tree
        [] cmd = "rename"  -> Move(s, p, q).tree
        [] cmd = "link"    -> Put(s, p, tree[q]).tree
        [] cmd \in {"unlink", "rmdir"} -> DropNode(s, p).tree
        [] cmd \in {"write", "encoded_write", "clone"} ->
             [l \in DOMAIN tree |-> IF tree[l] = tree[p] THEN File(id) ELSE tree[l]]
        [] OTHER -> tree

(* replay_command.  A clone opens its source for writing as well.          *)
ReplayCommand(s, cmd, p, q, to, id, root, result) ==
  CASE cmd = "mkfile"  -> WriteBytes(s, Rel(p), id)
    [] cmd = "mkdir"   -> MkDir(s, Rel(p), TRUE, TRUE)
    [] cmd \in {"mknod", "mksock"} -> MkNod(s, Rel(p), root)
    [] cmd = "mkfifo"  -> MkFifo(s, Rel(p))
    [] cmd = "symlink" -> CreateSymlink(s, to, Rel(p))
    [] cmd = "rename"  -> Rename(s, Rel(p), Rel(q))
    [] cmd = "link"    -> CreateHardlink(s, Rel(q), Rel(p))
    [] cmd = "unlink"  -> Unlink(s, Rel(p))
    [] cmd = "rmdir"   -> RmDir(s, Rel(p))
    [] cmd = "write"   -> Open(s, Rel(p), "rb+", id)
    [] cmd = "encoded_write" ->
         IF result = "done" THEN Open(s, Rel(p), "rb+", id) ELSE Raise(s)
    [] cmd = "clone"   ->
         LET src == Open(s, Rel(q), "rb+", id)       \* opened, not written to
         IN  IF src.outcome = "ok" /\ ~src.escaped
             THEN Open(s, Rel(p), "rb+", id) ELSE src
    [] cmd = "truncate" -> Truncate(s, Rel(p))
    [] cmd = "chmod"    -> ChMod(s, Rel(p))
    [] cmd = "utimes"   -> UTime(s, Rel(p))
    [] cmd = "set_xattr"    -> SetXattr(s, Rel(p), result)
    [] cmd = "remove_xattr" -> RemoveXattr(s, Rel(p), result)
    [] OTHER -> Record(s, "unsupported", Rel(p))

(* The values of a field the command has; any one if it has not.           *)
Of(used, values) == IF used THEN values ELSE {CHOOSE v \in values : TRUE}

(* replay: the first command tells a full stream from an incremental one;  *)
(* a command whose checksum is wrong is stepped over; END ends the stream. *)
ReplayStart ==
  /\ Running("btrfs") /\ job.at = "start"
  /\ \/ /\ job' = [job EXCEPT !.at = "replaying"] /\ UNCHANGED fs   \* SUBVOL
     \/ /\ fs' = Raise(fs) /\ UNCHANGED job                         \* SNAPSHOT

ReplayStep ==
  /\ Running("btrfs") /\ job.at = "replaying" /\ job.n < MaxCommands
  /\ \E cmd \in Kinds, p, q \in StreamPaths :
       /\ Sendable(job.sent, cmd, p, q)
       /\ \E damaged \in BOOLEAN,
            root   \in Of(cmd \in {"mknod", "mksock"}, BOOLEAN),
            to     \in Of(cmd = "symlink", LinkTargets),
            result \in Of(cmd \in {"encoded_write", "set_xattr", "remove_xattr"},
                          {"done", "denied", "absent"}) :
            /\ job' = [job EXCEPT !.n = @ + 1,
                         !.sent = SentTree(@, cmd, p, q, to, job.n)]
            /\ fs' = IF damaged THEN Record(fs, "checksum", Rel(p))
                     ELSE ReplayCommand(fs, cmd, p, q, to, job.n, root, result)

ReplayEnd ==
  /\ Running("btrfs") /\ job.at = "replaying"
  /\ job' = [job EXCEPT !.at = "end"] /\ UNCHANGED fs

-----------------------------------------------------------------------------
(* The cpio dump.  last: what the latest entry of a name asked for.        *)
CpioJob == [kind |-> "cpio", n |-> 0, dirs |-> {}, at |-> "dumping",
            last |-> <<>>]

EntryTypes == {"reg", "dir", "lnk", "dev", "fifo"}
EntryNode(type, to, id) ==
  CASE type = "reg" -> File(id) [] type = "dir" -> Dir
    [] type = "lnk" -> Link(to) [] type = "dev" -> Dev
    [] OTHER -> Fifo

(* Mutant: a file is written over what has its name instead of replacing it. *)
DumpEntry_Overwrites(s, type, path, to, id, root) ==
  CASE type = "reg" -> WriteBytes(s, path, id)
    [] type = "dir" -> MkDir(s, path, TRUE, TRUE)
    [] type = "lnk" -> CreateSymlink(Unlink(s, path), to, path)
    [] type = "dev" -> MkNod(Unlink(s, path), path, root)
    [] OTHER -> Unlink(s, path)

(* _dump_entry: whatever is not a directory replaces what has its name; a  *)
(* fifo is then not made at all.                                           *)
DumpEntry(s, type, path, to, id, root) ==
  LET t == IF type = "dir" THEN s ELSE Unlink(s, path)
  IN  CASE type = "reg" -> Carve(t, path, id)
        [] type = "dir" -> MkDir(t, path, TRUE, TRUE)
        [] type = "lnk" -> CreateSymlink(t, to, path)
        [] type = "dev" -> MkNod(t, path, root)
        [] OTHER -> t

DumpStep ==
  /\ Running("cpio") /\ job.at = "dumping" /\ job.n < MaxEntries
  /\ \E type \in EntryTypes, p \in CpioPaths, to \in LinkTargets, root \in BOOLEAN :
       IF p.parts = <<>> THEN UNCHANGED fs /\ job' = [job EXCEPT !.n = @ + 1]
       ELSE /\ fs' = DumpEntry(fs, type, p, to, job.n, root)
            /\ job' = [job EXCEPT !.n = @ + 1,
                 !.dirs = IF type = "dir" THEN @ \cup {p} ELSE @,
                 !.last = Bind(@, p, EntryNode(type, to, job.n))]

(* The directory modes, deepest first.                                     *)
DeepestFirst(dirs) ==
  {order \in SetToSeqs(dirs) : \A j, k \in DOMAIN order :
                                 j < k => Len(order[j].parts) >= Len(order[k].parts)}
ChModAll(s, order) ==
  LET done[k \in 0 .. Len(order)] ==
        IF k = 0 THEN s ELSE With(done[k - 1], LAMBDA t : ChMod(t, order[k]))
  IN  done[Len(order)]

DumpModes ==
  /\ Running("cpio") /\ job.at = "dumping"
  /\ \E order \in DeepestFirst(job.dirs) : fs' = ChModAll(fs, order)
  /\ job' = [job EXCEPT !.at = "end"]

ExtractionNext ==
  Call \/ ReplayStart \/ ReplayStep \/ ReplayEnd \/ DumpStep \/ DumpModes

-----------------------------------------------------------------------------
(* FileSystem keeps the destination of every operation below the output    *)
(* directory: no system call made after its check, on the path the check   *)
(* let through or redirected to, acts on anything outside, whatever links, *)
(* renames and ".." came before (_FSPath, is_safe_path).                   *)
Contained == ~fs.escaped

(* A replay of a btrfs stream loses nothing in silence: as long as the     *)
(* only problems are commands it does not know, the output is the sender's *)
(* subvolume, node by node, link by link, data by data.                    *)
LossIsReported ==
  /\ job.kind = "btrfs" /\ fs.outcome = "ok"
  /\ \A p \in fs.problems : p.problem = "unsupported"
  => fs.tree = job.sent

(* Every name a cpio archive gives several times ends up with its last     *)
(* entry, unless the dump reported a problem or raised (_dump_entry: the   *)
(* entries come in order and unlink what has their name).                  *)
LastEntryWins ==
  /\ job.kind = "cpio" /\ job.at = "end" /\ fs.outcome = "ok" /\ fs.problems = {}
  => \A p \in {q \in DOMAIN job.last : job.last[q].kind # "fifo"} :
       LET f == Follow(fs.tree, p.parts)
           n == NoFollow(fs.tree, p.parts)
       IN  CASE job.last[p].kind = "dir" ->
                  f.st = "at" /\ Is(fs.tree, f.loc, "dir")
             [] OTHER -> n.st = "at" /\ n.loc \in DOMAIN fs.tree
                           /\ fs.tree[n.loc] = job.last[p]
=============================================================================
