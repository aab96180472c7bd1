----------------------------- MODULE InodeWalk -----------------------------
(***************************************************************************)
(* The extractors that walk an on-disk tree themselves: minixfs, ufs and   *)
(* romfs.  A step of a job handles one directory entry (one file header of *)
(* romfs); the recursion of the code is the job's stack.                   *)
(*                                                                         *)
(* A minix or ufs disk maps inode numbers to [type, entries, direct,       *)
(* indirect, size, to].  direct holds block numbers, 0 a hole.  indirect   *)
(* holds what the single, double and triple indirect pointers lead to: an  *)
(* indirect block is the sequence of what its pointers lead to, at last of *)
(* block numbers, and a pointer that is 0 leads to <<>>.  size counts      *)
(* blocks.  A romfs disk maps addresses to file headers [type, name, next, *)
(* spec, to, intact].                                                      *)
(***************************************************************************)
EXTENDS Extraction

CONSTANTS MaxDepth,      \* directories deep when the path or the stack is full
          PerBlock       \* how many pointers an indirect block holds

RootIno == 2             \* any fixed number: 1 for minix, 2 for ufs

-----------------------------------------------------------------------------
(* File data.                                                              *)

Limited(blocks, size) == SubSeq(blocks, 1, Min({Len(blocks), size}))

(* The part of a sequence before its first element that is none.           *)
FirstHole(none, s) == SelectInSeq(s, LAMBDA x : x = none)
UpTo(none, s) == IF FirstHole(none, s) = 0 THEN s ELSE SubSeq(s, 1, FirstHole(none, s) - 1)

(* _read_zones: every list of zones is read up to its first zero.          *)
ReadZones1(zones) == UpTo(0, zones)
ReadZones2(tables) == FlattenSeq([k \in DOMAIN UpTo(<<>>, tables) |-> ReadZones1(tables[k])])
ReadZones3(tables) == FlattenSeq([k \in DOMAIN UpTo(<<>>, tables) |-> ReadZones2(tables[k])])

(* _iter_zones: an indirect zone that is 0 is passed over.                 *)
IterZones(indirect) ==
  ReadZones1(indirect[1]) \o ReadZones2(indirect[2]) \o ReadZones3(indirect[3])

(* Mutant: the zones of the indirect blocks come before the direct ones.   *)
StreamFileData_IndirectFirst(inode) ==
  Limited(IterZones(inode.indirect) \o ReadZones1(inode.direct), inode.size)

(* _stream_file_data: the zones up to the size.                            *)
StreamFileData(inode) ==
  Limited(ReadZones1(inode.direct) \o IterZones(inode.indirect), inode.size)

(* read_indirect_blocks: the first of the three pointers that is 0 ends    *)
(* the file, one that is 0 in an indirect block of pointers is passed      *)
(* over, and one to data that is 0 is a block of zeros.                    *)
IndirectBlocks(indirect) ==
  LET levels == <<indirect[1], FlattenSeq(indirect[2]), FlattenSeq(FlattenSeq(indirect[3]))>>
  IN  FlattenSeq(SubSeq(levels, 1, Len(UpTo(<<>>, indirect))))

(* read_file_content: a hole is a block of zeros; all direct blocks come   *)
(* first, indirect ones only when the file has any.                        *)
ReadFileContent(inode) ==
  LET direct == Limited(inode.direct, inode.size)
  IN  IF inode.size <= Len(inode.direct) THEN direct
      ELSE direct \o Limited(IndirectBlocks(inode.indirect), inode.size - Len(inode.direct))

-----------------------------------------------------------------------------
(* minixfs and ufs.                                                        *)
Frame(entries, path) == [entries |-> entries, path |-> path]
WalkJob(kind, disk) ==
  [kind |-> kind, disk |-> disk, at |-> "start", visited |-> {}, stack |-> <<>>]

Dots == {".", ".."}
Pop(stack) == Front(stack)
Top(stack) == stack[Len(stack)]
Advance(stack) == [stack EXCEPT ![Len(stack)].entries = Tail(@)]

(* MinixFS.extract of the root inode: it has to be a directory.            *)
MinixStart ==
  /\ Running("minixfs") /\ job.at = "start"
  /\ IF job.disk[RootIno].type # "dir" THEN fs' = Raise(fs) /\ UNCHANGED job
     ELSE /\ job' = [job EXCEPT !.at = "walking", !.visited = {RootIno},
                       !.stack = <<Frame(job.disk[RootIno].entries, <<>>)>>]
          /\ UNCHANGED fs

(* walk_inode: one entry.  A directory is made each time and walked once.  *)
MinixEntry ==
  /\ Running("minixfs") /\ job.at = "walking"
  /\ job.stack # <<>> /\ Top(job.stack).entries # <<>>
  /\ LET e     == Head(Top(job.stack).entries)
         path  == Append(Top(job.stack).path, e.name)
         inode == job.disk[e.ino]
         rest  == Advance(job.stack)
     IN  CASE e.name \in Dots \/ e.ino < 1 ->
                job' = [job EXCEPT !.stack = rest] /\ UNCHANGED fs
           [] e.name \notin Dots /\ e.ino >= 1 /\ e.ino \notin DOMAIN job.disk ->
                fs' = Raise(fs) /\ UNCHANGED job
           [] OTHER ->
                /\ \E root \in BOOLEAN :
                     fs' = CASE inode.type = "reg" ->
                                  WriteChunks(fs, Rel(path), StreamFileData(inode))
                             [] inode.type = "lnk" -> CreateSymlink(fs, inode.to, Rel(path))
                             [] inode.type = "fifo" -> MkFifo(fs, Rel(path))
                             [] inode.type = "dev" -> MkNod(fs, Rel(path), root)
                             [] inode.type = "dir" -> MkDir(fs, Rel(path), TRUE, TRUE)
                             [] OTHER -> fs
                /\ job' = IF inode.type = "dir" /\ e.ino \notin job.visited
                          THEN [job EXCEPT !.visited = @ \cup {e.ino},
                                  !.stack = Append(rest, Frame(inode.entries, path))]
                          ELSE [job EXCEPT !.stack = rest]

(* walk_extract.  There is no set of visited directories: a cycle ends     *)
(* when the path is too long or the stack is full, with an exception.      *)
UfsStart ==
  /\ Running("ufs") /\ job.at = "start"
  /\ IF job.disk[RootIno].type # "dir"
     THEN /\ fs' = WriteChunks(fs, Path(TRUE, <<>>), ReadFileContent(job.disk[RootIno]))
          /\ job' = [job EXCEPT !.at = "end"]
     ELSE /\ fs' = MkDir(fs, Path(TRUE, <<>>), FALSE, TRUE)
          /\ job' = [job EXCEPT !.at = "walking",
                       !.stack = <<Frame(job.disk[RootIno].entries, <<>>)>>]

(* parse_dentries and walk_extract of one entry.  d_reclen 0 ends the      *)
(* block (here: the directory), inode 0 is a deleted entry.                *)
UfsEntry ==
  /\ Running("ufs") /\ job.at = "walking"
  /\ job.stack # <<>> /\ Top(job.stack).entries # <<>>
  /\ LET e     == Head(Top(job.stack).entries)
         path  == Append(Top(job.stack).path, e.name)
         dst   == Path(TRUE, path)
         inode == job.disk[e.ino]
         rest  == Advance(job.stack)
     IN  CASE e.reclen = 0 ->
                /\ job' = [job EXCEPT !.stack[Len(job.stack)].entries = <<>>]
                /\ UNCHANGED fs
           [] e.reclen # 0 /\ (e.ino = 0 \/ e.name \in Dots) ->
                job' = [job EXCEPT !.stack = rest] /\ UNCHANGED fs
           [] e.reclen # 0 /\ e.ino # 0 /\ e.name \notin Dots
                /\ (e.ino \notin DOMAIN job.disk \/ Len(path) > MaxDepth) ->
                fs' = Raise(fs) /\ UNCHANGED job
           [] OTHER ->
                /\ \E root \in BOOLEAN :
                     fs' = CASE inode.type = "dir" -> MkDir(fs, dst, FALSE, TRUE)
                             [] inode.type = "reg" ->
                                  WriteChunks(fs, dst, ReadFileContent(inode))
                             [] inode.type = "lnk" -> CreateSymlink(fs, inode.to, dst)
                             [] inode.type = "fifo" -> MkFifo(fs, dst)
                             [] inode.type \in {"sock", "dev"} -> MkNod(fs, dst, root)
                             [] OTHER -> fs
                /\ job' = IF inode.type = "dir"
                          THEN [job EXCEPT !.stack = Append(rest, Frame(inode.entries, path))]
                          ELSE [job EXCEPT !.stack = rest]

(* The loop over a directory's entries is done: back to the parent's loop. *)
WalkReturn ==
  /\ fs.outcome = "ok" /\ job.kind \in {"minixfs", "ufs"} /\ job.at = "walking"
  /\ \/ /\ job.stack # <<>> /\ Top(job.stack).entries = <<>>
        /\ job' = [job EXCEPT !.stack = Pop(@)]
     \/ /\ job.stack = <<>>
        /\ job' = [job EXCEPT !.at = "end"]
  /\ UNCHANGED fs

-----------------------------------------------------------------------------
(* romfs.  A frame: the next header's address, the directory it is in and  *)
(* that directory's path.  inodes: the path of each header by address.     *)
RomfsJob(disk) ==
  [kind |-> "romfs", disk |-> disk, at |-> "walking", inodes |-> <<>>,
   dumped |-> {},
   stack |-> <<[addr |-> RootIno, owner |-> 0, path |-> <<>>]>>]

(* Mutant: the dot entries are passed over before the next address is read. *)
RomfsHeader_StaysAtDots ==
  /\ Running("romfs") /\ job.at = "walking" /\ job.stack # <<>>
  /\ Top(job.stack).addr \in DOMAIN job.disk
  /\ LET frame == Top(job.stack)
         h     == job.disk[frame.addr]
         path  == Append(frame.path, h.name)
         rest  == [job.stack EXCEPT ![Len(job.stack)].addr = h.next]
         found == Bind(job.inodes, frame.addr, path)
     IN  CASE ~h.intact -> fs' = Raise(fs) /\ UNCHANGED job
           [] h.intact /\ h.name \in Dots ->
                UNCHANGED <<fs, job>>
           [] OTHER ->
                /\ UNCHANGED fs
                /\ job' = [job EXCEPT !.inodes = found,
                     !.stack = IF h.type = "dir" /\ h.spec # 0
                                  /\ frame.addr \notin DOMAIN job.inodes
                               THEN Append(rest, [addr |-> h.spec,
                                              owner |-> frame.addr, path |-> path])
                               ELSE rest]

(* walk_dir.  Only a directory that was met before is not entered again;   *)
(* is_valid_addr is "there is a header at this address".                   *)
RomfsHeader ==
  /\ Running("romfs") /\ job.at = "walking" /\ job.stack # <<>>
  /\ Top(job.stack).addr \in DOMAIN job.disk
  /\ LET frame == Top(job.stack)
         h     == job.disk[frame.addr]
         path  == Append(frame.path, h.name)
         rest  == [job.stack EXCEPT ![Len(job.stack)].addr = h.next]
         found == Bind(job.inodes, frame.addr, path)
     IN  CASE ~h.intact -> fs' = Raise(fs) /\ UNCHANGED job
           [] h.intact /\ h.name \in Dots ->
                job' = [job EXCEPT !.stack = rest] /\ UNCHANGED fs
           [] OTHER ->
                /\ UNCHANGED fs
                /\ job' = [job EXCEPT !.inodes = found,
                     !.stack = IF h.type = "dir" /\ h.spec # 0
                                  /\ frame.addr \notin DOMAIN job.inodes
                               THEN Append(rest, [addr |-> h.spec,
                                              owner |-> frame.addr, path |-> path])
                               ELSE rest]

(* recursive_walk returns, and walk_dir stores its header once more.       *)
RomfsReturn ==
  /\ Running("romfs") /\ job.at = "walking" /\ job.stack # <<>>
  /\ LET frame == Top(job.stack)
     IN  /\ frame.addr \notin DOMAIN job.disk
         /\ job' = [job EXCEPT !.stack = Pop(@),
              !.inodes = IF frame.owner = 0 THEN @
                         ELSE Bind(@, frame.owner, frame.path)]
  /\ UNCHANGED fs

RomfsWalked ==
  /\ Running("romfs") /\ job.at = "walking" /\ job.stack = <<>>
  /\ job' = [job EXCEPT !.at = "dumping"] /\ UNCHANGED fs

(* dump_fs: files, directories, fifos and sockets, then devices, then      *)
(* links, each group sorted by path: a path comes after its prefixes (the  *)
(* order of other paths is left open).                                     *)
DumpGroup(type) == CASE type \in {"reg", "dir", "fifo", "sock"} -> 1
                     [] type = "dev" -> 2
                     [] OTHER -> 3
DumpsBefore(a, b) ==
  LET g(x) == DumpGroup(job.disk[x].type)
  IN  \/ g(a) < g(b)
      \/ /\ g(a) = g(b) /\ job.inodes[a] # job.inodes[b]
         /\ IsPrefix(job.inodes[a], job.inodes[b])

(* create_inode.  A hard link to a header that was not met is skipped.     *)
RomfsDump ==
  /\ Running("romfs") /\ job.at = "dumping"
  /\ \E a \in DOMAIN job.inodes \ job.dumped :
       /\ \A b \in DOMAIN job.inodes \ job.dumped : ~DumpsBefore(b, a)
       /\ job' = [job EXCEPT !.dumped = @ \cup {a}]
       /\ LET h   == job.disk[a]
              dst == Rel(job.inodes[a])
          IN  \E root \in BOOLEAN :
                fs' = CASE h.type = "dir" -> MkDir(fs, dst, FALSE, TRUE)
                        [] h.type = "reg" -> WriteBytes(fs, dst, a)
                        [] h.type = "dev" -> MkNod(fs, dst, root)
                        [] h.type = "fifo" -> MkFifo(fs, dst)
                        [] h.type = "lnk" -> CreateSymlink(fs, h.to, dst)
                        [] h.type = "hard" /\ h.spec \in DOMAIN job.inodes ->
                             CreateHardlink(fs, Rel(job.inodes[h.spec]), dst)
                        [] OTHER -> fs

RomfsEnd ==
  /\ Running("romfs") /\ job.at = "dumping" /\ job.dumped = DOMAIN job.inodes
  /\ job' = [job EXCEPT !.at = "end"] /\ UNCHANGED fs

WalkNext == MinixStart \/ MinixEntry \/ UfsStart \/ UfsEntry \/ WalkReturn
            \/ RomfsHeader \/ RomfsReturn \/ RomfsWalked \/ RomfsDump \/ RomfsEnd

-----------------------------------------------------------------------------
(* The blocks of a file in order, 0 a hole and NoTable one that no         *)
(* indirect block leads to: a pointer that is 0 stands for as many blocks  *)
(* as it would lead to.                                                    *)
NoTable == -1
NoBlocks(n) == [k \in 1 .. n |-> NoTable]
Table1(t) == IF t = <<>> THEN NoBlocks(PerBlock) ELSE t
Table2(t) == IF t = <<>> THEN NoBlocks(PerBlock ^ 2)
             ELSE FlattenSeq([k \in DOMAIN t |-> Table1(t[k])])
Table3(t) == IF t = <<>> THEN NoBlocks(PerBlock ^ 3)
             ELSE FlattenSeq([k \in DOMAIN t |-> Table2(t[k])])
Blocks(inode) ==
  Limited(inode.direct \o Table1(inode.indirect[1]) \o Table2(inode.indirect[2])
                       \o Table3(inode.indirect[3]), inode.size)

(* The tree a disk describes: what no block is there for reads as zeros.   *)
Content(inode) ==
  [k \in DOMAIN Blocks(inode) |-> IF Blocks(inode)[k] = NoTable THEN 0 ELSE Blocks(inode)[k]]
Made(inode) ==
  CASE inode.type = "reg" -> File(Content(inode))
    [] inode.type = "lnk" -> Link(inode.to)
    [] inode.type = "fifo" -> Fifo
    [] inode.type = "dir" -> Dir
    [] OTHER -> Dev

Merge(trees) == FoldLeft(LAMBDA a, b : a @@ b, <<>>, trees)
Named(inode) == SelectSeq(inode.entries, LAMBDA e : e.name \notin Dots /\ e.ino # 0)

DiskTree(disk) ==
  LET below[node \in (DOMAIN disk) \X Seq(Names)] ==
        LET inode == disk[node[1]]
            loc   == node[2]
        IN  (loc :> Made(inode)) @@
            Merge([k \in DOMAIN Named(inode) |->
                     LET e == Named(inode)[k] IN below[<<e.ino, Append(loc, e.name)>>]])
  IN  below[<<RootIno, <<>> >>]

(* What a file system check accepts: every directory is in one directory,  *)
(* the root in none, names are unique, inodes exist.                       *)
Sound(disk) ==
  /\ \A i \in DOMAIN disk : LET es == Named(disk[i]) IN
       /\ \A j, k \in DOMAIN es : es[j].name = es[k].name => j = k
       /\ \A j \in DOMAIN es : es[j].ino \in DOMAIN disk \ {RootIno}
       /\ \A j \in DOMAIN disk[i].entries : disk[i].entries[j].reclen # 0
  /\ \A i, k \in DOMAIN disk : \A x \in DOMAIN Named(disk[i]), y \in DOMAIN Named(disk[k]) :
       LET a == Named(disk[i])[x]
           b == Named(disk[k])[y]
       IN  a.ino = b.ino /\ disk[a.ino].type = "dir" => i = k /\ x = y
(* Every block of every file is there; every hole has its indirect block.  *)
Solid(disk) ==
  \A i \in DOMAIN disk : \A k \in DOMAIN Blocks(disk[i]) : Blocks(disk[i])[k] > 0
Mapped(disk) ==
  \A i \in DOMAIN disk : \A k \in DOMAIN Blocks(disk[i]) : Blocks(disk[i])[k] # NoTable

(* The headers of a romfs by path, each directory's chain followed.        *)
HeaderTree(disk) ==
  LET from[node \in Nat \X Seq(Names)] ==
        LET h    == disk[node[1]]
            loc  == Append(node[2], h.name)
            sub  == IF h.type = "dir" /\ h.spec # 0 THEN from[<<h.spec, loc>>] ELSE <<>>
            own  == IF h.name \in Dots THEN <<>> ELSE (loc :> node[1]) @@ sub
        IN  IF node[1] \notin DOMAIN disk THEN <<>> ELSE own @@ from[<<h.next, node[2]>>]
  IN  from[<<RootIno, <<>> >>]

(* A romfs as genromfs makes it: chains and directories lead forward, only *)
(* hard links (and the dot entries, which are some) lead back.             *)
Forward(disk) == \A a \in DOMAIN disk :
  /\ disk[a].next = 0 \/ disk[a].next > a
  /\ disk[a].type = "dir" /\ disk[a].name \notin Dots => disk[a].spec = 0 \/ disk[a].spec > a
  /\ \A b \in DOMAIN disk : disk[a].type = "dir" /\ disk[b].type = "dir"
                            /\ a # b /\ disk[a].spec # 0 => disk[a].spec # disk[b].spec
ChainsEnd(disk) == \A a \in DOMAIN disk : disk[a].next = 0 \/ disk[a].next > a

(* A walk that ends without exception or problem has made the whole tree   *)
(* of a sound disk and nothing else: every node under its path, with its   *)
(* data, wherever it lies in the order of the walk (walk_inode,            *)
(* walk_extract; for romfs recursive_walk and the order of dump_fs).  In a *)
(* minix file nothing may be missing; in an ufs file blocks may, but not   *)
(* the indirect blocks, although the comments in ufs.py say that what is   *)
(* not allocated reads as zeros: behind such a hole the data are lost or   *)
(* at another offset, and the walk ends without a problem.                 *)
WalkIsComplete ==
  job.kind \in {"minixfs", "ufs", "romfs"} /\ job.at = "end"
  /\ fs.outcome = "ok" /\ fs.problems = {} =>
    IF job.kind = "romfs"
    THEN Forward(job.disk) =>
           LET all == HeaderTree(job.disk)
           IN  /\ DOMAIN fs.tree \ {<<>>} =
                    {loc \in DOMAIN all : job.disk[all[loc]].type # "sock"}
               /\ \A loc \in DOMAIN all :
                    LET h == job.disk[all[loc]]
                    IN  CASE h.type = "reg" -> fs.tree[loc] = File(all[loc])
                          [] h.type = "hard" -> fs.tree[loc] = File(h.spec)
                          [] h.type = "dir" -> fs.tree[loc] = Dir
                          [] OTHER -> TRUE
    ELSE Sound(job.disk) /\ (IF job.kind = "minixfs" THEN Solid(job.disk) ELSE Mapped(job.disk))
           => fs.tree = DiskTree(job.disk)

(* Every walk ends, also on a disk with directories inside themselves or   *)
(* in several places: minixfs enters a directory once, romfs one it has    *)
(* met never again, and ufs runs out of path.  (A romfs chain that leads   *)
(* back into itself is the exception: recursive_walk follows it forever.)  *)
WalkEnds ==
  (job.kind \in {"minixfs", "ufs"}
   \/ (IF job.kind = "romfs" THEN ChainsEnd(job.disk) ELSE FALSE))
    ~> (job.at = "end" \/ fs.outcome # "ok")
=============================================================================
