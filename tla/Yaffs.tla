------------------------------- MODULE Yaffs -------------------------------
(***************************************************************************)
(* The yaffs extractor.  A YAFFS image is a log: every page is an object   *)
(* header (chunk 0) or a piece of a file's data, and what was written last *)
(* holds.  The job first lets a file system write a log (external), then   *)
(* YAFFSParser.parse reads it page by page, then extract makes the nodes.  *)
(*                                                                         *)
(* truth is the file system the log describes: objects by id, each with    *)
(* its type, parent, name, link target or id, and its data by chunk.       *)
(***************************************************************************)
EXTENDS Extraction, FiniteSetsExt

CONSTANTS YaffsIds,      \* ids of objects besides the root
          YaffsNames, MaxPages, YaffsChunks

ASSUME YaffsAssumption == YaffsNames \subseteq Names

Root == 1
RootObj == [type |-> "dir", parent |-> Root, name |-> NoName, equiv |-> 0,
            data |-> <<>>]

HeaderPage(id, obj) ==
  [obj |-> id, chunk |-> 0, hdr |-> [obj EXCEPT !.data = <<>>], tag |-> 0,
   serial |-> 0, deleted |-> FALSE]
DataPage(id, chunk, tag, serial) ==
  [obj |-> id, chunk |-> chunk, hdr |-> RootObj, tag |-> tag,
   serial |-> serial, deleted |-> FALSE]

(* YAFFS2 does not store the root.                                         *)
YaffsJob(version) ==
  [kind |-> "yaffs", version |-> version, at |-> "writing",
   truth |-> [id \in {Root} |-> RootObj], rewritten |-> {},
   log |-> IF version = 1 THEN <<HeaderPage(Root, RootObj)>> ELSE <<>>,
   pos |-> 1, entries |-> <<>>, nodes |-> <<>>, chunks |-> <<>>, todo |-> <<>>]

-----------------------------------------------------------------------------
(* The writer.  YAFFS1 deletes the page it replaces, after it has written  *)
(* the new one: power may be lost in between.                              *)
Below(truth, id, top) ==
  LET below[i \in DOMAIN truth] == i = top \/ (i # Root /\ below[truth[i].parent])
  IN  below[id]

Replace(log, id, chunk, page, clean) ==
  Append([k \in DOMAIN log |->
            IF clean /\ job.version = 1 /\ log[k].obj = id /\ log[k].chunk = chunk
            THEN [log[k] EXCEPT !.deleted = TRUE] ELSE log[k]], page)

SetObject(id, obj, clean) ==
  job' = [job EXCEPT !.truth = Bind(@, id, obj),
                     !.log = Replace(@, id, 0, HeaderPage(id, obj), clean)]

FreeName(parent, name) ==
  /\ parent \in DOMAIN job.truth /\ job.truth[parent].type = "dir"
  /\ \A id \in DOMAIN job.truth \ {Root} :
       job.truth[id].parent # parent \/ job.truth[id].name # name

CreateObject ==
  \E id \in YaffsIds \ DOMAIN job.truth, p \in YaffsIds \cup {Root}, name \in YaffsNames,
     type \in {"file", "dir", "lnk", "hard", "special"}, e \in YaffsIds :
    /\ FreeName(p, name)
    /\ type = "hard" => e \in DOMAIN job.truth /\ job.truth[e].type = "file"
    /\ SetObject(id, [type |-> type, parent |-> p, name |-> name,
                      equiv |-> IF type = "hard" THEN e ELSE 0, data |-> <<>>], TRUE)

MoveObject ==
  \E id \in DOMAIN job.truth \ {Root}, p \in DOMAIN job.truth, name \in YaffsNames,
     clean \in BOOLEAN :
    /\ FreeName(p, name) /\ ~Below(job.truth, p, id)
    /\ SetObject(id, [job.truth[id] EXCEPT !.parent = p, !.name = name], clean)

SetData(id, chunk, clean) ==
  LET old == {k \in DOMAIN job.log : job.log[k].obj = id /\ job.log[k].chunk = chunk}
  IN  job' = [job EXCEPT
        !.truth[id].data = Bind(@, chunk, Len(job.log)),
        !.rewritten = IF old = {} THEN @ ELSE @ \cup {id},
        !.log = Replace(@, id, chunk,
                  DataPage(id, chunk, Len(job.log), Cardinality(old) % 4), clean)]
WriteData ==
  \E id \in DOMAIN job.truth, chunk \in YaffsChunks, clean \in BOOLEAN :
    job.truth[id].type = "file" /\ SetData(id, chunk, clean)

WriterStep ==
  /\ Running("yaffs") /\ job.at = "writing" /\ Len(job.log) < MaxPages
  /\ CreateObject \/ MoveObject \/ WriteData
  /\ UNCHANGED fs

-----------------------------------------------------------------------------
(* Mutant: the first header of an object is the one that is kept.          *)
InsertEntry_First(id, entry) ==
  LET parent == entry.parent
      known == parent \in DOMAIN job.entries /\ job.entries[parent].type = "dir"
  IN  /\ UNCHANGED fs
      /\ job' = IF id \in DOMAIN job.entries \/ (id # parent /\ ~known)
                THEN [job EXCEPT !.pos = @ + 1]
                ELSE [job EXCEPT !.entries = Bind(@, id, entry),
                                 !.nodes = Bind(@, id, parent), !.pos = @ + 1]

(* insert_entry.  entries: the latest header of an object; nodes: the      *)
(* parent it had when it was first met, which is where it stays in the     *)
(* tree.  A second root is an exception, an entry whose parent is unknown  *)
(* or no directory is dropped.                                             *)
InsertEntry(id, entry) ==
  LET parent == entry.parent
  IN  CASE id \in DOMAIN job.entries ->
             /\ job' = [job EXCEPT !.entries[id] = entry, !.pos = @ + 1]
             /\ UNCHANGED fs
        [] id \notin DOMAIN job.entries /\ id = parent ->
             IF job.entries = <<>>
             THEN /\ job' = [job EXCEPT !.entries = Bind(@, id, entry),
                               !.nodes = Bind(@, id, id), !.pos = @ + 1]
                  /\ UNCHANGED fs
             ELSE fs' = Raise(fs) /\ UNCHANGED job
        [] OTHER ->
             /\ IF parent \in DOMAIN job.entries /\ job.entries[parent].type = "dir"
                THEN job' = [job EXCEPT !.entries = Bind(@, id, entry),
                               !.nodes = Bind(@, id, parent), !.pos = @ + 1]
                ELSE job' = [job EXCEPT !.pos = @ + 1]
             /\ UNCHANGED fs

(* parse: init_tree, then one page; deleted YAFFS1 pages are passed over.  *)
ParseStart ==
  /\ Running("yaffs") /\ job.at = "writing"
  /\ job' = IF job.version = 1 THEN [job EXCEPT !.at = "parsing"]
            ELSE [job EXCEPT !.at = "parsing", !.entries = Bind(@, Root, RootObj),
                             !.nodes = Bind(@, Root, Root)]
  /\ UNCHANGED fs

ParsePage ==
  /\ Running("yaffs") /\ job.at = "parsing" /\ job.pos <= Len(job.log)
  /\ LET page == job.log[job.pos]
     IN  IF page.deleted \/ page.chunk # 0
         THEN /\ job' = [job EXCEPT !.pos = @ + 1,
                           !.chunks = IF page.deleted THEN @ ELSE Append(@, page)]
              /\ UNCHANGED fs
         ELSE InsertEntry(page.obj, page.hdr)

(* expand_tree(DEPTH): a node before its children, what is below one child *)
(* before the next child, children by id.                                  *)
Preorders(nodes) ==
  IF Root \notin DOMAIN nodes THEN {<<>>}
  ELSE {o \in SetToSeqs(DOMAIN nodes) :
          /\ o[1] = Root
          /\ \A k \in 2 .. Len(o) : \E i \in 1 .. k - 1 :
               /\ o[i] = nodes[o[k]]
               /\ \A j \in i + 1 .. k - 1 :
                    /\ \E h \in i .. j - 1 : o[h] = nodes[o[j]]
                    /\ nodes[o[j]] = nodes[o[k]] => o[j] < o[k]}

(* A log without any header is refused.                                    *)
ParseEnd ==
  /\ Running("yaffs") /\ job.at = "parsing" /\ job.pos > Len(job.log)
  /\ IF \A k \in DOMAIN job.log : job.log[k].deleted \/ job.log[k].chunk # 0
     THEN fs' = Raise(fs) /\ UNCHANGED job
     ELSE /\ \E order \in Preorders(job.nodes) :
               job' = [job EXCEPT !.at = "extracting", !.todo = order]
          /\ UNCHANGED fs

(* resolve_path follows the latest parents; an object whose new parent is  *)
(* not in the tree, or a cycle of them, is an exception.                   *)
ResolvePath(entries) ==
  LET depth == Cardinality(DOMAIN entries)
      within[n \in 0 .. depth] ==     \* the paths of the entries less than n below the root
        [id \in DOMAIN entries |->
           IF id = Root THEN [ok |-> TRUE, parts |-> <<>>]
           ELSE IF n = 0 \/ entries[id].parent \notin DOMAIN entries
           THEN [ok |-> FALSE, parts |-> <<>>]
           ELSE LET up == within[n - 1][entries[id].parent]
                IN  [up EXCEPT !.parts = Append(@, entries[id].name)]]
  IN  within[depth]
PathOf(id) == ResolvePath(job.entries)[id]

(* get_chunks of YAFFS2 and of YAFFS1: groupby has no key, so every chunk  *)
(* is a group of its own and its maximum: all chunks, by chunk id and then *)
(* in log order.                                                           *)
GetChunks(id) ==
  LET mine == {k \in DOMAIN job.chunks : job.chunks[k].obj = id}
      Before(a, b) == \/ job.chunks[a].chunk < job.chunks[b].chunk
                      \/ job.chunks[a].chunk = job.chunks[b].chunk /\ a < b
      order == SetToSortSeq(mine, Before)
  IN  [k \in DOMAIN order |-> job.chunks[order[k]].tag]

(* extract_entry.  A YAFFS1 special file is not made.                      *)
ExtractEntry ==
  /\ Running("yaffs") /\ job.at = "extracting" /\ job.todo # <<>>
  /\ job' = [job EXCEPT !.todo = Tail(@)]
  /\ LET id   == Head(job.todo)
         e    == job.entries[id]
         path == PathOf(id)
         dst  == Rel(path.parts)
     IN  IF ~path.ok THEN fs' = Raise(fs)
         ELSE \/ e.type = "dir" /\ fs' = MkDir(fs, dst, FALSE, TRUE)
              \/ e.type = "file" /\ fs' = WriteChunks(fs, dst, <<id, GetChunks(id)>>)
              \/ e.type = "lnk" /\ \E to \in LinkTargets : fs' = CreateSymlink(fs, to, dst)
              \/ /\ e.type = "special"
                 /\ \E root \in BOOLEAN :
                      fs' = IF job.version = 1 THEN fs ELSE MkNod(fs, dst, root)
              \/ /\ e.type = "hard"
                 /\ fs' = IF e.equiv \in DOMAIN job.entries /\ PathOf(e.equiv).ok
                          THEN CreateHardlink(fs, Rel(PathOf(e.equiv).parts), dst)
                          ELSE Raise(fs)

ExtractEnd ==
  /\ Running("yaffs") /\ job.at = "extracting" /\ job.todo = <<>>
  /\ job' = [job EXCEPT !.at = "end"] /\ UNCHANGED fs

YaffsNext == WriterStep \/ ParseStart \/ ParsePage \/ ParseEnd
             \/ ExtractEntry \/ ExtractEnd

-----------------------------------------------------------------------------
TruePath(id) ==
  LET path[i \in DOMAIN job.truth] ==
        IF i = Root THEN <<>> ELSE Append(path[job.truth[i].parent], job.truth[i].name)
  IN  path[id]

TrueData(id) ==
  LET data == job.truth[id].data
      order == SetToSortSeq(DOMAIN data, <)
  IN  [k \in DOMAIN order |-> data[order[k]]]

Extracted == job.kind = "yaffs" /\ job.at = "end" /\ fs.outcome = "ok"

(* Whichever header of an object comes last in the log takes precedence    *)
(* (insert_entry): an extraction without exception has every object it     *)
(* knows under its latest name in its latest directory, nothing is left    *)
(* under an older one, and a YAFFS2 log, from which nothing is deleted,    *)
(* loses no object.                                                        *)
LatestHeaderHolds ==
  Extracted =>
    /\ \A id \in DOMAIN job.entries :
         LET loc == TruePath(id)
         IN  CASE job.truth[id].type = "file" ->
                    /\ Is(fs.tree, loc, "file")
                    /\ id \notin job.rewritten =>
                         fs.tree[loc] = File(<<id, TrueData(id)>>)
               [] job.truth[id].type = "dir" -> Is(fs.tree, loc, "dir")
               [] OTHER -> TRUE
    /\ fs.problems = {} =>
         \A loc \in DOMAIN fs.tree :
           \E id \in DOMAIN job.truth : TruePath(id) = loc
    /\ job.version = 2 => DOMAIN job.entries = DOMAIN job.truth
=============================================================================
