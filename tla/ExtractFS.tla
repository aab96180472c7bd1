----------------------------- MODULE ExtractFS -----------------------------
(***************************************************************************)
(* FileSystem of file_utils.py: the one way Python extractors change the   *)
(* output directory.  Every method is an operator from one state of the    *)
(* output to the next; the extractors of the other modules compose them.   *)
(*                                                                         *)
(* A state is a record: tree, the nodes by location (the sequence of names *)
(* from the root); problems, what record_problem collected; outcome, "ok"  *)
(* until a method raises or blocks (later calls then change nothing: the   *)
(* exception leaves extract()); escaped, whether a system call ever acted  *)
(* on something that is not below the root.                                *)
(*                                                                         *)
(* A path is [abs, parts]; parts are names and "..".  pathlib drops ".".   *)
(* Whatever is not below the root is one place, Outside, and no walk comes *)
(* back from it: the root's own name and its parents' are not in archives. *)
(***************************************************************************)
EXTENDS Naturals, Sequences, SequencesExt, TLC

CONSTANTS Names,                  \* the names in paths: strings
          MaxLinks                \* links one lookup follows before ELOOP

Up == ".."
NoName == ""
LostAndFound == ".unblob-lost+found"

ASSUME LinksAssumption == MaxLinks \in Nat
ASSUME NamesAssumption == {NoName, Up, "dot-dot", LostAndFound} \subseteq Names

Path(abs, parts) == [abs |-> abs, parts |-> parts]
Pathnames == [abs : BOOLEAN, parts : Seq(Names)]

Dir      == [kind |-> "dir"]
Fifo     == [kind |-> "fifo"]
Dev      == [kind |-> "dev"]
File(id) == [kind |-> "file", id |-> id]      \* id: whose data it holds
Link(to) == [kind |-> "link", to |-> to]

(* f with its value at x now y, f given one there.                         *)
Bind(f, x, y) == [z \in DOMAIN f \cup {x} |-> IF z = x THEN y ELSE f[z]]

EmptyFS == [tree |-> [loc \in {<<>>} |-> Dir], problems |-> {}, outcome |-> "ok",
            escaped |-> FALSE]

Is(tree, loc, kind) == loc \in DOMAIN tree /\ tree[loc].kind = kind
Children(tree, loc) == {l \in DOMAIN tree : l # <<>> /\ Front(l) = loc}

(***************************************************************************)
(* Lookups.  A walk ends At a location, Outside, or with an errno.  The    *)
(* lax one is Path.resolve(strict=False), which steps over what does not   *)
(* exist; the strict one is what the kernel does with a path.              *)
(***************************************************************************)
At(loc)  == [st |-> "at", loc |-> loc]
Outside  == [st |-> "out"]
Errno(e) == [st |-> e]

(* What is left of a walk: where it is, the parts to come and the links it *)
(* may still follow; and one step of it, where walk tells how the rest     *)
(* ends.                                                                   *)
Walks == [at : Seq(Names), parts : Seq(Names), links : 0 .. MaxLinks]
WalkStep(tree, lax, walk, w) ==
  LET name == Head(w.parts)
      rest == Tail(w.parts)
      loc  == Append(w.at, name)
  IN  IF w.parts = <<>> THEN At(w.at)
      ELSE IF ~lax /\ ~Is(tree, w.at, "dir")
      THEN Errno(IF w.at \in DOMAIN tree THEN "enotdir" ELSE "enoent")
      ELSE IF name = Up
      THEN IF w.at = <<>> THEN Outside
           ELSE walk[[at |-> Front(w.at), parts |-> rest, links |-> w.links]]
      ELSE IF ~Is(tree, loc, "link")
      THEN walk[[at |-> loc, parts |-> rest, links |-> w.links]]
      ELSE IF w.links = 0 THEN Errno("eloop")
      ELSE IF tree[loc].to.abs THEN Outside
      ELSE walk[[at |-> w.at, parts |-> tree[loc].to.parts \o rest, links |-> w.links - 1]]

Walk(tree, path, lax) ==
  LET walk[w \in Walks] == WalkStep(tree, lax, walk, w)
  IN  walk[[at |-> <<>>, parts |-> path, links |-> MaxLinks]]

Resolve(tree, parts) == Walk(tree, parts, TRUE)
Follow(tree, parts)  == Walk(tree, parts, FALSE)

(* The last name is not followed: unlink, rename, link, O_EXCL, mkdir.     *)
NameIn(tree, dir, name) ==
  CASE dir.st # "at" -> dir
    [] dir.st = "at" /\ ~Is(tree, dir.loc, "dir") ->
         Errno(IF dir.loc \in DOMAIN tree THEN "enotdir" ELSE "enoent")
    [] dir.st = "at" /\ Is(tree, dir.loc, "dir") /\ name = Up ->
         IF dir.loc = <<>> THEN Outside ELSE At(Front(dir.loc))
    [] OTHER -> At(Append(dir.loc, name))
NoFollow(tree, parts) ==
  IF parts = <<>> THEN At(<<>>)
  ELSE NameIn(tree, Follow(tree, Front(parts)), Last(parts))

Missing(tree, r) == r.st = "enoent" \/ (r.st = "at" /\ r.loc \notin DOMAIN tree)
Exists(tree, parts) ==
  LET r == Follow(tree, parts) IN r.st = "at" /\ r.loc \in DOMAIN tree

-----------------------------------------------------------------------------
(* F(x), with x evaluated once.                                            *)
With(x, F(_)) == CHOOSE y \in {F(v) : v \in {x}} : TRUE

Put(s, loc, node) == [s EXCEPT !.tree = Bind(@, loc, node)]
DropNode(s, loc) ==
  [s EXCEPT !.tree = [l \in DOMAIN @ \ {loc} |-> @[l]]]
Raise(s)  == [s EXCEPT !.outcome = "raised"]
Escape(s) == [s EXCEPT !.escaped = TRUE]
Record(s, problem, path) ==
  [s EXCEPT !.problems = @ \cup {[problem |-> problem, path |-> path]}]

(* The hash makes the directory's slug injective; the slug is one name.    *)
Slug(dir) == IF ToString(dir) \in Names THEN ToString(dir) ELSE NoName

MakeLostAndFoundPath(path) ==
  <<LostAndFound, Slug(<<path.abs, Front(path.parts)>>),
    IF Last(path.parts) = Up THEN "dot-dot" ELSE Last(path.parts)>>

(* Mutant: ".." is looked for in the text of the path, links are not followed. *)
FSPath_Lexical(tree, path) ==
  [safe |-> Up \notin Range(path.parts), fails |-> FALSE,
   parts |-> IF Up \in Range(path.parts) THEN MakeLostAndFoundPath(path) ELSE path.parts]

(* chop_root: an absolute path is taken as relative, so abs is not looked  *)
(* at.  fails: resolve() met a loop, or the redirected path is not safe    *)
(* either and the constructor's assertion fires.                           *)
FSPath(tree, path) ==
  LET r    == Resolve(tree, path.parts)
      lost == MakeLostAndFoundPath(path)
      to   == IF r.st = "out" THEN lost ELSE path.parts
  IN  [safe  |-> r.st = "at", parts |-> to,
       fails |-> Resolve(tree, to).st # "at"]

(* _get_extraction_path: a redirected path is a problem.                   *)
GetExtractionPath(s, path, p) ==
  IF p.fails THEN Raise(s) ELSE IF p.safe THEN s ELSE Record(s, "traversal", path)

(* ... and then the rest of the method on the path it gives.               *)
WithPath(s, path, Then(_, _)) ==
  LET p == FSPath(s.tree, path)
  IN  IF s.outcome = "ok" /\ ~p.fails
      THEN Then(GetExtractionPath(s, path, p), p.parts)
      ELSE IF s.outcome = "ok" THEN GetExtractionPath(s, path, p) ELSE s

(* mkdir of one path with exist_ok: an existing directory, or a link to    *)
(* one, is fine.                                                           *)
MakeDir(s, parts) ==
  LET d == Follow(s.tree, parts)
      n == NoFollow(s.tree, parts)
  IN  CASE s.outcome # "ok" -> s
        [] s.outcome = "ok" /\ d.st = "at" /\ Is(s.tree, d.loc, "dir") -> s
        [] s.outcome = "ok" /\ n.st = "at" /\ n.loc \notin DOMAIN s.tree ->
             Put(s, n.loc, Dir)
        [] s.outcome = "ok" /\ d.st = "out" -> Escape(s)
        [] OTHER -> Raise(s)

(* parent.mkdir(parents=True, exist_ok=True).                              *)
EnsureParentDir(s, parts) ==
  LET made[k \in 0 .. Len(parts)] ==
        IF k = 0 THEN s
        ELSE With(made[k - 1], LAMBDA t : MakeDir(t, SubSeq(parts, 1, k - 1)))
  IN  made[Len(parts)]

(* A system call that makes a new name and fails if there is one.          *)
Create(s, parts, node) ==
  LET n == NoFollow(s.tree, parts)
  IN  CASE s.outcome # "ok" -> s
        [] s.outcome = "ok" /\ n.st = "out" -> Escape(s)
        [] s.outcome = "ok" /\ n.st = "at" /\ n.loc \notin DOMAIN s.tree ->
             Put(s, n.loc, node)
        [] OTHER -> Raise(s)

(* open("wb"): follows links, replaces the data of every name of the file; *)
(* a fifo without a reader blocks the open for good.                       *)
OpenWrite(s, parts, id) ==
  LET f == Follow(s.tree, parts)
  IN  CASE s.outcome # "ok" -> s
        [] s.outcome = "ok" /\ f.st = "out" -> Escape(s)
        [] s.outcome = "ok" /\ f.st = "at" /\ f.loc \notin DOMAIN s.tree ->
             Put(s, f.loc, File(id))
        [] s.outcome = "ok" /\ f.st = "at" /\ Is(s.tree, f.loc, "file") ->
             [s EXCEPT !.tree = [l \in DOMAIN @ |->
                IF @[l] = @[f.loc] THEN File(id) ELSE @[l]]]
        [] s.outcome = "ok" /\ f.st = "at" /\ Is(s.tree, f.loc, "fifo") ->
             [s EXCEPT !.outcome = "blocked"]
        [] s.outcome = "ok" /\ f.st = "at" /\ Is(s.tree, f.loc, "dev") -> s
        [] OTHER -> Raise(s)

-----------------------------------------------------------------------------
(* The methods, in the order of the source.                                *)
WriteBytes(s, path, id) ==
  WithPath(s, path, LAMBDA t, parts :
    OpenWrite(EnsureParentDir(t, parts), parts, id))

WriteChunks(s, path, id) == WriteBytes(s, path, id)    \* and a chmod of it

Carve(s, path, id) ==
  WithPath(s, path, LAMBDA t, parts :
    Create(EnsureParentDir(t, parts), parts, File(id)))

MkDir(s, path, parents, exist_ok) ==
  WithPath(s, path, LAMBDA t, parts :
    LET u == IF parents THEN EnsureParentDir(t, parts) ELSE t
    IN  IF exist_ok THEN MakeDir(u, parts) ELSE Create(u, parts, Dir))

MkFifo(s, path) ==
  WithPath(s, path, LAMBDA t, parts :
    Create(EnsureParentDir(t, parts), parts, Fifo))

(* Mutant: without root permissions the device is passed over in silence. *)
MkNod_Silent(s, path, has_root_permissions) ==
  WithPath(s, path, LAMBDA t, parts :
    IF has_root_permissions THEN Create(EnsureParentDir(t, parts), parts, Dev) ELSE t)

MkNod(s, path, has_root_permissions) ==
  WithPath(s, path, LAMBDA t, parts :
    IF has_root_permissions THEN Create(EnsureParentDir(t, parts), parts, Dev)
    ELSE Record(t, "special", path))

(* _get_checked_link: both ends are looked up, either may raise.  An       *)
(* unsafe link is made all the same unless its name is taken.  A redirect  *)
(* of the name is not recorded.                                            *)
WithLink(s, src, dst, Then(_, _)) ==
  LET d == FSPath(s.tree, dst)
      c == FSPath(s.tree, src)
  IN  CASE s.outcome # "ok" -> s
        [] s.outcome = "ok" /\ (d.fails \/ c.fails) -> Raise(s)
        [] s.outcome = "ok" /\ ~d.fails /\ ~c.fails
             /\ ~(d.safe /\ c.safe) /\ Exists(s.tree, d.parts) ->
             Record(s, "exists", dst)
        [] OTHER -> Then(d.parts, c.parts)

(* dst.parent / src: an absolute target replaces the directory.            *)
CreateSymlink(s, src, dst) ==
  LET target == IF src.abs THEN src
                ELSE [dst EXCEPT !.parts = Front(@) \o src.parts]
  IN  WithLink(s, target, dst, LAMBDA d, c :
        Create(EnsureParentDir(s, d), d, Link(src)))

LinkNode(s, src, dst, path) ==
  LET from == NoFollow(s.tree, src)
      to   == NoFollow(s.tree, dst)
  IN  IF s.outcome # "ok" THEN s
      ELSE IF from.st = "out" \/ to.st = "out" THEN Escape(s)
      ELSE IF Missing(s.tree, from) \/ to.st = "enoent" THEN Record(s, "no target", path)
      ELSE IF from.st # "at" \/ ~Missing(s.tree, to) THEN Raise(s)
      ELSE IF Is(s.tree, from.loc, "dir") THEN Record(s, "privileges", path)
      ELSE Put(s, to.loc, s.tree[from.loc])

CreateHardlink(s, src, dst) ==
  WithLink(s, src, dst, LAMBDA d, c : LinkNode(EnsureParentDir(s, d), c, d, dst))

(* open in a read-write mode: "wb+" makes or empties the file, "rb+" wants *)
(* it there, "xb+" wants it absent; a fifo opens but cannot be seeked.     *)
OpenIn(s, parts, mode, id) ==
  LET f == Follow(s.tree, parts)
  IN  CASE s.outcome # "ok" -> s
        [] s.outcome = "ok" /\ mode = "xb+" -> Create(s, parts, File(id))
        [] s.outcome = "ok" /\ mode # "xb+" /\ f.st = "out" -> Escape(s)
        [] s.outcome = "ok" /\ mode # "xb+" /\ f.st # "out"
             /\ (f.st # "at" \/ Is(s.tree, f.loc, "fifo")
                 \/ (mode = "rb+" /\ Missing(s.tree, f))) -> Raise(s)
        [] OTHER -> OpenWrite(s, parts, id)

Open(s, path, mode, id) ==
  WithPath(s, path, LAMBDA t, parts : OpenIn(EnsureParentDir(t, parts), parts, mode, id))

Unlink(s, path) ==
  WithPath(s, path, LAMBDA t, parts :
    LET n == NoFollow(t.tree, parts)
    IN  IF n.st = "out" THEN Escape(t)
        ELSE IF Missing(t.tree, n) THEN t
        ELSE IF n.st # "at" \/ Is(t.tree, n.loc, "dir") THEN Raise(t)
        ELSE DropNode(t, n.loc))

RmDir(s, path) ==
  WithPath(s, path, LAMBDA t, parts :
    LET n == NoFollow(t.tree, parts)
    IN  IF n.st = "out" THEN Escape(t)
        ELSE IF Missing(t.tree, n) THEN Record(t, "not found", path)
        ELSE IF n.st = "at" /\ Is(t.tree, n.loc, "dir")
                /\ Children(t.tree, n.loc) = {} THEN DropNode(t, n.loc)
        ELSE Raise(t))

(* rename(2): a directory only over an empty one and never below itself,   *)
(* anything else only over something that is not a directory.              *)
Move(s, from, to) ==
  LET moved == {l \in DOMAIN s.tree : IsPrefix(from, l)}
      rest  == DOMAIN s.tree \ (moved \cup {to})
      New(l) == to \o SubSeq(l, Len(from) + 1, Len(l))
  IN  [s EXCEPT !.tree =
         [l \in rest \cup {New(m) : m \in moved} |->
            IF l \in rest THEN @[l] ELSE @[CHOOSE m \in moved : New(m) = l]]]

RenameNode(s, src, dst, path) ==
  LET from == NoFollow(s.tree, src)
      to   == NoFollow(s.tree, dst)
  IN  IF s.outcome # "ok" THEN s
      ELSE IF from.st = "out" \/ to.st = "out" THEN Escape(s)
      ELSE IF Missing(s.tree, from) \/ to.st = "enoent" THEN Record(s, "not found", path)
      ELSE IF from.st # "at" \/ to.st # "at" THEN Raise(s)
      ELSE IF \/ from = to                       \* or two names of one file
              \/ Is(s.tree, from.loc, "file") /\ to.loc \in DOMAIN s.tree
                 /\ s.tree[to.loc] = s.tree[from.loc] THEN s
      ELSE IF \/ IsPrefix(from.loc, to.loc)
              \/ /\ to.loc \in DOMAIN s.tree
                 /\ \/ Is(s.tree, from.loc, "dir") # Is(s.tree, to.loc, "dir")
                    \/ Children(s.tree, to.loc) # {} THEN Raise(s)
      ELSE Move(s, from.loc, to.loc)

Rename(s, src, dst) ==
  WithPath(s, src, LAMBDA t, c :
    WithPath(t, dst, LAMBDA u, d : RenameNode(EnsureParentDir(u, d), c, d, dst)))

(* truncate, set_xattr, remove_xattr, utime, chmod: of what the path leads *)
(* to; fits says whether the call works on a node of that kind.            *)
Touch(s, path, fits(_)) ==
  WithPath(s, path, LAMBDA t, parts :
    LET f == Follow(t.tree, parts)
    IN  IF f.st = "out" THEN Escape(t)
        ELSE IF Missing(t.tree, f) THEN Record(t, "not found", path)
        ELSE IF f.st # "at" THEN Raise(t)
        ELSE IF fits(t.tree[f.loc].kind) THEN t ELSE Raise(t))

Truncate(s, path) == Touch(s, path, LAMBDA kind : kind \in {"file", "dev"})
UTime(s, path) == Touch(s, path, LAMBDA kind : TRUE)
ChMod(s, path) == Touch(s, path, LAMBDA kind : TRUE)

(* set_xattr turns every OSError into a problem; remove_xattr only a       *)
(* missing file and a refusal, so a missing attribute raises.              *)
SetXattr(s, path, result) ==
  WithPath(s, path, LAMBDA t, parts :
    LET f == Follow(t.tree, parts)
    IN  IF f.st = "out" THEN Escape(t)
        ELSE IF ~Exists(t.tree, parts) \/ result # "done"
        THEN Record(t, "xattr", path) ELSE t)

RemoveXattr(s, path, result) ==
  WithPath(s, path, LAMBDA t, parts :
    LET f == Follow(t.tree, parts)
    IN  IF f.st = "out" THEN Escape(t)
        ELSE IF Missing(t.tree, f) THEN Record(t, "not found", path)
        ELSE IF f.st # "at" THEN Raise(t)
        ELSE CASE result = "done"   -> t
               [] result = "denied" -> Record(t, "xattr", path)
               [] OTHER             -> Raise(t))
=============================================================================
