---------------------------- MODULE MCExtraction ----------------------------
(* The extractors of Extractors on small inputs.                           *)
EXTENDS Extractors

a == "a"  b == "b"  c == "c"
MCNames == STRING
MCClientPaths == {Rel(<<a>>), Rel(<<a, b>>), Rel(<<Up, a>>), Path(TRUE, <<c, Up, a>>)}
MCLinkTargets == {Rel(<<a>>), Rel(<<Up>>), Path(TRUE, <<b>>)}
MCStreamPaths == {<<a>>, <<b>>, <<a, b>>}
MCCpioPaths == {Rel(<<>>), Rel(<<a>>), Rel(<<b>>), Path(TRUE, <<b, a>>)}

(* Disks of minix and ufs: a whole tree; a directory that holds itself;    *)
(* one in two places; the same name twice, the first time a link out; an   *)
(* entry with no inode; files with holes, and with all three indirections. *)
E(name, ino) == [name |-> name, ino |-> ino, reclen |-> 1]
NoTables == <<<<>>, <<>>, <<>>>>
Inode(type, entries) == [type |-> type, entries |-> entries, direct |-> <<>>,
                         indirect |-> NoTables, size |-> 0, to |-> Rel(<<a>>)]
Data(direct, indirect, size) ==
  [Inode("reg", <<>>) EXCEPT !.direct = direct, !.indirect = indirect, !.size = size]
LinkOut == [Inode("lnk", <<>>) EXCEPT !.to = Rel(<<Up, b>>)]

WholeDisk == (2 :> Inode("dir", <<E(".", 2), E("..", 2), E(a, 3), E("x", 0), E(b, 4), E(c, 5)>>))
  @@ (3 :> Data(<<7, 8>>, <<<<9, 10>>, <<>>, <<>>>>, 3)) @@ (5 :> LinkOut)
  @@ (4 :> Inode("dir", <<E(".", 4), E("..", 2), E(a, 3), E(b, 6), E(c, 7), E("d", 8)>>))
  @@ (6 :> Inode("fifo", <<>>)) @@ (7 :> Inode("dev", <<>>)) @@ (8 :> Inode("dir", <<>>))
SparseDisk == (2 :> Inode("dir", <<E(a, 3)>>)) @@ (3 :> 
  Data(<<7, 0>>, <<<<0, 10>>, <<<<0, 11>>, <<>>>>, <<>>>>, 6))
DeepDisk == (2 :> Inode("dir", <<E(a, 3)>>)) @@ (3 :>
  Data(<<7>>, <<<<8, 9>>, <<<<10, 11>>, <<12, 13>>>>, <<<<<<14, 15>>, <<16, 17>>>>, <<>>>>>>, 10))
SelfDisk == (2 :> Inode("dir", <<E(a, 2), E(b, 3)>>)) @@ (3 :> Inode("dir", <<E(c, 3)>>))
TwiceDisk == (2 :> Inode("dir", <<E(a, 3), E(b, 3)>>)) @@ (3 :> Inode("dir", <<E(c, 4)>>))
  @@ (4 :> Data(<<7>>, NoTables, 1))
SameName == (2 :> Inode("dir", <<E(a, 3), E(a, 4), E(b, 9)>>)) @@ (3 :> LinkOut)
  @@ (4 :> Data(<<7>>, NoTables, 1))
EndMark == (2 :> Inode("dir", <<[E(a, 3) EXCEPT !.reclen = 0], E(b, 3)>>))
  @@ (3 :> Data(<<>>, NoTables, 0))
NoDir == 2 :> Data(<<7>>, NoTables, 1)

(* Sparse ufs files: one without a single indirect block but with a double *)
(* one, and one whose double indirect block begins with a pointer of 0.    *)
GapDisk(indirect, size) == (2 :> Inode("dir", <<E(a, 3)>>)) @@ (3 :> Data(<<7>>, indirect, size))
GapDisks == {GapDisk(<<<<>>, <<<<8, 9>>, <<>>>>, <<>>>>, 5),
             GapDisk(<<<<10, 11>>, <<<<>>, <<8, 9>>>>, <<>>>>, 7)}
MCDisks == {WholeDisk, SparseDisk, DeepDisk, SelfDisk, TwiceDisk, SameName, EndMark, NoDir}
           \cup GapDisks

(* A romfs: dot entries, nested directories, a hard link to a later file;  *)
(* one with a directory whose contents lead back to it; a bad checksum; a  *)
(* chain that leads back.                                                  *)
H(type, name, next, spec) ==
  [type |-> type, name |-> name, next |-> next, spec |-> spec, to |-> Rel(<<a>>),
   intact |-> TRUE]
WholeRom == (2 :> H("dir", ".", 3, 2)) @@ (3 :> H("hard", "..", 4, 2))
  @@ (4 :> H("hard", a, 5, 9)) @@ (5 :> H("dir", b, 6, 8)) @@ (6 :> H("lnk", c, 7, 0))
  @@ (7 :> H("fifo", "d", 0, 0)) @@ (8 :> H("dev", a, 9, 0)) @@ (9 :> H("reg", b, 10, 0))
  @@ (10 :> H("dir", c, 0, 0))
LoopRom == (2 :> H("dir", a, 3, 4)) @@ (3 :> H("hard", b, 0, 7)) @@ (4 :> H("dir", c, 5, 2))
  @@ (5 :> H("sock", a, 0, 0))
BadRom == (2 :> H("dir", a, 0, 3)) @@ (3 :> [H("reg", b, 0, 0) EXCEPT !.intact = FALSE])
ChainRom == (2 :> H("reg", a, 3, 0)) @@ (3 :> H("reg", b, 2, 0))
MCRoms == {WholeRom, LoopRom, BadRom, ChainRom}
=============================================================================
