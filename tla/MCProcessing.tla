---------------------------- MODULE MCProcessing ----------------------------
(***************************************************************************)
(* Instances of Processing for TLC: firmware in two chunks and a gap, an   *)
(* archive that holds itself, one with a file whose output directory is in *)
(* the archive too, one with the parts of a multi-file, and failures.      *)
(***************************************************************************)
EXTENDS Processing

CONSTANTS w1, w2

N(b) == [base |-> b, ext |-> 0]
MCInput == N("input")
MCWorkers == {w1, w2}
Symmetry == Permutations(MCWorkers)

Chunk(b, tree, result) == [name |-> N(b), handler |-> b, tree |-> tree, result |-> result]
Leaf == [chunks |-> <<>>, unknown |-> {}, skipped |-> FALSE]
Whole1(b, tree) == [Leaf EXCEPT !.chunks = <<Chunk(b, tree, "ok")>>]

Simple == <<N("s")>> :> "leaf"
Dir(names, c) == [p \in {<<N(b)>> : b \in names} |-> c]
Firmware == [Leaf EXCEPT !.chunks = <<Chunk("a", Dir({"z"}, "gz"), "ok"), Chunk("b", Simple, "error")>>,
                         !.unknown = {N("u")}]
Archive == Whole1("zip", Dir({"g"}, "gz") @@ (<<Suffixed(N("d"))>> :> "link")
                         @@ Dir({"d"}, "dir") @@ (<<N("d"), N("h")>> :> "hollow"))

\* extracted without trouble
CleanContent ==
  [leaf     |-> Leaf,
   gz       |-> Whole1("gz", Simple),
   hollow   |-> Whole1("gz", <<>>),
   broken   |-> [Leaf EXCEPT !.chunks = <<Chunk("gz", Simple, "error")>>],
   firmware |-> Firmware,
   archive  |-> Archive,
   failing  |-> Whole1("zip", Dir({"f"}, "broken")),
   quine    |-> Whole1("zip", Dir({"q"}, "quine"))]

\* ... with encrypted files, names that clash, and files in parts
MixedContent ==
  CleanContent @@
  [picture  |-> [Leaf EXCEPT !.skipped = TRUE],
   secret   |-> [Leaf EXCEPT !.chunks = <<Chunk("gz", <<>>, "silent")>>],
   twins    |-> [Leaf EXCEPT !.chunks = <<Chunk("a", <<>>, "silent"), Chunk("b", Simple, "ok")>>],
   gallery  |-> Whole1("zip", Dir({"i"}, "picture") @@ Dir({"k"}, "secret") @@ Dir({"l"}, "special")),
   clash    |-> Whole1("zip", Dir({"x"}, "gz") @@ (<<Suffixed(N("x"))>> :> "gz")),
   carved   |-> Whole1("zip", Dir({"x"}, "firmware") @@ (<<Suffixed(N("x"))>> :> "dir")),
   parts    |-> Whole1("zip", Dir({"p1", "p2"}, "leaf") @@ Dir({"g"}, "gz")),
   conflict |-> Whole1("zip", Dir({"p1", "p2", "r"}, "leaf")),
   taken    |-> Whole1("zip", Dir({"p1"}, "leaf") @@ (<<Suffixed(N("p"))>> :> "dir")),
   volumes  |-> Whole1("zip", Dir({"e", "n"}, "leaf"))]

\* a link that nothing is extracted through, and one that leads two files to one directory
MCLinks == "link" :> <<N("h")>> @@ "to_x" :> <<Suffixed(N("x"))>>
LinkedContent ==
  [leaf |-> Leaf, gz |-> Whole1("gz", Simple),
   linked |-> Whole1("zip", Dir({"x", "y"}, "gz") @@ (<<Suffixed(N("y"))>> :> "to_x"))]

Part(t, S, n, res) == [trigger |-> N(t), parts |-> {N(x) : x \in S}, name |-> N(n),
                       tree |-> Simple, result |-> res]
MultiHandlers == <<Part("p1", {"p1", "p2"}, "p", "ok"), Part("r", {"r", "p2"}, "r", "ok"),
                   Part("e", {"e"}, "e", "error"), Part("n", {"n"}, "n", "silent")>>

Default == [force |-> FALSE, keep |-> FALSE, skip_extraction |-> FALSE, max_depth |-> 3,
            delete |-> "none", filter |-> {"gz"}, report |-> "yes"]
PlainConfigs == {Default, [Default EXCEPT !.keep = TRUE, !.max_depth = 2],
                 [Default EXCEPT !.skip_extraction = TRUE]}
DeleteConfigs == {[Default EXCEPT !.delete = "all"], [Default EXCEPT !.delete = "selected"]}
RerunConfigs == {[Default EXCEPT !.force = f, !.report = r, !.delete = d, !.max_depth = 2] :
                   f \in BOOLEAN, r \in {"no", "yes", "unwritable"}, d \in {"none", "selected", "all"}}
RerunContent == [c \in DOMAIN CleanContent \ {"quine"} |-> CleanContent[c]]
SecretContent == [c \in {"leaf", "picture", "secret", "gallery"} |-> MixedContent[c]]

\* The condition on names under which the properties hold; the linked files break it.
ASSUME NamesAssumption == NamesApart <=> "linked" \notin Files
\* ... and --force starts afresh.
ASSUME FreshAssumption == (\E c \in Configs : c.force) => FreshNames
=============================================================================
