------------------------------- MODULE Reader -------------------------------
(***************************************************************************)
(* What the calculate_chunk of every handler works with: a memory mapped   *)
(* File of known size whose cursor it moves, structures it parses at the   *)
(* cursor, and three ways to end: a ValidChunk, None, or an exception that *)
(* the finder catches.                                                     *)
(*                                                                         *)
(* Offsets count units: every fixed-size structure takes one.  What the    *)
(* file holds is chosen when it is parsed, field by field, from Fields; a  *)
(* text that must decode, a checksum that must match or a magic number     *)
(* that must be there is one Boolean field, ok.  What an extractor reads   *)
(* again is kept in hdr and toc.                                           *)
(***************************************************************************)
EXTENDS Chunks, Sequences, FiniteSets, FiniteSetsExt

CONSTANTS
  Fields,      \* the values of a size, offset or count field: small naturals with 0
  FileSizes,   \* the sizes a file may have, in units
  MaxEntries   \* the largest count of volumes, clusters or chunks a header declares

ASSUME FieldsAssumption == Fields \subseteq Nat /\ 0 \in Fields

VARIABLES
  size,        \* len(file)
  scan         \* the one calculation under way

readerVars == <<size, scan>>

(***************************************************************************)
(* scan: the handler, where it is in its code (at), the offset the finder  *)
(* gave it, the cursor, the header and the entries parsed, and how it      *)
(* ended.  reach is how far the sections or members it has seen go, where  *)
(* the end of the chunk is that (elf, zip), or where the data that the     *)
(* headers describe end, where the handler computes its end in another way *)
(* (ar, shrs, zlib, romfs): EndsWhereRead compares the two.                *)
(* carved holds the ranges of the chunk that the extractor has cut out.    *)
(* turn alternates, so that a turn of a loop that changes nothing else is  *)
(* still a step and a loop that never ends is a cycle of steps.            *)
(***************************************************************************)
Fresh(handler, start) ==
  [handler |-> handler, at |-> "header", start |-> start, pos |-> start,
   hdr |-> <<>>, toc |-> <<>>, reach |-> start, res |-> "running",
   from |-> start, to |-> start, carved |-> {}, turn |-> 0]

At(handler, at) == scan.handler = handler /\ scan.at = at

\* StructParser.parse: the structure at the cursor is complete
Parses == scan.pos >= 0 /\ scan.pos < size

\* The handler is at this point of its code and can parse the next structure.
Parse(handler, at) == At(handler, at) /\ Parses

End(s, res) == [s EXCEPT !.at = "done", !.res = res]

\* return None
Nothing(s) == End(s, "none")

\* InvalidInputFormat, EOFError and SeekError, which the finder catches
Raise(s) == End(s, "raise")

\* ValidChunk(start_offset = from, end_offset = to): Chunk.__attrs_post_init__ may refuse it.
Found(s, from, to) ==
  IF [start |-> from, end |-> to] \in Chunk
  THEN [s EXCEPT !.at = "extract", !.res = "chunk", !.from = from, !.to = to]
  ELSE Raise(s)

\* seek: the cursor may move anywhere; Parses tells whether something can be read there.
Seek(s, pos) == [s EXCEPT !.pos = pos]

\* What the format describes reaches to this offset.
Reach(s, end) == [s EXCEPT !.reach = Max({@, end})]

Go(s, at) == [s EXCEPT !.at = at]

Keep(s, header) == [s EXCEPT !.hdr = header]

AddEntry(s, entry) == [s EXCEPT !.toc = Append(@, entry)]

Entries(s) == {s.toc[i] : i \in DOMAIN s.toc}

\* A chunk that starts at the match.
FoundUpTo(s, end) == Found(s, s.start, end)

\* The extractor takes over the chunk that calculate_chunk delivered, unless it reaches out
\* of the file: the finder drops such a chunk.
Extract(handler) == At(handler, "extract") /\ scan.to <= size

\* The extractor has cut these ranges out of the chunk and is finished.
Carves(s, ranges) == [s EXCEPT !.at = "done", !.carved = ranges]

\* An entry [offset, size) of the chunk
Span(offset, length) == <<offset, offset + length>>

\* round_up of file_utils.py
RoundUp(n, alignment) == ((n + alignment - 1) \div alignment) * alignment

\* The handlers that test for the end of the file themselves before they parse.
AtEof(handler, at) == At(handler, at) /\ scan.pos >= size

\* One step of a calculation.
Set(s) == scan' = [s EXCEPT !.turn = 1 - @] /\ UNCHANGED size

(***************************************************************************)
(* StructParser.parse at an offset where the structure is not complete, or *)
(* File.seek out of the file: EOFError or SeekError leave the handler.     *)
(***************************************************************************)
ShortRead(eofTested) ==
  /\ scan.res = "running"
  /\ ~Parses
  /\ <<scan.handler, scan.at>> \notin eofTested
  /\ Set(Raise(scan))
=============================================================================
