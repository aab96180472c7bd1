------------------------------- MODULE Finder -------------------------------
(***************************************************************************)
(* search_chunks of python/unblob/finder.py: the file is scanned for the   *)
(* patterns of all handlers in blocks of DEFAULT_BUFSIZE; for every match  *)
(* the handler calculates a chunk; when there is one, the scan is restarted*)
(* at its end.                                                             *)
(*                                                                         *)
(* A file is abstracted to its size and to the set of its pattern matches. *)
(* A match is the place of the pattern (off, end), how far before it the   *)
(* handler wants to start (back, the negated PATTERN_MATCH_OFFSET) and the *)
(* outcome of the handler's calculate_chunk there: a chunk, or NoChunk for *)
(* None and for the exceptions that _calculate_chunk swallows.             *)
(***************************************************************************)
EXTENDS Chunks, Sequences, FiniteSets

CONSTANTS Files,      \* the files that are searched
          BufSize,    \* DEFAULT_BUFSIZE
          NoChunk

Matches ==
  {m \in [off : Nat, end : Nat, back : Nat, calc : Chunk \cup {NoChunk}] : m.off < m.end}

FileOK(f) ==
  /\ f.size \in Nat \ {0}        \* process_task does not search an empty file
  /\ f.matches \in SUBSET Matches
  /\ \A m \in f.matches : m.end <= f.size

ASSUME FinderAssumption ==
  /\ BufSize \in Nat \ {0}
  /\ NoChunk \notin Chunk
  /\ \A f \in Files : FileOK(f)

VARIABLES
  file,           \* the File that is searched
  i,              \* position of the block that is scanned
  reported,       \* matches reported by the scanner since its last reset
  start_offset,   \* context.start_offset, where the scanner's stream begins
  chunks,         \* context.all_chunks
  pc              \* "scan" or "done"

vars == <<file, i, reported, start_offset, chunks, pc>>

Init ==
  /\ file \in Files
  /\ i = 0 /\ start_offset = 0
  /\ reported = {} /\ chunks = <<>>
  /\ pc = "scan"

real_offset(m) == m.off - m.back

\* Hyperscan in streaming mode (external): the matches that lie after the beginning
\* of the stream and end in the data scanned so far are reported in the order of
\* their ends.  Those with the same end come in any order.
Pending == {m \in file.matches \ reported : start_offset <= m.off /\ m.end <= i + BufSize}
NextMatches == {m \in Pending : \A n \in Pending : m.end <= n.end}

\* any(chunk.contains_offset(real_offset) for chunk in context.all_chunks)
InsideChunk(m) == \E k \in 1..Len(chunks) : ContainsOffset(chunks[k], real_offset(m))
\* Mutants: matches within a chunk are not skipped; a chunk may not end with the file.
UsableAnywhere(m) == real_offset(m) >= 0 /\ m.calc # NoChunk /\ m.calc.end <= file.size
UsableBeforeEnd(m) == /\ real_offset(m) >= 0 /\ ~ InsideChunk(m)
                      /\ m.calc # NoChunk /\ m.calc.end < file.size

\* _hyperscan_match finds no reason to skip the match, and the handler's chunk fits
Usable(m) == /\ real_offset(m) >= 0
             /\ ~ InsideChunk(m)
             /\ m.calc # NoChunk /\ m.calc.end <= file.size

\* Scan.Continue
SkipMatch(m) ==
  /\ pc = "scan" /\ i < file.size
  /\ m \in NextMatches /\ ~ Usable(m)
  /\ reported' = reported \cup {m}
  /\ UNCHANGED <<file, i, start_offset, chunks, pc>>

\* Mutant: the scan goes on at the beginning of the chunk.
FoundChunkStart(m) ==
  /\ pc = "scan" /\ i < file.size
  /\ m \in NextMatches /\ Usable(m)
  /\ chunks' = Append(chunks, m.calc)
  /\ start_offset' = m.calc.start
  /\ i' = m.calc.start
  /\ reported' = {}
  /\ UNCHANGED <<file, pc>>

\* Scan.Terminate, then scanner.reset() and i = context.start_offset
FoundChunk(m) ==
  /\ pc = "scan" /\ i < file.size
  /\ m \in NextMatches /\ Usable(m)
  /\ chunks' = Append(chunks, m.calc)
  /\ start_offset' = m.calc.end
  /\ i' = m.calc.end
  /\ reported' = {}
  /\ UNCHANGED <<file, pc>>

\* i += DEFAULT_BUFSIZE
NextBlock ==
  /\ pc = "scan" /\ i < file.size
  /\ Pending = {}
  /\ i' = i + BufSize
  /\ UNCHANGED <<file, reported, start_offset, chunks, pc>>

\* Mutant: the loop ends before the last block.
EndSearchEarly ==
  /\ pc = "scan" /\ i + BufSize >= file.size
  /\ pc' = "done"
  /\ UNCHANGED <<file, i, reported, start_offset, chunks>>

\* search_chunks returns all_chunks
EndSearch ==
  /\ pc = "scan" /\ i >= file.size
  /\ pc' = "done"
  /\ UNCHANGED <<file, i, reported, start_offset, chunks>>

Match == \E m \in file.matches : SkipMatch(m) \/ FoundChunk(m)
Scan == Match \/ NextBlock \/ EndSearch
Finished == pc = "done" /\ UNCHANGED vars
Next == Scan \/ Finished

Spec == Init /\ [][Next]_vars

-----------------------------------------------------------------------------
(* What the finder needs of the handlers.                                  *)

\* A chunk reaches beyond the beginning of the pattern it was found by.
Advances(m) == m.calc # NoChunk => m.calc.end > m.off
\* A chunk starts where calculate_chunk was told to look.
StartsThere(m) == m.calc # NoChunk => m.calc.start = real_offset(m)

AllAdvance == \A f \in Files : \A m \in f.matches : Advances(m)
AllStartThere == \A f \in Files : \A m \in f.matches : StartsThere(m)

-----------------------------------------------------------------------------
(* Properties.                                                             *)

TypeOK ==
  /\ FileOK(file)
  /\ i \in Nat /\ start_offset \in Nat
  /\ reported \in SUBSET file.matches
  /\ chunks \in Seq(Chunk)
  /\ pc \in {"scan", "done"}

\* Every chunk lies in the file and before the place where the scan goes on.
ChunksBehind ==
  \A k \in 1..Len(chunks) : chunks[k].end <= file.size /\ chunks[k].end <= start_offset

\* Two found chunks never overlap partially: the later one is behind the earlier
\* one, before it, or around it.  remove_inner_chunks and calculate_unknown_chunks
\* depend on it: an overlap makes the whole file fail.
Nested(c, d) == Disjoint(c, d) \/ Contains(d, c)
Laminar == \A k, l \in 1..Len(chunks) : k < l => Nested(chunks[k], chunks[l])

\* Each chunk moves the scan forward, so that no match is found again after a reset.
ScanAdvances == [][chunks' # chunks => start_offset' > start_offset]_vars

\* No match is lost in a reset or at a block boundary: one that yields no chunk
\* was not usable, or lies in a chunk, or its bytes run into one.
Overlaps(m, c) == m.off < c.end /\ c.start < m.end
NothingMissed ==
  pc = "done" => \A m \in file.matches :
     \/ real_offset(m) < 0 \/ m.calc = NoChunk \/ m.calc.end > file.size
     \/ InsideChunk(m)
     \/ \E k \in 1..Len(chunks) : Overlaps(m, chunks[k])
=============================================================================
