------------------------------- MODULE Chunks -------------------------------
(***************************************************************************)
(* Chunk of python/unblob/models.py: a non-empty slice [start, end) of a   *)
(* file, and the relations between chunks that the finder and the carving  *)
(* of processing.py are built on.                                          *)
(***************************************************************************)
EXTENDS Integers

\* What Chunk.__attrs_post_init__ accepts; otherwise it raises InvalidInputFormat.
Chunk == {c \in [start : Nat, end : Nat] : c.start < c.end}

ChunkSize(c) == c.end - c.start

\* Chunk.contains: strictly larger, and the other within it
Contains(c, d) ==
  \/ c.start < d.start /\ c.end >= d.end
  \/ c.start <= d.start /\ c.end > d.end

\* Chunk.contains_offset
ContainsOffset(c, o) == c.start <= o /\ o < c.end

\* No byte belongs to both.
Disjoint(c, d) == c.end <= d.start \/ d.end <= c.start
=============================================================================
