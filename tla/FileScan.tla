------------------------------ MODULE FileScan ------------------------------
(***************************************************************************)
(* What _FileTask.process of python/unblob/processing.py does before it    *)
(* carves: search_chunks (Finder), then remove_inner_chunks and            *)
(* calculate_unknown_chunks (Layout) on the list it returned.              *)
(***************************************************************************)
EXTENDS Finder

VARIABLES bySize, outer, byOffset, unknown, k, step    \* of Layout

layout == <<bySize, outer, byOffset, unknown, k, step>>
all == <<vars, layout>>

L == INSTANCE Layout WITH size <- file.size, Inputs <- {}

FileInit == Init /\ L!Start

Search == Scan /\ UNCHANGED layout
LayOut == pc = "done" /\ UNCHANGED vars /\ L!Step
Over == step \in {"done", "raised"} /\ UNCHANGED all

FileNext == Search \/ LayOut \/ Over
FileSpec == FileInit /\ [][FileNext]_all

-----------------------------------------------------------------------------
(* Properties.                                                             *)

\* A file is never given up because two of its chunks overlap: process_task would
\* report UnknownError and extract nothing of the file.
NeverRaised == step # "raised"

\* Once the layout is done, the chunks to extract and the chunks to carve as unknown
\* cover every byte of the file exactly once.
FileTiled == L!Tiled

\* Nothing that was recognised is dropped on the way: a match whose chunk was usable
\* starts inside of an outer chunk, or its pattern runs into one.
Accounted ==
  step = "done" => \A m \in file.matches :
    \/ real_offset(m) < 0 \/ m.calc = NoChunk \/ m.calc.end > file.size
    \/ \E j \in 1..Len(outer) : \/ ContainsOffset(outer[j], real_offset(m))
                                \/ Overlaps(m, outer[j])
=============================================================================
