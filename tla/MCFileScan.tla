----------------------------- MODULE MCFileScan -----------------------------
(***************************************************************************)
(* Instances of FileScan for TLC: all the files of FileSize bytes with one *)
(* to three pattern matches, scanned in blocks so small that patterns      *)
(* and chunks straddle them.                                               *)
(***************************************************************************)
EXTENDS FileScan

CONSTANTS FileSize, Backs, Lengths

Places ==
  {p \in [off : 0..(FileSize-1), end : 1..FileSize, back : Backs] : p.end - p.off \in Lengths}
MatchAt(p, c) == [off |-> p.off, end |-> p.end, back |-> p.back, calc |-> c]

\* the chunks of handlers that obey both rules; one may overflow the file
Obedient ==
  UNION {{MatchAt(p, [start |-> p.off - p.back, end |-> e]) : e \in (p.off+1)..(FileSize+1)} :
            p \in {q \in Places : q.back <= q.off}}
  \cup {MatchAt(p, NoChunk) : p \in Places}
\* ... and of the ISO 9660 handler: the pattern follows a system area (of two bytes
\* here), the size of the whole image is read from the header
Iso9660 ==
  UNION {{MatchAt(p, [start |-> p.off - 2, end |-> p.off - 2 + n]) : n \in 1..FileSize} :
            p \in {q \in Places : q.off >= 2 /\ q.back = 0}}

\* the files with one to three matches
FilesWith(S) == {[size |-> FileSize, matches |-> {m1, m2, m3}] : m1, m2, m3 \in S}

ObedientFiles == FilesWith(Obedient)
Iso9660Files == FilesWith(Iso9660)
=============================================================================
