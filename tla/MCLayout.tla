------------------------------ MODULE MCLayout ------------------------------
(* An instance of Layout for TLC: every list of one to three chunks of a   *)
(* file of FileSize bytes, overlapping and equal ones included.            *)
EXTENDS Layout, FiniteSets

CONSTANT FileSize

AllChunks == {c \in [start : 0..(FileSize-1), end : 1..FileSize] : c.start < c.end}
MCInputs == {[chunks |-> l, size |-> FileSize] :
               l \in UNION {[1..n -> AllChunks] : n \in 0..3}}
=============================================================================
