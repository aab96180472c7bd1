----------------------------- MODULE MCHandlers -----------------------------
(***************************************************************************)
(* All handlers over small files: sizes, offsets and counts up to 3, files *)
(* of up to 6 units.                                                       *)
(***************************************************************************)
EXTENDS Handlers
=============================================================================
