---------------------------- MODULE MCInvocation ----------------------------
(* Two workers, two results, and every fault.                              *)
EXTENDS Invocation
=============================================================================
