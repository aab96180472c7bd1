---------------------------- MODULE MCMultiPool -----------------------------
(* Instances of MultiPool for TLC: an input file whose processing yields two *)
(* subtasks, one of which yields a third.                                    *)
EXTENDS MultiPool, TLC

MCTasks == {"input", "dir", "chunk", "nested"}
MCRoot == "input"
MCChildren == ("input" :> {"dir", "chunk"}) @@ ("dir" :> {"nested"})
              @@ ("chunk" :> {}) @@ ("nested" :> {})
MCLarge == {"dir"}
AllFaults == {"interrupt", "crash"}
NoFaults == {}
=============================================================================
