---------------------------- MODULE MCSinglePool ----------------------------
(* An instance of SinglePool for TLC: a three level task tree.             *)
EXTENDS SinglePool, TLC

MCTasks == {"input", "dir", "chunk", "nested", "file", "empty", "link"}
MCRoot == "input"
MCChildren == ("input" :> {"dir", "chunk"}) @@ ("dir" :> {"nested", "file"})
              @@ ("chunk" :> {"empty", "link"}) @@ ("nested" :> {}) @@ ("file" :> {}) @@ ("empty" :> {}) @@ ("link" :> {})
=============================================================================
