------------------------------ MODULE TaskPool ------------------------------
(***************************************************************************)
(* What a pool of python/unblob/pool.py promises its only caller,          *)
(* _process_task of processing.py: starting from one root task, every task *)
(* that is submitted is handled and its result registered, every subtask   *)
(* of a registered result has been submitted, and process_until_done       *)
(* returns normally only when nothing submitted is left unregistered.      *)
(*                                                                         *)
(* Nothing is said here about workers, queues or the order of results:     *)
(* MultiPool and SinglePool are two implementations of this module.        *)
(***************************************************************************)
EXTENDS TaskTree

VARIABLES submitted,    \* the tasks given to pool.submit so far
          registered,   \* the tasks whose result is in aggregated_result
          status        \* "running", "done" (returned), "failed" (raised)

vars == <<submitted, registered, status>>

Init ==
  /\ submitted = {}
  /\ registered = {}
  /\ status = "running"

\* pool.submit of the input file, or of one subtask of a result
Submit(t) ==
  /\ status = "running"
  /\ t \notin submitted
  /\ t = Root \/ \E p \in submitted \ registered : t \in Children[p]
  /\ submitted' = submitted \cup {t}
  /\ UNCHANGED <<registered, status>>

\* aggregated_result.register, after all the subtasks were submitted
Register(t) ==
  /\ status = "running"
  /\ t \in submitted \ registered
  /\ Children[t] \subseteq submitted
  /\ registered' = registered \cup {t}
  /\ UNCHANGED <<submitted, status>>

\* process_until_done returns
Finish ==
  /\ status = "running"
  /\ Root \in submitted
  /\ submitted = registered
  /\ status' = "done"
  /\ UNCHANGED <<submitted, registered>>

\* an exception leaves the with block, or the process dies
Fail ==
  /\ status \in {"running", "done"}
  /\ status' = "failed"
  /\ UNCHANGED <<submitted, registered>>

Next ==
  \/ \E t \in Tasks : Submit(t) \/ Register(t)
  \/ Finish
  \/ Fail

Spec == Init /\ [][Next]_vars

-----------------------------------------------------------------------------

TypeOK ==
  /\ submitted \subseteq Tasks
  /\ registered \subseteq submitted
  /\ status \in {"running", "done", "failed"}

\* A normal return means that the whole task tree was processed.
DoneMeansComplete == status = "done" => Complete(registered)

Inv ==
  /\ TypeOK
  /\ \A t \in registered : Children[t] \subseteq submitted
  /\ status = "done" => Root \in submitted /\ submitted = registered
=============================================================================
