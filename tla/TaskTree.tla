------------------------------ MODULE TaskTree ------------------------------
(***************************************************************************)
(* The tasks (models.py) that one call of process_file creates.  A task    *)
(* object is built by Processor.process_task while it handles its parent   *)
(* task, or it is the task of the input file: the tasks form a tree.       *)
(***************************************************************************)
CONSTANTS Tasks,      \* the task objects
          Root,       \* the task of the input file
          Children    \* Children[t]: the subtasks in the result of t

ASSUME TasksAssumption ==
  /\ Root \in Tasks
  /\ Children \in [Tasks -> SUBSET Tasks]
  /\ \A t \in Tasks : Root \notin Children[t]
  /\ \A t, u \in Tasks : t # u => Children[t] \cap Children[u] = {}

\* The result of the input file is there, and with every result those of all its
\* subtasks: the whole tree has been processed.
Complete(R) == Root \in R /\ \A t \in R : Children[t] \subseteq R
=============================================================================
