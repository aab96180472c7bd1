----------------------------- MODULE SinglePool -----------------------------
(***************************************************************************)
(* SinglePool of python/unblob/pool.py, used when process_num is 1: submit *)
(* runs the handler and the process_result callback of _process_task       *)
(* (processing.py) at once, and the callback submits the subtasks by       *)
(* calling submit again.  The state is the stack of nested callbacks.      *)
(***************************************************************************)
EXTENDS TaskTree, Integers, Sequences, FiniteSets, Functions

VARIABLES stack,       \* the active callbacks, innermost last: [task, todo]
          submitted,   \* the tasks given to submit
          results,     \* aggregated_result.results
          status       \* "running", "done" (returned), "failed" (raised)

vars == <<stack, submitted, results, status>>

Frame(t) == [task |-> t, todo |-> Children[t]]
Top == stack[Len(stack)]

Init ==
  /\ stack = <<>>
  /\ submitted = {}
  /\ results = <<>>
  /\ status = "running"

\* pool.submit(task): handler, then the callback of its result begins
SubmitRoot ==
  /\ status = "running" /\ submitted = {}
  /\ submitted' = {Root}
  /\ stack' = <<Frame(Root)>>
  /\ UNCHANGED <<results, status>>

\* for new_task in result.subtasks: pool.submit(new_task)
SubmitSubtask(t) ==
  /\ status = "running" /\ stack # <<>>
  /\ t \in Top.todo
  /\ submitted' = submitted \cup {t}
  /\ stack' = Append([stack EXCEPT ![Len(stack)].todo = @ \ {t}], Frame(t))
  /\ UNCHANGED <<results, status>>

\* aggregated_result.register(result), and the callback returns
RegisterResult ==
  /\ status = "running" /\ stack # <<>>
  /\ Top.todo = {}
  /\ results' = Append(results, Top.task)
  /\ stack' = SubSeq(stack, 1, Len(stack) - 1)
  /\ UNCHANGED <<submitted, status>>

\* process_until_done has nothing to do: the outermost submit has returned
ProcessUntilDone ==
  /\ status = "running" /\ submitted # {} /\ stack = <<>>
  /\ status' = "done"
  /\ UNCHANGED <<stack, submitted, results>>

\* Mutant: submit swallows the exception of a handler.
Swallow ==
  /\ status = "running" /\ stack # <<>>
  /\ stack' = <<>>
  /\ UNCHANGED <<submitted, results, status>>

\* an exception unwinds all the callbacks: what they did not register is lost
Interrupt ==
  /\ status = "running" /\ stack # <<>>
  /\ status' = "failed"
  /\ stack' = <<>>
  /\ UNCHANGED <<submitted, results>>

Finished == status # "running" /\ UNCHANGED vars

Next ==
  \/ SubmitRoot
  \/ \E t \in Tasks : SubmitSubtask(t)
  \/ RegisterResult
  \/ ProcessUntilDone
  \/ Interrupt
  \/ Finished

Spec == Init /\ [][Next]_vars

-----------------------------------------------------------------------------
(* Properties.                                                             *)

\* The same promise to the caller as MultiPool's.
Promise == INSTANCE TaskPool WITH registered <- Range(results)
ImplementsTaskPool == Promise!Spec
=============================================================================
