-------------------------- MODULE SinglePoolProofs --------------------------
(***************************************************************************)
(* SinglePool implements TaskPool, for every task tree.  What makes the    *)
(* recursion of submit right is that each active callback has passed just  *)
(* the subtasks that are no longer in its todo: those, and what they led   *)
(* to, are submitted, and nothing else is.                                 *)
(***************************************************************************)
EXTENDS SinglePool, SequenceTheorems, TLAPS

Frames == [task : Tasks, todo : SUBSET Tasks]
OnStack == {stack[i].task : i \in 1..Len(stack)}

TypeOK ==
  /\ stack \in Seq(Frames)
  /\ submitted \subseteq Tasks
  /\ results \in Seq(Tasks)
  /\ status \in {"running", "done", "failed"}

\* The callbacks are those of different tasks, submitted and not registered.
ActiveInv ==
  /\ \A i, j \in 1..Len(stack) : i # j => stack[i].task # stack[j].task
  /\ OnStack \cap Range(results) = {}
  /\ status # "failed" => submitted = OnStack \cup Range(results)
  /\ Range(results) \subseteq submitted

\* A callback submits the subtasks one by one.
TodoInv ==
  \A i \in 1..Len(stack) :
     /\ stack[i].todo \subseteq Children[stack[i].task]
     /\ stack[i].todo \cap submitted = {}
     /\ Children[stack[i].task] \ stack[i].todo \subseteq submitted

\* Nothing is submitted before the task that creates it.
ParentInv == \A t \in Tasks \ submitted : Children[t] \cap submitted = {}

IInv ==
  /\ TypeOK /\ ActiveInv /\ TodoInv /\ ParentInv
  /\ stack # <<>> => status = "running"
  /\ submitted # {} => Root \in submitted
  /\ status = "done" => submitted # {} /\ stack = <<>>

-----------------------------------------------------------------------------
\* What registering adds to the results.
LEMMA RangeAppend ==
  ASSUME NEW s \in Seq(Tasks), NEW x \in Tasks
  PROVE  Append(s, x) \in Seq(Tasks) /\ Range(Append(s, x)) = Range(s) \cup {x}
<1>1. /\ Append(s, x) \in Seq(Tasks) /\ Len(Append(s, x)) = Len(s) + 1
      /\ \A i \in 1..(Len(s) + 1) : Append(s, x)[i] = IF i <= Len(s) THEN s[i] ELSE x
  OBVIOUS
<1>2. Range(s) \cup {x} \subseteq Range(Append(s, x))
  BY <1>1 DEF Range
<1>3. Range(Append(s, x)) \subseteq Range(s) \cup {x}
  BY <1>1 DEF Range
<1> QED BY <1>1, <1>2, <1>3

\* What is left of a stack without its last element.
LEMMA PopFrame ==
  ASSUME NEW S, NEW s \in Seq(S), NEW n \in Nat \ {0}, n = Len(s)
  PROVE  /\ SubSeq(s, 1, n - 1) \in Seq(S)
         /\ Len(SubSeq(s, 1, n - 1)) = n - 1
         /\ \A i \in 1..(n - 1) : SubSeq(s, 1, n - 1)[i] = s[i] /\ i \in 1..n /\ i # n
OBVIOUS

\* pool.submit of the input file keeps the invariant.
LEMMA SubmitRootStep == IInv /\ SubmitRoot => IInv'
<1> SUFFICES ASSUME IInv, SubmitRoot PROVE IInv'
  OBVIOUS
<1>1. /\ stack' = <<Frame(Root)>> /\ submitted' = {Root} /\ results' = results
      /\ status' = "running" /\ submitted = {}
  BY DEF SubmitRoot
<1>2. Frame(Root) \in Frames /\ Frame(Root).task = Root /\ Frame(Root).todo = Children[Root]
  BY TasksAssumption DEF Frame, Frames
<1>3. stack' \in Seq(Frames) /\ Len(stack') = 1 /\ stack'[1] = Frame(Root)
  BY <1>1, <1>2
<1>4. OnStack' = {Root}
  BY <1>2, <1>3 DEF OnStack
<1>5. Range(results) = {}
  BY <1>1 DEF IInv, ActiveInv
<1>6. TypeOK' /\ ActiveInv'
  BY <1>1, <1>3, <1>4, <1>5, TasksAssumption DEF IInv, TypeOK, ActiveInv
<1>7. TodoInv'
  BY <1>1, <1>2, <1>3, TasksAssumption DEF TodoInv
<1>8. ParentInv'
  BY <1>1, TasksAssumption DEF ParentInv
<1> QED BY <1>1, <1>6, <1>7, <1>8 DEF IInv

\* The innermost callback, and the stack with one more on it.
LEMMA StackFacts ==
  ASSUME IInv, stack # <<>>
  PROVE  /\ Len(stack) \in Nat \ {0}
         /\ Top \in Frames /\ Top.task \in OnStack /\ Top.task \in submitted \ Range(results)
         /\ status = "running"
<1>1. Len(stack) \in Nat \ {0} /\ Top \in Frames /\ Top.task \in OnStack
  BY DEF IInv, TypeOK, Top, OnStack
<1> QED BY <1>1 DEF IInv, ActiveInv

\* pool.submit of a subtask keeps the invariant: its own subtasks are all new.
LEMMA SubmitSubtaskStep ==
  ASSUME NEW t \in Tasks PROVE IInv /\ SubmitSubtask(t) => IInv'
<1> SUFFICES ASSUME IInv, SubmitSubtask(t) PROVE IInv'
  OBVIOUS
<1> DEFINE n == Len(stack)
<1>1. /\ stack # <<>> /\ status = "running" /\ status' = "running" /\ results' = results
      /\ t \in Top.todo /\ submitted' = submitted \cup {t}
      /\ stack' = Append([stack EXCEPT ![n].todo = @ \ {t}], Frame(t))
  BY DEF SubmitSubtask
<1>2. /\ n \in Nat \ {0} /\ Top \in Frames /\ Top.task \in submitted
  BY <1>1, StackFacts
<1>3. Frame(t) \in Frames /\ Frame(t).task = t /\ Frame(t).todo = Children[t]
  BY TasksAssumption DEF Frame, Frames
<1>4. /\ stack' \in Seq(Frames) /\ Len(stack') = n + 1
      /\ \A i \in 1..n : stack'[i].task = stack[i].task
      /\ \A i \in 1..(n - 1) : stack'[i].todo = stack[i].todo
      /\ stack'[n].todo = Top.todo \ {t}
      /\ stack'[n + 1] = Frame(t)
  <2>1. [stack EXCEPT ![n].todo = @ \ {t}] \in Seq(Frames)
    BY <1>2 DEF IInv, TypeOK, Frames, Top
  <2> QED BY <1>1, <1>2, <1>3, <2>1 DEF IInv, TypeOK, Frames, Top
<1>5. t \notin submitted /\ t \in Children[Top.task]
  BY <1>1, <1>2 DEF IInv, TodoInv, Top
<1>6. OnStack' = OnStack \cup {t}
  <2>1. OnStack' \subseteq OnStack \cup {t}
    BY <1>2, <1>3, <1>4 DEF OnStack
  <2>2. OnStack \cup {t} \subseteq OnStack'
    <3>1. t \in OnStack'
      BY <1>2, <1>3, <1>4 DEF OnStack
    <3>2. \A i \in 1..n : stack[i].task \in OnStack'
      BY <1>2, <1>4 DEF OnStack
    <3> QED BY <3>1, <3>2 DEF OnStack
  <2> QED BY <2>1, <2>2
<1>7. TypeOK'
  BY <1>1, <1>4 DEF IInv, TypeOK
<1>8. ActiveInv'
  <2>1. \A i \in 1..n : stack[i].task \in submitted
    BY <1>1, <1>2 DEF IInv, ActiveInv, OnStack
  <2>2. \A i, j \in 1..Len(stack') : i # j => stack'[i].task # stack'[j].task
    BY <1>2, <1>3, <1>4, <1>5, <2>1 DEF IInv, ActiveInv
  <2>3. t \notin Range(results)
    BY <1>5 DEF IInv, ActiveInv
  <2> QED BY <1>1, <1>6, <2>2, <2>3 DEF IInv, ActiveInv
<1>9. TodoInv'
  <2>0. \A i \in 1..n : stack[i] \in Frames /\ stack[i].task \in submitted
    BY <1>1, <1>2 DEF IInv, TypeOK, ActiveInv, OnStack
  <2>1. \A i \in 1..(n - 1) : t \notin stack[i].todo
    <3> SUFFICES ASSUME NEW i \in 1..(n - 1), t \in stack[i].todo PROVE FALSE
      OBVIOUS
    <3>1. i \in 1..n /\ n \in 1..n /\ i # n
      BY <1>2
    <3>2. stack[i].task # Top.task
      BY <3>1 DEF IInv, ActiveInv, Top
    <3>3. t \in Children[stack[i].task]
      BY <3>1 DEF IInv, TodoInv
    <3> QED BY <1>2, <1>5, <2>0, <3>1, <3>2, <3>3, TasksAssumption DEF Frames
  <2>2. Children[t] \cap submitted = {} /\ t \notin Children[t]
    <3>1. Children[t] \cap submitted = {}
      BY <1>5 DEF IInv, ParentInv
    <3>2. t \notin Children[t]
      BY <1>2, <1>5, TasksAssumption DEF Frames
    <3> QED BY <3>1, <3>2
  <2>3. ASSUME NEW i \in 1..(n - 1)
        PROVE  /\ stack'[i].todo \subseteq Children[stack'[i].task]
               /\ stack'[i].todo \cap submitted' = {}
               /\ Children[stack'[i].task] \ stack'[i].todo \subseteq submitted'
    BY <1>1, <1>2, <1>4, <2>1 DEF IInv, TodoInv
  <2>4. /\ stack'[n].todo \subseteq Children[stack'[n].task]
        /\ stack'[n].todo \cap submitted' = {}
        /\ Children[stack'[n].task] \ stack'[n].todo \subseteq submitted'
    BY <1>1, <1>2, <1>4 DEF IInv, TodoInv, Top
  <2>5. /\ stack'[n + 1].todo \subseteq Children[stack'[n + 1].task]
        /\ stack'[n + 1].todo \cap submitted' = {}
        /\ Children[stack'[n + 1].task] \ stack'[n + 1].todo \subseteq submitted'
    BY <1>1, <1>3, <1>4, <2>2
  <2>6. \A i \in 1..(n + 1) : i \in 1..(n - 1) \/ i = n \/ i = n + 1
    BY <1>2
  <2> QED BY <1>4, <2>3, <2>4, <2>5, <2>6 DEF TodoInv
<1>10. ParentInv'
  <2> SUFFICES ASSUME NEW u \in Tasks \ submitted' PROVE t \notin Children[u]
    BY <1>1 DEF ParentInv, IInv
  <2> QED BY <1>1, <1>2, <1>5, TasksAssumption DEF Frames
<1> QED BY <1>1, <1>2, <1>7, <1>8, <1>9, <1>10 DEF IInv

\* The return of a callback keeps the invariant.
LEMMA RegisterStep == IInv /\ RegisterResult => IInv'
<1> SUFFICES ASSUME IInv, RegisterResult PROVE IInv'
  OBVIOUS
<1> DEFINE n == Len(stack)
<1>1. /\ stack # <<>> /\ status = "running" /\ status' = "running"
      /\ submitted' = submitted /\ results' = Append(results, Top.task)
      /\ stack' = SubSeq(stack, 1, n - 1)
  BY DEF RegisterResult
<1>2. n \in Nat \ {0} /\ Top \in Frames /\ Top.task \in submitted \ Range(results) /\ Top = stack[n]
  BY <1>1, StackFacts DEF Top
<1>3. /\ stack' \in Seq(Frames) /\ Len(stack') = n - 1
      /\ \A i \in 1..(n - 1) : stack'[i] = stack[i] /\ i \in 1..n /\ i # n
  <2>1. stack \in Seq(Frames)
    BY DEF IInv, TypeOK
  <2> QED BY <1>1, <1>2, <2>1, PopFrame
<1>4. Range(results') = Range(results) \cup {Top.task} /\ results' \in Seq(Tasks)
  BY <1>1, <1>2, RangeAppend DEF IInv, TypeOK, Frames
<1>5. OnStack' = OnStack \ {Top.task}
  <2>1. OnStack' \subseteq OnStack \ {Top.task}
    BY <1>2, <1>3 DEF OnStack, IInv, ActiveInv
  <2>2. OnStack \ {Top.task} \subseteq OnStack'
    <3> SUFFICES ASSUME NEW i \in 1..n, stack[i].task # Top.task
                 PROVE  stack[i].task \in OnStack'
      BY DEF OnStack
    <3>1. i \in 1..(n - 1)
      BY <1>2
    <3> QED BY <1>3, <3>1 DEF OnStack
  <2> QED BY <2>1, <2>2
<1>6. TypeOK'
  BY <1>1, <1>3, <1>4 DEF IInv, TypeOK
<1>7. ActiveInv'
  <2>1. \A i, j \in 1..Len(stack') : i # j => stack'[i].task # stack'[j].task
    BY <1>2, <1>3 DEF IInv, ActiveInv
  <2>2. Top.task \in OnStack
    BY <1>1, StackFacts
  <2> QED BY <1>1, <1>2, <1>4, <1>5, <2>1, <2>2 DEF IInv, ActiveInv
<1>8. TodoInv' /\ ParentInv'
  BY <1>1, <1>3 DEF IInv, TodoInv, ParentInv
<1> QED BY <1>1, <1>6, <1>7, <1>8 DEF IInv

\* Every step keeps the invariant.
LEMMA InvStep == IInv /\ [Next]_vars => IInv'
<1> SUFFICES ASSUME IInv, [Next]_vars PROVE IInv'
  OBVIOUS
<1>1. CASE ProcessUntilDone
  BY <1>1 DEF ProcessUntilDone, IInv, TypeOK, ActiveInv, TodoInv, ParentInv, OnStack
<1>2. CASE Interrupt
  <2>1. stack' = <<>> /\ status' = "failed" /\ submitted' = submitted /\ results' = results
    BY <1>2 DEF Interrupt
  <2>2. Len(stack') = 0 /\ stack' \in Seq(Frames) /\ OnStack' = {}
    BY <2>1 DEF OnStack
  <2> QED BY <2>1, <2>2 DEF IInv, TypeOK, ActiveInv, TodoInv, ParentInv
<1>3. CASE UNCHANGED vars
  BY <1>3 DEF vars, IInv, TypeOK, ActiveInv, TodoInv, ParentInv, OnStack
<1> QED BY <1>1, <1>2, <1>3, SubmitRootStep, SubmitSubtaskStep, RegisterStep DEF Next, Finished

\* The inductive invariant holds in every reachable state.
LEMMA Invariance == Spec => []IInv
<1>1. Init => IInv
  <2> SUFFICES ASSUME Init PROVE IInv
    OBVIOUS
  <2>1. stack = <<>> /\ Len(stack) = 0 /\ results = <<>> /\ submitted = {} /\ status = "running"
    BY DEF Init
  <2>2. OnStack = {} /\ Range(results) = {}
    BY <2>1 DEF OnStack, Range
  <2> QED BY <2>1, <2>2 DEF IInv, TypeOK, ActiveInv, TodoInv, ParentInv
<1> QED BY <1>1, InvStep, PTL DEF Spec

-----------------------------------------------------------------------------
\* Every step of SinglePool is one of TaskPool, or leaves its state alone.
LEMMA RefineNext == IInv /\ IInv' /\ [Next]_vars => [Promise!Next]_(Promise!vars)
<1> SUFFICES ASSUME IInv, IInv', [Next]_vars PROVE [Promise!Next]_(Promise!vars)
  OBVIOUS
<1>1. CASE SubmitRoot
  BY <1>1, TasksAssumption DEF SubmitRoot, Promise!Next, Promise!Submit
<1>2. ASSUME NEW t \in Tasks, SubmitSubtask(t) PROVE [Promise!Next]_(Promise!vars)
  <2>1. /\ Top.task \in submitted \ Range(results) /\ t \notin submitted
        /\ t \in Children[Top.task]
    BY <1>2, StackFacts DEF SubmitSubtask, IInv, TodoInv, Top
  <2> QED BY <1>2, <2>1 DEF SubmitSubtask, Promise!Next, Promise!Submit
<1>3. CASE RegisterResult
  <2>1. /\ Top.task \in Tasks /\ Top.task \in submitted \ Range(results)
        /\ Children[Top.task] \subseteq submitted
    BY <1>3, StackFacts DEF RegisterResult, IInv, TodoInv, Top, Frames
  <2>2. Range(results') = Range(results) \cup {Top.task}
    BY <1>3, <2>1, RangeAppend DEF RegisterResult, IInv, TypeOK
  <2> QED BY <1>3, <2>1, <2>2 DEF RegisterResult, Promise!Next, Promise!Register
<1>4. CASE ProcessUntilDone
  <2>1. OnStack = {}
    BY <1>4 DEF ProcessUntilDone, OnStack
  <2> QED BY <1>4, <2>1 DEF ProcessUntilDone, IInv, ActiveInv, Promise!Next, Promise!Finish
<1>5. CASE Interrupt
  BY <1>5 DEF Interrupt, Promise!Next, Promise!Fail
<1>6. CASE UNCHANGED vars
  BY <1>6 DEF vars, Promise!vars
<1> QED BY <1>1, <1>2, <1>3, <1>4, <1>5, <1>6 DEF Next, Finished

\* SinglePool keeps TaskPool's promise to _process_task: the callbacks that submit calls
\* recursively leave out no subtask, submit none twice, and are all done when it returns.
THEOREM Refinement == Spec => ImplementsTaskPool
<1>1. Init => Promise!Init
  BY DEF Init, Promise!Init, Range
<1> QED BY <1>1, RefineNext, Invariance, PTL DEF Spec, ImplementsTaskPool, Promise!Spec
=============================================================================
