--------------------------- MODULE MultiPoolProofs --------------------------
(***************************************************************************)
(* Proofs about MultiPool, for any set of workers, any task tree and any   *)
(* capacities and faults.  The inductive invariant IInv adds to the        *)
(* properties to be proved where the tasks are (Placed, WorkerInv,         *)
(* NoSentinel) and which tasks have been submitted (Tree).                 *)
(***************************************************************************)
EXTENDS MultiPool, FiniteSetTheorems, SequenceTheorems, TLAPS

-----------------------------------------------------------------------------
(* Sequences as queues of distinct tasks.                                  *)

\* What Append adds to the elements of a sequence.
LEMMA RangeAppend ==
  ASSUME NEW S, NEW s \in Seq(S), NEW x \in S
  PROVE  /\ Append(s, x) \in Seq(S)
         /\ Len(Append(s, x)) = Len(s) + 1
         /\ Range(Append(s, x)) = Range(s) \cup {x}
<1>1. Append(s, x) \in Seq(S) /\ Len(Append(s, x)) = Len(s) + 1
  OBVIOUS
<1>2. \A i \in 1..(Len(s) + 1) : Append(s, x)[i] = IF i <= Len(s) THEN s[i] ELSE x
  OBVIOUS
<1>3. Range(s) \cup {x} \subseteq Range(Append(s, x))
  BY <1>1, <1>2 DEF Range
<1>4. Range(Append(s, x)) \subseteq Range(s) \cup {x}
  BY <1>1, <1>2 DEF Range
<1> QED BY <1>1, <1>3, <1>4

\* What the elements of the tail are.
LEMMA RangeTail ==
  ASSUME NEW S, NEW s \in Seq(S), s # <<>>
  PROVE  /\ Head(s) \in S /\ Tail(s) \in Seq(S)
         /\ Len(Tail(s)) = Len(s) - 1 /\ Len(s) > 0
         /\ Range(s) = Range(Tail(s)) \cup {Head(s)}
<1>1. /\ Head(s) \in S /\ Tail(s) \in Seq(S) /\ Len(Tail(s)) = Len(s) - 1 /\ Len(s) > 0
  OBVIOUS
<1>2. Range(s) \subseteq Range(Tail(s)) \cup {Head(s)}
  <2> SUFFICES ASSUME NEW i \in 1..Len(s), i # 1
               PROVE  s[i] \in Range(Tail(s))
    BY <1>1 DEF Range
  <2>1. i - 1 \in 1..Len(Tail(s)) /\ Tail(s)[i-1] = s[i]
    BY <1>1
  <2>2. DOMAIN Tail(s) = 1..Len(Tail(s))
    BY <1>1
  <2> QED BY <2>1, <2>2, Zenon DEF Range
<1>3. Range(Tail(s)) \cup {Head(s)} \subseteq Range(s)
  BY <1>1 DEF Range
<1> QED BY <1>1, <1>2, <1>3

\* A new task can be appended to a sequence without repetitions.
LEMMA UnrepeatedAppend ==
  ASSUME NEW S, NEW s \in Seq(S), NEW x \in S, Unrepeated(s), x \notin Range(s)
  PROVE  Unrepeated(Append(s, x))
BY DEF Unrepeated, Range

\* The tail of a sequence without repetitions has none.
LEMMA UnrepeatedTail ==
  ASSUME NEW S, NEW s \in Seq(S), s # <<>>, Unrepeated(s)
  PROVE  /\ Unrepeated(Tail(s))
         /\ Head(s) \in Tasks => Head(s) \notin Range(Tail(s))
BY DEF Unrepeated, Range

\* Appending sentinels adds nothing but the sentinel.
LEMMA RangeSentinels ==
  ASSUME NEW s \in Seq(Items), NEW n \in Nat
  PROVE  LET r == s \o [i \in 1..n |-> Sentinel]
         IN  /\ r \in Seq(Items) /\ Len(r) = Len(s) + n
             /\ Range(r) \subseteq Range(s) \cup {Sentinel}
             /\ Unrepeated(s) => Unrepeated(r)
<1> DEFINE q == [i \in 1..n |-> Sentinel]
           r == s \o q
<1>1. q \in Seq(Items) /\ Len(q) = n
  BY IsASeq DEF Items
<1>2. r \in Seq(Items) /\ Len(r) = Len(s) + n
  BY <1>1
<1>3. \A i \in 1..Len(r) : r[i] = IF i <= Len(s) THEN s[i] ELSE Sentinel
  BY <1>1
<1> QED BY <1>2, <1>3, PoolAssumption DEF Range, Unrepeated

-----------------------------------------------------------------------------
(* The inductive invariant.                                                *)

\* a worker has a job exactly from receiving an item to delivering the result
WorkerInv ==
  \A w \in Workers :
     /\ wpc[w] \in {"handling", "putting", "writing", "finishing"} => job[w] \in Items
     /\ wpc[w] \in {"off", "starting", "ready", "reading", "exited"} => job[w] = NoOne

\* whatever is queued, worked on or registered has been submitted
Placed ==
  /\ Range(input) \subseteq submitted \cup {Sentinel}
  /\ Jobs \subseteq submitted \cup {Sentinel, NoOne}
  /\ Range(outq) \subseteq submitted \cup {Sentinel}
  /\ InCallback \subseteq submitted
  /\ Range(results) \subseteq submitted

\* sentinels are put by close() only
NoSentinel ==
  Processing => Sentinel \notin Range(input) \cup Jobs \cup Range(outq)

\* exactly the subtasks of the registered results have been submitted, and the
\* subtasks of the current one that the callback has passed
SubtasksOf(R) == UNION {Children[t] : t \in R}
Tree ==
  Processing => submitted =
     (IF pc = "start" THEN {} ELSE {Root})
     \cup SubtasksOf(Range(results))
     \cup (IF pc = "callback" THEN Children[cur] \ todo ELSE {})

CallbackInv ==
  /\ pc = "callback" => cur \in Tasks /\ todo \subseteq Children[cur] /\ cur \notin Children[cur]
  /\ pc = "ack" => cur \in Range(results)

\* What the subtasks of a set of tasks are.
LEMMA SubtasksOfFacts ==
  /\ SubtasksOf({}) = {}
  /\ \A R, x : x \in SubtasksOf(R) <=> \E t \in R : x \in Children[t]
  /\ \A R, t : SubtasksOf(R \cup {t}) = SubtasksOf(R) \cup Children[t]
<1>1. \A R, x : x \in SubtasksOf(R) <=> \E t \in R : x \in Children[t]
  BY Zenon DEF SubtasksOf
<1>2. SubtasksOf({}) = {}
  BY <1>1
<1>3. \A R, t : SubtasksOf(R \cup {t}) = SubtasksOf(R) \cup Children[t]
  BY <1>1
<1> QED BY <1>1, <1>2, <1>3

OutcomeInv == Processing => outcome = "none"

IInv ==
  /\ TypeOK
  /\ WorkerInv
  /\ EachTaskOnce
  /\ Placed
  /\ NoSentinel
  /\ Tree
  /\ CallbackInv
  /\ IsFiniteSet(submitted) /\ UnfinishedIsExact
  /\ OutcomeInv /\ DoneMeansComplete
  /\ ParentFirst

\* The inductive invariant holds initially.
LEMMA InitInv == Init => IInv
<1> SUFFICES ASSUME Init PROVE IInv
  OBVIOUS
<1>1. Range(input) = {} /\ Range(outq) = {} /\ Range(results) = {}
  BY DEF Init, Range
<1>2. Jobs \subseteq {NoOne}
  BY DEF Init, Jobs
<1>3. TypeOK
  <2>1. HostTypes
    BY DEF Init, HostTypes, HostPCs
  <2>2. FlagTypes
    BY Zenon DEF Init, FlagTypes
  <2>3. QueueTypes
    BY DEF Init, QueueTypes
  <2>4. WorkerTypes
    BY DEF Init, WorkerTypes
  <2> QED BY <2>1, <2>2, <2>3, <2>4 DEF TypeOK
<1>4. EachTaskOnce
  <2>1. Unrepeated(input) /\ Unrepeated(outq) /\ Unrepeated(results)
    BY DEF Init, Unrepeated
  <2> QED BY <1>1, <1>2, <2>1, PoolAssumption DEF Init, EachTaskOnce, InCallback
<1>5. IsFiniteSet(submitted) /\ UnfinishedIsExact
  <2>1. submitted = {} /\ submitted \ Acked = {} /\ unfinished = 0
    BY DEF Init
  <2> QED BY <2>1, FS_EmptySet DEF UnfinishedIsExact
<1>6. WorkerInv
  BY DEF Init, WorkerInv
<1>7. Placed /\ NoSentinel /\ Tree /\ CallbackInv
  BY <1>1, <1>2, SubtasksOfFacts, PoolAssumption DEF Init, Placed, NoSentinel, Tree, CallbackInv, InCallback
<1>8. OutcomeInv /\ DoneMeansComplete
  BY DEF Init, OutcomeInv, DoneMeansComplete
<1>9. ParentFirst
  BY DEF Init, ParentFirst
<1> QED BY <1>3, <1>4, <1>5, <1>6, <1>7, <1>8, <1>9 DEF IInv

\* A step that moves no item keeps the invariant, if it does not change the state
\* of the callback, only moves the host between waiting states, or leaves the loop.
LEMMA FrameStep ==
  ASSUME IInv, TypeOK', WorkerInv',
         UNCHANGED <<input, outq, job, submitted, results>>,
         \/ UNCHANGED <<pc, cur, todo, unfinished, outcome>>
         \/ /\ pc \in {"loop", "wait"} /\ pc' \in {"wait", "get"}
            /\ UNCHANGED <<cur, todo, unfinished, outcome>>
         \/ ~ Processing' /\ (outcome' = "ok" => outcome = "ok")
  PROVE  IInv'
<1> USE DEF IInv
<1>1. EachTaskOnce'
  <2>1. InCallback' \subseteq InCallback
    BY DEF InCallback, Processing
  <2>2. Jobs' = Jobs
    BY DEF Jobs
  <2> QED BY <2>1, <2>2 DEF EachTaskOnce
<1>2. Placed' /\ NoSentinel'
  BY DEF Placed, NoSentinel, Jobs, InCallback, Processing
<1>3. Tree'
  BY DEF Tree, Processing
<1>4. CallbackInv'
  BY DEF CallbackInv, Processing
<1>5. (IsFiniteSet(submitted) /\ UnfinishedIsExact)'
  BY DEF UnfinishedIsExact, Acked, Processing
<1>6. OutcomeInv' /\ DoneMeansComplete' /\ ParentFirst'
  BY DEF OutcomeInv, DoneMeansComplete, ParentFirst, Processing
<1> QED BY <1>1, <1>2, <1>3, <1>4, <1>5, <1>6

\* The steps of FrameStep: they move no item between the places of EachTaskOnce.
LEMMA QuietSteps ==
  ASSUME IInv,
         \/ \E w \in Workers :
              \/ StartWorker(w) \/ WorkerReady(w) \/ AcquireInput(w) \/ Handle(w)
              \/ AcquireOutput(w) \/ WriteBeginning(w)
              \/ Kill(w) \/ Terminated(w) \/ ParentDeath(w)
         \/ Feed \/ WaitReady \/ BeginClose \/ DrainWait \/ InterruptClose
         \/ TerminateWorkers \/ JoinWorkers \/ HostCrash
         \/ \E imm \in BOOLEAN : Interrupt(imm)
         \/ UNCHANGED vars
  PROVE  IInv'
<1> USE DEF TypeOK, HostTypes, FlagTypes, QueueTypes, WorkerTypes, HostPCs, Running, Dead,
            hostVars, inVars, outVars, workerVars, history
<1>0. TypeOK /\ WorkerInv
  BY DEF IInv
<1>1. ASSUME NEW w \in Workers, StartWorker(w) PROVE IInv'
  <2>1. TypeOK'
    BY <1>0, <1>1 DEF StartWorker
  <2>2. WorkerInv'
    BY <1>0, <1>1 DEF WorkerInv, StartWorker
  <2> QED BY <1>1, <2>1, <2>2, FrameStep DEF StartWorker
<1>2. ASSUME NEW w \in Workers, WorkerReady(w) PROVE IInv'
  <2>1. TypeOK'
    BY <1>0, <1>2 DEF WorkerReady
  <2>2. WorkerInv'
    BY <1>0, <1>2 DEF WorkerInv, WorkerReady
  <2> QED BY <1>2, <2>1, <2>2, FrameStep DEF WorkerReady
<1>3. ASSUME NEW w \in Workers, AcquireInput(w) PROVE IInv'
  <2>1. TypeOK'
    BY <1>0, <1>3 DEF AcquireInput
  <2>2. WorkerInv'
    BY <1>0, <1>3 DEF WorkerInv, AcquireInput
  <2> QED BY <1>3, <2>1, <2>2, FrameStep DEF AcquireInput
<1>4. ASSUME NEW w \in Workers, Handle(w) PROVE IInv'
  <2>1. TypeOK'
    BY <1>0, <1>4 DEF Handle
  <2>2. WorkerInv'
    BY <1>0, <1>4 DEF WorkerInv, Handle
  <2> QED BY <1>4, <2>1, <2>2, FrameStep DEF Handle
<1>5. ASSUME NEW w \in Workers, AcquireOutput(w) PROVE IInv'
  <2>1. TypeOK'
    BY <1>0, <1>5 DEF AcquireOutput
  <2>2. WorkerInv'
    BY <1>0, <1>5 DEF WorkerInv, AcquireOutput
  <2> QED BY <1>5, <2>1, <2>2, FrameStep DEF AcquireOutput
<1>6. ASSUME NEW w \in Workers, WriteBeginning(w) PROVE IInv'
  <2>1. TypeOK'
    BY <1>0, <1>6 DEF WriteBeginning
  <2>2. WorkerInv'
    BY <1>0, <1>6 DEF WorkerInv, WriteBeginning
  <2> QED BY <1>6, <2>1, <2>2, FrameStep DEF WriteBeginning
<1>7. ASSUME NEW w \in Workers, Kill(w) PROVE IInv'
  <2>1. TypeOK'
    BY <1>0, <1>7 DEF Kill, Die
  <2>2. WorkerInv'
    BY <1>0, <1>7 DEF WorkerInv, Kill, Die
  <2> QED BY <1>7, <2>1, <2>2, FrameStep DEF Kill, Die
<1>8. ASSUME NEW w \in Workers, Terminated(w) PROVE IInv'
  <2>1. TypeOK'
    BY <1>0, <1>8 DEF Terminated, Die
  <2>2. WorkerInv'
    BY <1>0, <1>8 DEF WorkerInv, Terminated, Die
  <2> QED BY <1>8, <2>1, <2>2, FrameStep DEF Terminated, Die
<1>9. ASSUME NEW w \in Workers, ParentDeath(w) PROVE IInv'
  <2>1. TypeOK'
    BY <1>0, <1>9 DEF ParentDeath, Die
  <2>2. WorkerInv'
    BY <1>0, <1>9 DEF WorkerInv, ParentDeath, Die
  <2> QED BY <1>9, <2>1, <2>2, FrameStep DEF ParentDeath, Die
<1>10. CASE Feed
  <2>1. TypeOK'
    BY <1>0, <1>10 DEF Feed
  <2>2. WorkerInv'
    BY <1>0, <1>10 DEF WorkerInv, Feed
  <2> QED BY <1>10, <2>1, <2>2, FrameStep DEF Feed, Processing
<1>11. CASE WaitReady
  <2>1. TypeOK'
    BY <1>0, <1>11 DEF WaitReady
  <2>2. WorkerInv'
    BY <1>0, <1>11 DEF WorkerInv, WaitReady
  <2> QED BY <1>11, <2>1, <2>2, FrameStep DEF WaitReady, Processing
<1>12. CASE BeginClose
  <2>1. TypeOK'
    BY <1>0, <1>12 DEF BeginClose
  <2>2. WorkerInv'
    BY <1>0, <1>12 DEF WorkerInv, BeginClose
  <2> QED BY <1>12, <2>1, <2>2, FrameStep DEF BeginClose, Processing
<1>13. CASE DrainWait
  <2>1. TypeOK'
    BY <1>0, <1>13 DEF DrainWait
  <2>2. WorkerInv'
    BY <1>0, <1>13 DEF WorkerInv, DrainWait
  <2> QED BY <1>13, <2>1, <2>2, FrameStep DEF DrainWait, Processing
<1>14. CASE InterruptClose
  <2>1. TypeOK'
    BY <1>0, <1>14 DEF InterruptClose
  <2>2. WorkerInv'
    BY <1>0, <1>14 DEF WorkerInv, InterruptClose
  <2> QED BY <1>14, <2>1, <2>2, FrameStep DEF InterruptClose, Processing
<1>15. CASE TerminateWorkers
  <2>1. TypeOK'
    BY <1>0, <1>15 DEF TerminateWorkers
  <2>2. WorkerInv'
    BY <1>0, <1>15 DEF WorkerInv, TerminateWorkers
  <2> QED BY <1>15, <2>1, <2>2, FrameStep DEF TerminateWorkers, Processing
<1>16. CASE JoinWorkers
  <2>1. TypeOK'
    BY <1>0, <1>16 DEF JoinWorkers
  <2>2. WorkerInv'
    BY <1>0, <1>16 DEF WorkerInv, JoinWorkers
  <2> QED BY <1>16, <2>1, <2>2, FrameStep DEF JoinWorkers, Processing
<1>17. CASE HostCrash
  <2>1. TypeOK'
    BY <1>0, <1>17 DEF HostCrash
  <2>2. WorkerInv'
    BY <1>0, <1>17 DEF WorkerInv, HostCrash
  <2> QED BY <1>17, <2>1, <2>2, FrameStep DEF HostCrash, Processing
<1>18. ASSUME NEW imm \in BOOLEAN, Interrupt(imm) PROVE IInv'
  <2>1. TypeOK'
    BY <1>0, <1>18 DEF Interrupt
  <2>2. WorkerInv'
    BY <1>0, <1>18 DEF WorkerInv, Interrupt
  <2> QED BY <1>18, <2>1, <2>2, FrameStep DEF Interrupt, Processing
<1>19. CASE UNCHANGED vars
  <2>1. TypeOK' /\ WorkerInv'
    BY <1>0, <1>19 DEF WorkerInv, vars
  <2> QED BY <1>19, <2>1, FrameStep DEF vars
<1> QED BY <1>1, <1>2, <1>3, <1>4, <1>5, <1>6, <1>7, <1>8, <1>9, <1>10, <1>11, <1>12, <1>13, <1>14, <1>15, <1>16, <1>17, <1>18, <1>19

-----------------------------------------------------------------------------
(* The steps that move items.                                              *)

\* input_.get() takes the oldest item from the queue.
LEMMA ReceiveStep ==
  ASSUME IInv, NEW w \in Workers, Receive(w) PROVE IInv'
<1> USE DEF IInv
<1> DEFINE x == Head(input)
<1>1. /\ input \in Seq(Items) /\ input # <<>> /\ flushed \in Nat /\ flushed > 0 /\ flushed <= Len(input)
      /\ job' = [job EXCEPT ![w] = x] /\ input' = Tail(input) /\ job \in [Workers -> Items \cup {NoOne}]
      /\ job[w] = NoOne
  BY DEF TypeOK, QueueTypes, WorkerTypes, Receive, WorkerInv
<1>2. /\ x \in Items /\ input' \in Seq(Items) /\ Len(input') = Len(input) - 1
      /\ Range(input) = Range(input') \cup {x}
  BY <1>1, RangeTail
<1>3. Unrepeated(input') /\ (x \in Tasks => x \notin Range(input'))
  BY <1>1, UnrepeatedTail DEF EachTaskOnce
<1>4. Jobs' \subseteq Jobs \cup {x}
  BY <1>1 DEF Jobs
<1>5. UNCHANGED <<pc, cur, todo, immediate, alive, outcome, unfinished, outq, partial, outLock,
                 sigterm, kills, submitted, results>>
  BY DEF Receive, hostVars, outVars, history
<1>6. TypeOK'
  BY <1>1, <1>2, <1>5 DEF TypeOK, HostTypes, FlagTypes, QueueTypes, WorkerTypes, Receive, Running, Dead
<1>7. WorkerInv'
  BY <1>1, <1>2 DEF WorkerInv, Receive, TypeOK, WorkerTypes
<1>8. EachTaskOnce'
  <2>1. \A u, v \in Workers : job'[u] = job'[v] /\ job'[u] \in Tasks => u = v
    <3>1. x \in Tasks => \A v \in Workers : job[v] # x
      BY <1>2, PoolAssumption DEF EachTaskOnce, Jobs
    <3> QED BY <1>1, <3>1 DEF EachTaskOnce
  <2>2. InCallback' = InCallback
    BY <1>5 DEF InCallback
  <2>3. Range(input') \cap (Jobs' \cup Range(outq') \cup InCallback' \cup Range(results')) \subseteq {Sentinel}
    BY <1>2, <1>3, <1>4, <1>5, <2>2 DEF EachTaskOnce, Items
  <2>4. Jobs' \cap (Range(outq') \cup InCallback' \cup Range(results')) \subseteq {Sentinel}
    BY <1>2, <1>4, <1>5, <2>2 DEF EachTaskOnce
  <2> QED BY <1>3, <1>5, <2>1, <2>2, <2>3, <2>4 DEF EachTaskOnce
<1>9. Placed' /\ NoSentinel'
  BY <1>2, <1>4, <1>5 DEF Placed, NoSentinel, InCallback, Processing
<1>10. Tree' /\ CallbackInv' /\ (IsFiniteSet(submitted) /\ UnfinishedIsExact)'
  BY <1>5 DEF Tree, CallbackInv, UnfinishedIsExact, Acked, Processing
<1>11. OutcomeInv' /\ DoneMeansComplete' /\ ParentFirst'
  BY <1>5 DEF OutcomeInv, DoneMeansComplete, ParentFirst, Processing
<1> QED BY <1>6, <1>7, <1>8, <1>9, <1>10, <1>11

\* output.put() appends the worker's result, or its sentinel, to the pipe.
LEMMA WrittenStep ==
  ASSUME IInv, NEW w \in Workers, WriteSmall(w) \/ WriteRest(w) PROVE IInv'
<1> USE DEF IInv
<1> DEFINE x == job[w]
<1>1. /\ outq \in Seq(Items) /\ x \in Items /\ outq' = Append(outq, x)
      /\ job' = [job EXCEPT ![w] = NoOne] /\ job \in [Workers -> Items \cup {NoOne}]
      /\ wpc' = [wpc EXCEPT ![w] = IF job[w] = Sentinel THEN "exited" ELSE "ready"]
      /\ x \in Jobs
  BY DEF TypeOK, QueueTypes, WorkerTypes, WorkerInv, WriteSmall, WriteRest, Written, Jobs
<1>2. UNCHANGED <<pc, cur, todo, immediate, alive, outcome, input, flushed, unfinished, inLock,
                 sigterm, kills, submitted, results>> /\ partial' = FALSE /\ outLock' = NoOne
  BY DEF WriteSmall, WriteRest, Written, hostVars, inVars, history
<1>3. outq' \in Seq(Items) /\ Range(outq') = Range(outq) \cup {x}
  BY <1>1, RangeAppend
<1>4. Jobs' \subseteq Jobs \cup {NoOne} /\ (x \in Tasks => x \notin Jobs')
  BY <1>1, PoolAssumption DEF Jobs, EachTaskOnce
<1>5. x \in Tasks => x \notin Range(outq)
  BY <1>1, PoolAssumption DEF EachTaskOnce
<1>6. Unrepeated(outq')
  BY <1>1, <1>5, PoolAssumption DEF EachTaskOnce, Unrepeated, Range, Items
<1>7. TypeOK'
  <2>1. FlagTypes'
    BY <1>2, Zenon DEF TypeOK, FlagTypes
  <2> QED BY <1>1, <1>2, <1>3, <2>1 DEF TypeOK, HostTypes, QueueTypes, WorkerTypes, Running, Dead
<1>8. WorkerInv'
  BY <1>1 DEF WorkerInv, TypeOK, WorkerTypes
<1>9. InCallback' = InCallback
  BY <1>2 DEF InCallback
<1>10. EachTaskOnce'
  <2>1. \A u, v \in Workers : job'[u] = job'[v] /\ job'[u] \in Tasks => u = v
    BY <1>1, PoolAssumption DEF EachTaskOnce
  <2>2. x \in Tasks => x \notin Range(input) \cup InCallback \cup Range(results)
    BY <1>1, PoolAssumption DEF EachTaskOnce
  <2>3. Range(input') \cap (Jobs' \cup Range(outq') \cup InCallback' \cup Range(results')) \subseteq {Sentinel}
    BY <1>1, <1>2, <1>3, <1>4, <1>9, <2>2, PoolAssumption DEF EachTaskOnce, Items, Placed, TypeOK, HostTypes
  <2>4. Jobs' \cap (Range(outq') \cup InCallback' \cup Range(results')) \subseteq {Sentinel}
    BY <1>1, <1>2, <1>3, <1>4, <1>9, PoolAssumption DEF EachTaskOnce, Items, Placed, TypeOK, HostTypes
  <2>5. Range(outq') \cap (InCallback' \cup Range(results')) = {}
    BY <1>1, <1>2, <1>3, <1>9, <2>2, PoolAssumption DEF EachTaskOnce, Items, Placed, TypeOK, HostTypes
  <2> QED BY <1>2, <1>6, <1>9, <2>1, <2>3, <2>4, <2>5 DEF EachTaskOnce
<1>11. Placed' /\ NoSentinel'
  <2>1. Placed'
    BY <1>1, <1>2, <1>3, <1>4, <1>9, PoolAssumption DEF Placed, Items, TypeOK, HostTypes
  <2>2. NoSentinel'
    BY <1>1, <1>2, <1>3, <1>4, PoolAssumption DEF NoSentinel, Processing
  <2> QED BY <2>1, <2>2
<1>12. Tree' /\ CallbackInv' /\ (IsFiniteSet(submitted) /\ UnfinishedIsExact)'
  BY <1>2 DEF Tree, CallbackInv, UnfinishedIsExact, Acked, Processing
<1>13. OutcomeInv' /\ DoneMeansComplete' /\ ParentFirst'
  BY <1>2 DEF OutcomeInv, DoneMeansComplete, ParentFirst, Processing
<1> QED BY <1>7, <1>8, <1>10, <1>11, <1>12, <1>13

\* pool.submit: a fresh task enters the queue and is counted once.
LEMMA PutFresh ==
  ASSUME IInv, Processing, NEW t \in Tasks, t \notin submitted, Put(t),
         UNCHANGED <<outq, job, results>>
  PROVE  /\ input' \in Seq(Items) /\ Range(input') = Range(input) \cup {t}
         /\ Len(input') = Len(input) + 1
         /\ Unrepeated(input') /\ Jobs' = Jobs
         /\ t \notin Range(input) \cup Jobs \cup Range(outq) \cup InCallback \cup Range(results)
         /\ IsFiniteSet(submitted')
         /\ unfinished' = Cardinality(submitted' \ Acked) /\ unfinished' \in Nat
<1> USE DEF IInv
<1>1. input \in Seq(Items) /\ t \in Items /\ input' = Append(input, t)
  BY DEF TypeOK, QueueTypes, Items, Put
<1>2. t \notin Range(input) \cup Jobs \cup Range(outq) \cup InCallback \cup Range(results)
  BY PoolAssumption DEF Placed
<1>3. /\ input' \in Seq(Items) /\ Range(input') = Range(input) \cup {t}
      /\ Len(input') = Len(input) + 1
  BY <1>1, RangeAppend
<1>4. Unrepeated(input')
  BY <1>1, <1>2, UnrepeatedAppend DEF EachTaskOnce
<1>5. submitted' = submitted \cup {t} /\ IsFiniteSet(submitted')
  BY FS_AddElement DEF Put
<1>6. submitted' \ Acked = (submitted \ Acked) \cup {t}
  BY <1>2, <1>5 DEF Acked
<1>7. IsFiniteSet(submitted \ Acked) /\ t \notin submitted \ Acked
  BY FS_Subset
<1>8. Cardinality(submitted' \ Acked) = Cardinality(submitted \ Acked) + 1
  BY <1>6, <1>7, FS_AddElement
<1>9. unfinished' = Cardinality(submitted' \ Acked) /\ unfinished' \in Nat
  BY <1>8 DEF UnfinishedIsExact, Put, TypeOK, QueueTypes
<1> QED BY <1>2, <1>3, <1>4, <1>5, <1>9 DEF Jobs

\* the conjuncts that a submit keeps because the task it puts is fresh
LEMMA PutKeeps ==
  ASSUME IInv, Processing, NEW t \in Tasks, t \notin submitted, Put(t),
         UNCHANGED <<immediate, partial, outLock, wpc, alive, sigterm, kills, outcome, cur,
                     outq, job, results>>,
         (pc = "start" /\ pc' = "loop") \/ (pc = "callback" /\ pc' = "callback"),
         todo' \in SUBSET Tasks
  PROVE  /\ TypeOK' /\ WorkerInv' /\ EachTaskOnce' /\ Placed' /\ NoSentinel'
         /\ (IsFiniteSet(submitted) /\ UnfinishedIsExact)'
         /\ OutcomeInv' /\ DoneMeansComplete' /\ ParentFirst'
<1> USE DEF IInv
<1>1. /\ input' \in Seq(Items) /\ Range(input') = Range(input) \cup {t}
      /\ Len(input') = Len(input) + 1
      /\ Unrepeated(input') /\ Jobs' = Jobs
      /\ t \notin Range(input) \cup Jobs \cup Range(outq) \cup InCallback \cup Range(results)
      /\ IsFiniteSet(submitted')
      /\ unfinished' = Cardinality(submitted' \ Acked) /\ unfinished' \in Nat
  BY PutFresh
<1>2. submitted' = submitted \cup {t} /\ UNCHANGED <<flushed, inLock>>
  BY DEF Put
<1>3. InCallback' = InCallback /\ Acked' = Acked
  BY DEF InCallback, Acked
<1>4. TypeOK'
  BY <1>1, <1>2 DEF TypeOK, HostTypes, FlagTypes, QueueTypes, WorkerTypes, HostPCs
<1>5. WorkerInv'
  BY DEF WorkerInv
<1>6. EachTaskOnce'
  BY <1>1, <1>3 DEF EachTaskOnce
<1>7. Placed' /\ NoSentinel'
  BY <1>1, <1>2, <1>3, PoolAssumption DEF Placed, NoSentinel, Processing
<1>8. (IsFiniteSet(submitted) /\ UnfinishedIsExact)'
  BY <1>1, <1>3 DEF UnfinishedIsExact
<1>9. OutcomeInv' /\ DoneMeansComplete' /\ ParentFirst'
  BY DEF OutcomeInv, DoneMeansComplete, ParentFirst, Processing
<1> QED BY <1>4, <1>5, <1>6, <1>7, <1>8, <1>9

\* submit of the input file keeps the invariant.
LEMMA SubmitRootStep == ASSUME IInv, SubmitRoot PROVE IInv'
<1> USE DEF IInv
<1>1. /\ pc = "start" /\ pc' = "loop" /\ Put(Root) /\ Root \in Tasks
      /\ UNCHANGED <<immediate, partial, outLock, wpc, alive, sigterm, kills, outcome, cur,
                     outq, job, results, todo>>
  BY TasksAssumption DEF SubmitRoot, outVars, workerVars
<1>2. Processing /\ todo' \in SUBSET Tasks
  BY <1>1 DEF Processing, TypeOK, HostTypes
<1>3. submitted = {} \cup SubtasksOf(Range(results)) /\ Range(results) \subseteq submitted
      /\ Range(results) \subseteq Tasks
  BY <1>1, <1>2 DEF Tree, Placed, TypeOK, HostTypes
<1>4. Root \notin submitted
  BY <1>3, SubtasksOfFacts, TasksAssumption
<1>5. Tree' /\ CallbackInv'
  BY <1>1, <1>2, <1>3 DEF Tree, CallbackInv, Put
<1>6. /\ TypeOK' /\ WorkerInv' /\ EachTaskOnce' /\ Placed' /\ NoSentinel'
      /\ (IsFiniteSet(submitted) /\ UnfinishedIsExact)'
      /\ OutcomeInv' /\ DoneMeansComplete' /\ ParentFirst'
  <2> HIDE DEF IInv
  <2> QED BY <1>1, <1>2, <1>4, PutKeeps
<1> QED BY <1>5, <1>6

\* submit of a subtask keeps the invariant.
LEMMA SubmitSubtaskStep == ASSUME IInv, NEW t \in Tasks, SubmitSubtask(t) PROVE IInv'
<1> USE DEF IInv
<1>1. /\ pc = "callback" /\ pc' = "callback" /\ Put(t) /\ t \in todo /\ todo' = todo \ {t}
      /\ UNCHANGED <<immediate, partial, outLock, wpc, alive, sigterm, kills, outcome, cur,
                     outq, job, results>>
  BY DEF SubmitSubtask, outVars, workerVars
<1>2. Processing /\ todo' \in SUBSET Tasks
  BY <1>1 DEF Processing, TypeOK, HostTypes
<1>3. /\ submitted = {Root} \cup SubtasksOf(Range(results)) \cup (Children[cur] \ todo)
      /\ cur \in Tasks /\ t \in Children[cur] /\ todo \subseteq Children[cur]
      /\ cur \notin Range(results) /\ Range(results) \subseteq Tasks
  BY <1>1, <1>2 DEF Tree, CallbackInv, EachTaskOnce, InCallback, Placed, TypeOK, HostTypes
<1>4. t \notin submitted
  <2>1. t # Root /\ t \notin Children[cur] \ todo
    BY <1>1, <1>3, TasksAssumption
  <2>2. \A u \in Range(results) : t \notin Children[u]
    BY <1>3, TasksAssumption
  <2> QED BY <1>3, <2>1, <2>2, SubtasksOfFacts
<1>5. Tree' /\ CallbackInv'
  <2>1. Children[cur] \ todo' = (Children[cur] \ todo) \cup {t}
    BY <1>1, <1>3
  <2>2. submitted' = submitted \cup {t}
    BY <1>1 DEF Put
  <2>3. submitted' = {Root} \cup SubtasksOf(Range(results)) \cup (Children[cur] \ todo')
    BY <1>3, <2>1, <2>2
  <2> QED BY <1>1, <2>3 DEF Tree, CallbackInv
<1> QED BY <1>1, <1>2, <1>4, <1>5, PutKeeps

\* self._output.get(): the oldest result goes to the callback.
LEMMA GetResultStep == ASSUME IInv, GetResult PROVE IInv'
<1> USE DEF IInv
<1> DEFINE x == Head(outq)
<1>1. /\ pc = "get" /\ pc' = "callback" /\ outq \in Seq(Items) /\ outq # <<>>
      /\ cur' = x /\ todo' = Children[x] /\ outq' = Tail(outq)
      /\ UNCHANGED <<immediate, alive, outcome, input, flushed, unfinished, inLock, partial,
                     outLock, wpc, job, sigterm, kills, submitted, results>>
  BY DEF GetResult, TypeOK, QueueTypes, inVars, workerVars, history
<1>2. x \in Items /\ outq' \in Seq(Items) /\ Range(outq) = Range(outq') \cup {x}
  BY <1>1, RangeTail
<1>3. Unrepeated(outq') /\ (x \in Tasks => x \notin Range(outq'))
  BY <1>1, UnrepeatedTail DEF EachTaskOnce
<1>4. Processing /\ Processing'
  BY <1>1 DEF Processing
<1>5. x \in Tasks
  BY <1>2, <1>4 DEF NoSentinel, Items
<1>6. InCallback = {} /\ InCallback' = {x} /\ Jobs' = Jobs /\ Acked' = Acked
  BY <1>1 DEF InCallback, Jobs, Acked
<1>7. x \notin Range(results) /\ x \in submitted /\ Range(results) \subseteq Tasks
  BY <1>2, <1>5, PoolAssumption DEF EachTaskOnce, Placed, TypeOK, HostTypes
<1>8. TypeOK'
  BY <1>1, <1>2, <1>5, TasksAssumption
     DEF TypeOK, HostTypes, FlagTypes, QueueTypes, WorkerTypes, HostPCs
<1>9. WorkerInv'
  BY <1>1 DEF WorkerInv
<1>10. EachTaskOnce'
  BY <1>1, <1>2, <1>3, <1>5, <1>6, <1>7, PoolAssumption DEF EachTaskOnce
<1>11. Placed' /\ NoSentinel'
  BY <1>1, <1>2, <1>4, <1>6, <1>7 DEF Placed, NoSentinel
<1>12. submitted = {Root} \cup SubtasksOf(Range(results))
  BY <1>1, <1>4 DEF Tree
<1>13. Tree'
  BY <1>1, <1>12 DEF Tree
<1>14. CallbackInv'
  <2>1. x \notin Children[x]
    BY <1>5, <1>7, <1>12, SubtasksOfFacts, TasksAssumption
  <2> QED BY <1>1, <1>5, <2>1 DEF CallbackInv
<1>15. (IsFiniteSet(submitted) /\ UnfinishedIsExact)'
  BY <1>1, <1>4, <1>6 DEF UnfinishedIsExact
<1>16. OutcomeInv' /\ DoneMeansComplete' /\ ParentFirst'
  BY <1>1, <1>4 DEF OutcomeInv, DoneMeansComplete, ParentFirst
<1> QED BY <1>8, <1>9, <1>10, <1>11, <1>13, <1>14, <1>15, <1>16

\* aggregated_result.register(result), once all its subtasks are submitted.
LEMMA RegisterResultStep == ASSUME IInv, RegisterResult PROVE IInv'
<1> USE DEF IInv
<1>1. /\ pc = "callback" /\ pc' = "ack" /\ todo = {} /\ results' = Append(results, cur)
      /\ UNCHANGED <<cur, todo, immediate, alive, outcome, input, flushed, unfinished, inLock,
                     outq, partial, outLock, wpc, job, sigterm, kills, submitted>>
  BY DEF RegisterResult, inVars, outVars, workerVars
<1>2. Processing /\ Processing'
  BY <1>1 DEF Processing
<1>3. cur \in Tasks /\ cur \notin Children[cur] /\ results \in Seq(Tasks)
  BY <1>1 DEF CallbackInv, TypeOK, HostTypes
<1>4. /\ InCallback = {cur} /\ InCallback' = {} /\ Jobs' = Jobs
      /\ cur \notin Range(results) /\ cur \in submitted
  BY <1>1, <1>2 DEF InCallback, Jobs, EachTaskOnce, Placed
<1>5. /\ results' \in Seq(Tasks) /\ Len(results') = Len(results) + 1
      /\ Range(results') = Range(results) \cup {cur}
  BY <1>1, <1>3, RangeAppend
<1>6. Unrepeated(results')
  BY <1>1, <1>3, <1>4, UnrepeatedAppend DEF EachTaskOnce
<1>7. Acked' = Acked
  BY <1>1, <1>4, <1>5 DEF Acked
<1>8. TypeOK'
  BY <1>1, <1>5 DEF TypeOK, HostTypes, FlagTypes, QueueTypes, WorkerTypes, HostPCs
<1>9. WorkerInv'
  BY <1>1 DEF WorkerInv
<1>10. EachTaskOnce'
  BY <1>1, <1>4, <1>5, <1>6 DEF EachTaskOnce
<1>11. Placed' /\ NoSentinel'
  BY <1>1, <1>2, <1>4, <1>5 DEF Placed, NoSentinel
<1>12. submitted = {Root} \cup SubtasksOf(Range(results)) \cup Children[cur]
  BY <1>1, <1>2 DEF Tree
<1>13. Tree' /\ CallbackInv'
  BY <1>1, <1>5, <1>12, SubtasksOfFacts DEF Tree, CallbackInv
<1>14. (IsFiniteSet(submitted) /\ UnfinishedIsExact)'
  BY <1>1, <1>2, <1>7 DEF UnfinishedIsExact
<1>15. OutcomeInv' /\ DoneMeansComplete'
  BY <1>1, <1>2 DEF OutcomeInv, DoneMeansComplete
<1>16. ParentFirst'
  <2> DEFINE n == Len(results)
  <2>1. n \in Nat /\ Len(results') = n + 1 /\ results'[n+1] = cur
        /\ \A i \in 1..n : results'[i] = results[i]
    BY <1>1, <1>3, <1>5
  <2>2. \A i \in 1..n : \/ i = 1 /\ results'[i] = Root
                        \/ \E j \in 1..(i-1) : results'[i] \in Children[results'[j]]
    BY <2>1 DEF ParentFirst
  <2>3. (n = 0 /\ cur = Root) \/ \E j \in 1..n : cur \in Children[results[j]]
    <3>1. CASE cur = Root
      <4>1. n > 0 => results[1] = Root
        BY <2>1 DEF ParentFirst
      <4>2. n > 0 => Root \in Range(results)
        BY <4>1, <1>3, <2>1 DEF Range
      <4> QED BY <3>1, <4>2, <1>4, <2>1
    <3>2. CASE cur # Root
      <4>1. PICK t \in Range(results) : cur \in Children[t]
        BY <3>2, <1>3, <1>4, <1>12, SubtasksOfFacts
      <4> QED BY <4>1, <1>3 DEF Range
    <3> QED BY <3>1, <3>2
  <2>4. \/ n + 1 = 1 /\ results'[n+1] = Root
        \/ \E j \in 1..(n+1-1) : results'[n+1] \in Children[results'[j]]
    BY <2>1, <2>3
  <2> QED BY <2>1, <2>2, <2>4 DEF ParentFirst
<1> QED BY <1>8, <1>9, <1>10, <1>11, <1>13, <1>14, <1>15, <1>16

\* self._input.task_done(): the semaphore is positive, and counts one task less.
LEMMA TaskDoneStep == ASSUME IInv, TaskDone PROVE IInv'
<1> USE DEF IInv
<1>1. /\ pc = "ack" /\ pc' = "loop" /\ unfinished' = unfinished - 1 /\ cur' = NoOne
      /\ UNCHANGED <<todo, immediate, alive, outcome, input, flushed, inLock, outq, partial,
                     outLock, wpc, job, sigterm, kills, submitted, results>>
  BY DEF TaskDone, outVars, workerVars, history
<1>2. Processing /\ Processing' /\ cur \in Range(results) /\ cur \in submitted
  BY <1>1 DEF Processing, CallbackInv, Placed
<1>3. InCallback = {} /\ InCallback' = {} /\ Jobs' = Jobs
  BY <1>1 DEF InCallback, Jobs
<1>4. Acked = Range(results) \ {cur} /\ Acked' = Range(results)
  BY <1>1 DEF Acked
<1>5. submitted' \ Acked' = (submitted \ Acked) \ {cur} /\ cur \in submitted \ Acked
  BY <1>1, <1>2, <1>4
<1>6. IsFiniteSet(submitted \ Acked)
  BY FS_Subset
<1>7. /\ Cardinality(submitted' \ Acked') = Cardinality(submitted \ Acked) - 1
      /\ Cardinality(submitted' \ Acked') \in Nat
  BY <1>5, <1>6, FS_RemoveElement, FS_CardinalityType
<1>8. unfinished' = Cardinality(submitted' \ Acked') /\ unfinished' \in Nat
  BY <1>1, <1>2, <1>7 DEF UnfinishedIsExact
<1>9. TypeOK'
  BY <1>1, <1>8 DEF TypeOK, HostTypes, FlagTypes, QueueTypes, WorkerTypes, HostPCs
<1>10. WorkerInv'
  BY <1>1 DEF WorkerInv
<1>11. EachTaskOnce' /\ Placed' /\ NoSentinel'
  BY <1>1, <1>2, <1>3 DEF EachTaskOnce, Placed, NoSentinel
<1>12. Tree' /\ CallbackInv'
  BY <1>1, <1>2 DEF Tree, CallbackInv
<1>13. (IsFiniteSet(submitted) /\ UnfinishedIsExact)'
  BY <1>1, <1>8 DEF UnfinishedIsExact
<1>14. OutcomeInv' /\ DoneMeansComplete' /\ ParentFirst'
  BY <1>1, <1>2 DEF OutcomeInv, DoneMeansComplete, ParentFirst
<1> QED BY <1>9, <1>10, <1>11, <1>12, <1>13, <1>14

\* is_empty: when the semaphore is zero, every submitted task is registered.
LEMMA CheckEmptyFinds ==
  ASSUME IInv, pc = "loop", unfinished = 0
  PROVE  /\ submitted = Range(results) /\ Root \in submitted
         /\ \A t \in Range(results) : Children[t] \subseteq submitted
<1> USE DEF IInv
<1>1. Acked = Range(results) /\ Processing
  BY DEF Acked, Processing
<1>2. Cardinality(submitted \ Range(results)) = 0 /\ IsFiniteSet(submitted \ Range(results))
  BY <1>1, FS_Subset DEF UnfinishedIsExact
<1>3. submitted \ Range(results) = {}
  BY <1>2, FS_EmptySet
<1>4. submitted = {Root} \cup SubtasksOf(Range(results))
  BY <1>1 DEF Tree
<1> QED BY <1>3, <1>4, SubtasksOfFacts DEF Placed

\* The test of is_empty keeps the invariant.
LEMMA CheckEmptyStep == ASSUME IInv, CheckEmpty PROVE IInv'
<1> USE DEF IInv
<1>1. /\ pc = "loop"
      /\ UNCHANGED <<cur, todo, immediate, alive, input, flushed, unfinished, inLock, outq, partial,
                     outLock, wpc, job, sigterm, kills, submitted, results>>
  BY DEF CheckEmpty, inVars, outVars, workerVars, history
<1>2. TypeOK' /\ WorkerInv'
  BY <1>1 DEF CheckEmpty, TypeOK, HostTypes, FlagTypes, QueueTypes, WorkerTypes, HostPCs, WorkerInv
<1>3. CASE unfinished # 0
  <2>1. pc' = "wait" /\ outcome' = outcome
    BY <1>3 DEF CheckEmpty
  <2> HIDE DEF IInv
  <2> QED BY <1>1, <1>2, <2>1, FrameStep
<1>4. CASE unfinished = 0
  <2>1. pc' = "close" /\ outcome' = "ok"
    BY <1>4 DEF CheckEmpty
  <2>2. DoneMeansComplete'
    BY <1>1, <1>4, CheckEmptyFinds DEF DoneMeansComplete, Complete
  <2>3. EachTaskOnce' /\ Placed' /\ NoSentinel'
    BY <1>1, <2>1 DEF EachTaskOnce, Placed, NoSentinel, InCallback, Jobs, Processing
  <2>4. Tree' /\ CallbackInv' /\ (IsFiniteSet(submitted) /\ UnfinishedIsExact)'
    BY <1>1, <2>1 DEF Tree, CallbackInv, UnfinishedIsExact, Processing
  <2>5. OutcomeInv' /\ ParentFirst'
    BY <1>1, <2>1 DEF OutcomeInv, ParentFirst, Processing
  <2> QED BY <1>2, <2>2, <2>3, <2>4, <2>5
<1> QED BY <1>3, <1>4

-----------------------------------------------------------------------------
(* close() drops items and adds sentinels.                                 *)

\* Once the pool is closing, only the placement of the tasks matters.
LEMMA CloseFrame ==
  ASSUME IInv, TypeOK', WorkerInv', ~ Processing',
         UNCHANGED <<job, submitted, results, outcome>>,
         Unrepeated(input'), Range(input') \subseteq Range(input) \cup {Sentinel},
         Unrepeated(outq'), Range(outq') \subseteq Range(outq)
  PROVE  IInv'
<1> USE DEF IInv
<1>1. InCallback' = {} /\ Jobs' = Jobs /\ ParentFirst'
  BY DEF InCallback, Processing, Jobs, ParentFirst
<1>2. EachTaskOnce'
  <2>1. Sentinel \notin Range(results)
    BY PoolAssumption DEF Placed, TypeOK, HostTypes
  <2> QED BY <1>1, <2>1 DEF EachTaskOnce
<1>3. Placed' /\ NoSentinel'
  BY <1>1 DEF Placed, NoSentinel
<1>4. Tree' /\ CallbackInv' /\ (IsFiniteSet(submitted) /\ UnfinishedIsExact)'
  BY DEF Tree, CallbackInv, UnfinishedIsExact, Processing
<1>5. OutcomeInv' /\ DoneMeansComplete'
  BY DEF OutcomeInv, DoneMeansComplete
<1> QED BY <1>1, <1>2, <1>3, <1>4, <1>5

\* _clear_input_queue keeps the invariant.
LEMMA ClearInputQueueStep == ASSUME IInv, ClearInputQueue PROVE IInv'
<1>1. /\ TypeOK /\ WorkerInv /\ pc = "clear_in" /\ pc' \in {"clear_in", "quit"} /\ ~ Processing'
      /\ UNCHANGED <<cur, todo, immediate, alive, outcome, unfinished, inLock, outq, partial,
                     outLock, wpc, job, sigterm, kills, submitted, results>>
      /\ Unrepeated(input) /\ Unrepeated(outq)
  BY DEF IInv, ClearInputQueue, outVars, workerVars, history, Processing, EachTaskOnce
<1>2. WorkerInv'
  BY <1>1 DEF WorkerInv
<1>3. CASE input' = Tail(input) /\ flushed > 0 /\ flushed' = flushed - 1
  <2>1. input \in Seq(Items) /\ input # <<>> /\ flushed \in Nat /\ flushed <= Len(input)
    BY <1>1, <1>3 DEF TypeOK, QueueTypes
  <2>2. /\ input' \in Seq(Items) /\ Len(input') = Len(input) - 1 /\ Range(input') \subseteq Range(input)
        /\ Unrepeated(input')
    BY <1>1, <1>3, <2>1, RangeTail, UnrepeatedTail
  <2>3. TypeOK'
    BY <1>1, <1>3, <2>1, <2>2 DEF TypeOK, HostTypes, FlagTypes, QueueTypes, WorkerTypes, HostPCs
  <2> QED BY <1>1, <1>2, <2>2, <2>3, CloseFrame
<1>4. CASE UNCHANGED <<input, flushed>>
  <2>1. TypeOK'
    BY <1>1, <1>4 DEF TypeOK, HostTypes, FlagTypes, QueueTypes, WorkerTypes, HostPCs
  <2> QED BY <1>1, <1>2, <1>4, <2>1, CloseFrame
<1> QED BY <1>3, <1>4 DEF ClearInputQueue

\* _request_workers_to_quit keeps the invariant.
LEMMA RequestWorkersToQuitStep == ASSUME IInv, RequestWorkersToQuit PROVE IInv'
<1> DEFINE n == Cardinality(Workers)
<1>1. /\ TypeOK /\ WorkerInv /\ pc' = "drain" /\ ~ Processing'
      /\ input' = input \o [i \in 1..n |-> Sentinel] /\ unfinished' = unfinished + n
      /\ alive' \subseteq Workers
      /\ UNCHANGED <<cur, todo, immediate, outcome, flushed, inLock, outq, partial,
                     outLock, wpc, job, sigterm, kills, submitted, results>>
      /\ Unrepeated(input) /\ Unrepeated(outq)
  BY DEF IInv, RequestWorkersToQuit, outVars, workerVars, history, Processing, EachTaskOnce
<1>2. n \in Nat /\ input \in Seq(Items) /\ flushed <= Len(input) /\ flushed \in Nat /\ unfinished \in Nat
  BY <1>1, PoolAssumption, FS_CardinalityType DEF TypeOK, QueueTypes
<1> HIDE DEF n
<1>3. /\ input' \in Seq(Items) /\ Len(input') = Len(input) + n
      /\ Range(input') \subseteq Range(input) \cup {Sentinel} /\ Unrepeated(input')
  BY <1>1, <1>2, RangeSentinels
<1>4. TypeOK' /\ WorkerInv'
  BY <1>1, <1>2, <1>3 DEF TypeOK, HostTypes, FlagTypes, QueueTypes, WorkerTypes, HostPCs, WorkerInv
<1> QED BY <1>1, <1>3, <1>4, CloseFrame

\* A result that _clear_output_queue drops keeps the invariant.
LEMMA DrainGetStep == ASSUME IInv, DrainGet PROVE IInv'
<1>1. /\ TypeOK /\ WorkerInv /\ pc' = "drain" /\ ~ Processing'
      /\ outq \in Seq(Items) /\ outq # <<>> /\ outq' = Tail(outq)
      /\ UNCHANGED <<cur, todo, immediate, alive, outcome, input, flushed, unfinished, inLock, partial,
                     outLock, wpc, job, sigterm, kills, submitted, results>>
      /\ Unrepeated(input) /\ Unrepeated(outq)
  BY DEF IInv, TypeOK, QueueTypes, DrainGet, inVars, workerVars, history, Processing, EachTaskOnce
<1>2. outq' \in Seq(Items) /\ Range(outq') \subseteq Range(outq) /\ Unrepeated(outq')
  BY <1>1, RangeTail, UnrepeatedTail
<1>3. TypeOK' /\ WorkerInv'
  BY <1>1, <1>2 DEF TypeOK, HostTypes, FlagTypes, QueueTypes, WorkerTypes, HostPCs, WorkerInv
<1> QED BY <1>1, <1>2, <1>3, CloseFrame

-----------------------------------------------------------------------------

\* Every step keeps the invariant.
LEMMA NextInv == IInv /\ [Next]_vars => IInv'
<1> SUFFICES ASSUME IInv, [Next]_vars PROVE IInv'
  OBVIOUS
<1>1. CASE Host
  BY <1>1, QuietSteps, SubmitRootStep, CheckEmptyStep, GetResultStep, SubmitSubtaskStep,
     RegisterResultStep, TaskDoneStep, ClearInputQueueStep, RequestWorkersToQuitStep,
     DrainGetStep DEF Host
<1>2. CASE Feed \/ Finished \/ UNCHANGED vars
  BY <1>2, QuietSteps DEF Finished
<1>3. CASE Fault
  BY <1>3, QuietSteps DEF Fault
<1>4. ASSUME NEW w \in Workers, Worker(w) \/ Terminated(w) \/ ParentDeath(w) PROVE IInv'
  BY <1>4, QuietSteps, ReceiveStep, WrittenStep DEF Worker
<1> QED BY <1>1, <1>2, <1>3, <1>4 DEF Next

\* The invariant holds in every reachable state, with any number of workers and
\* whatever is killed, interrupted or crashes.
THEOREM Invariance == Spec => []IInv
<1>1. Init => IInv
  BY InitInv
<1>2. IInv /\ [Next]_vars => IInv'
  BY NextInv
<1> QED BY <1>1, <1>2, PTL DEF Spec

\* The pool keeps its types: in particular the semaphore never goes below zero,
\* the callback only gets results of tasks, the feeder never runs past the queue.
THEOREM TypeCorrect == Spec => []TypeOK
<1>1. IInv => TypeOK
  BY DEF IInv
<1> QED BY <1>1, Invariance, PTL

\* Every task is handled, delivered and registered at most once.
THEOREM TasksOnce == Spec => []EachTaskOnce
<1>1. IInv => EachTaskOnce
  BY DEF IInv
<1> QED BY <1>1, Invariance, PTL

\* is_empty is exact.
THEOREM ExactCount == Spec => []UnfinishedIsExact
<1>1. IInv => UnfinishedIsExact
  BY DEF IInv
<1> QED BY <1>1, Invariance, PTL

\* process_until_done returns only when the whole task tree is registered.
THEOREM Completeness == Spec => []DoneMeansComplete
<1>1. IInv => DoneMeansComplete
  BY DEF IInv
<1> QED BY <1>1, Invariance, PTL

\* Results are registered parents first.
THEOREM ParentsFirst == Spec => []ParentFirst
<1>1. IInv => ParentFirst
  BY DEF IInv
<1> QED BY <1>1, Invariance, PTL

-----------------------------------------------------------------------------
(* MultiPool implements TaskPool.                                          *)

\* An initial state of MultiPool is one of TaskPool.
LEMMA RefineInit == Init => Promise!Init
BY DEF Init, Promise!Init, PoolStatus, Range

\* Every step of MultiPool is a step of TaskPool, or leaves its variables alone.
LEMMA RefineNext == IInv /\ IInv' /\ [Next]_vars => [Promise!Next]_(Promise!vars)
<1> SUFFICES ASSUME IInv, IInv', [Next]_vars PROVE [Promise!Next]_(Promise!vars)
  OBVIOUS
<1>1. CASE SubmitRoot
  <2>1. pc = "start" /\ pc' = "loop" /\ UNCHANGED <<outcome, results>> /\ submitted' = submitted \cup {Root}
    BY <1>1 DEF SubmitRoot, Put
  <2>2. Processing /\ outcome = "none" /\ Range(results) \subseteq Tasks
    BY <2>1 DEF IInv, OutcomeInv, Processing, Placed, TypeOK, HostTypes
  <2>3. submitted = SubtasksOf(Range(results))
    BY <2>1, <2>2 DEF IInv, Tree
  <2>4. Root \notin submitted
    BY <2>2, <2>3, SubtasksOfFacts, TasksAssumption
  <2>5. Promise!Submit(Root)
    BY <2>1, <2>2, <2>4 DEF Promise!Submit, PoolStatus
  <2> QED BY <2>5, TasksAssumption DEF Promise!Next
<1>2. ASSUME NEW t \in Tasks, SubmitSubtask(t) PROVE Promise!Next
  <2>1. /\ pc = "callback" /\ pc' = "callback" /\ UNCHANGED <<outcome, results>> /\ t \in todo
        /\ submitted' = submitted \cup {t}
    BY <1>2 DEF SubmitSubtask, Put
  <2>2. Processing /\ outcome = "none" /\ cur \in Tasks /\ t \in Children[cur] /\ todo \subseteq Children[cur]
        /\ cur \in submitted \ Range(results) /\ Range(results) \subseteq Tasks
    BY <2>1 DEF IInv, OutcomeInv, Processing, CallbackInv, Placed, EachTaskOnce, InCallback, TypeOK, HostTypes
  <2>3. submitted = {Root} \cup SubtasksOf(Range(results)) \cup (Children[cur] \ todo)
    BY <2>1, <2>2 DEF IInv, Tree
  <2>4. t \notin submitted
    <3>1. t # Root /\ t \notin Children[cur] \ todo
      BY <2>1, <2>2, TasksAssumption
    <3>2. \A u \in Range(results) : t \notin Children[u]
      BY <2>2, TasksAssumption
    <3> QED BY <2>3, <3>1, <3>2, SubtasksOfFacts
  <2>5. Promise!Submit(t)
    BY <2>1, <2>2, <2>4 DEF Promise!Submit, PoolStatus
  <2> QED BY <2>5 DEF Promise!Next
<1>3. CASE RegisterResult
  <2>1. /\ pc = "callback" /\ pc' = "ack" /\ todo = {} /\ UNCHANGED <<outcome, submitted>>
        /\ results' = Append(results, cur)
    BY <1>3 DEF RegisterResult
  <2>2. Processing /\ outcome = "none" /\ cur \in Tasks
        /\ cur \in submitted \ Range(results) /\ results \in Seq(Tasks)
    BY <2>1 DEF IInv, OutcomeInv, Processing, CallbackInv, Placed, EachTaskOnce, InCallback, TypeOK, HostTypes
  <2>3. submitted = {Root} \cup SubtasksOf(Range(results)) \cup (Children[cur] \ todo)
    BY <2>1, <2>2 DEF IInv, Tree
  <2>4. Children[cur] \subseteq submitted
    BY <2>1, <2>3
  <2>5. Range(results') = Range(results) \cup {cur}
    BY <2>1, <2>2, RangeAppend
  <2>6. Promise!Register(cur)
    BY <2>1, <2>2, <2>4, <2>5 DEF Promise!Register, PoolStatus
  <2> QED BY <2>2, <2>6 DEF Promise!Next
<1>4. CASE CheckEmpty /\ unfinished = 0
  <2>1. pc = "loop" /\ pc' = "close" /\ outcome' = "ok" /\ UNCHANGED <<submitted, results>>
    BY <1>4 DEF CheckEmpty, history
  <2>2. outcome = "none" /\ submitted = Range(results) /\ Root \in submitted
    BY <1>4, <2>1, CheckEmptyFinds DEF IInv, OutcomeInv, Processing
  <2>3. Promise!Finish
    BY <2>1, <2>2 DEF Promise!Finish, PoolStatus
  <2> QED BY <2>3 DEF Promise!Next
<1>5. CASE /\ UNCHANGED <<submitted, results>>
           /\ UNCHANGED PoolStatus \/ PoolStatus' = "failed"
  <2>1. PoolStatus \in {"running", "done", "failed"}
    BY DEF PoolStatus
  <2>2. CASE UNCHANGED PoolStatus
    BY <1>5, <2>2 DEF Promise!vars
  <2>3. CASE PoolStatus' = "failed" /\ PoolStatus # "failed"
    <3>1. Promise!Fail
      BY <1>5, <2>1, <2>3 DEF Promise!Fail
    <3> QED BY <3>1 DEF Promise!Next
  <2> QED BY <1>5, <2>2, <2>3
<1> DEFINE Other == /\ UNCHANGED <<submitted, results>>
                    /\ UNCHANGED PoolStatus \/ PoolStatus' = "failed"
<1>6. ASSUME NEW w \in Workers, StartWorker(w) PROVE Other
  BY <1>6 DEF StartWorker, hostVars, history, PoolStatus
<1>7. ASSUME GetResult \/ TaskDone \/ ClearInputQueue \/ RequestWorkersToQuit \/ DrainWait \/ DrainGet PROVE Other
  <2>1. UNCHANGED <<submitted, results, outcome>> /\ pc # "crashed" /\ pc' # "crashed"
    BY <1>7 DEF GetResult, TaskDone, ClearInputQueue, RequestWorkersToQuit, DrainWait, DrainGet, history
  <2> QED BY <2>1 DEF PoolStatus
<1>8. ASSUME BeginClose \/ TerminateWorkers \/ JoinWorkers PROVE Other
  <2>1. UNCHANGED <<submitted, results, outcome>> /\ pc # "crashed" /\ pc' # "crashed"
    BY <1>8 DEF BeginClose, TerminateWorkers, JoinWorkers, history
  <2> QED BY <2>1 DEF PoolStatus
<1>9. ASSUME CheckEmpty /\ unfinished # 0 PROVE Other
  BY <1>9 DEF CheckEmpty, history, PoolStatus
<1>10. ASSUME WaitReady PROVE Other
  BY <1>10 DEF WaitReady, history, PoolStatus
<1>11. ASSUME Feed \/ Finished \/ UNCHANGED vars PROVE Other
  BY <1>11 DEF Feed, Finished, vars, hostVars, history, PoolStatus
<1>12. ASSUME Fault PROVE Other
  BY <1>12 DEF Fault, Interrupt, InterruptClose, HostCrash, Kill, Die, hostVars, history, PoolStatus
<1>13. ASSUME NEW w \in Workers, Worker(w) \/ Terminated(w) \/ ParentDeath(w) PROVE Other
  BY <1>13 DEF Worker, WorkerReady, AcquireInput, Receive, Handle, AcquireOutput, WriteSmall,
     WriteBeginning, WriteRest, Written, Terminated, ParentDeath, Die, hostVars, history, PoolStatus
<1> HIDE DEF Other
<1>14. Other => [Promise!Next]_(Promise!vars)
  BY <1>5 DEF Other
<1> QED BY <1>1, <1>2, <1>3, <1>4, <1>6, <1>7, <1>8, <1>9, <1>10, <1>11, <1>12, <1>13, <1>14
        DEF Next, Host, Other

\* MultiPool keeps TaskPool's promise to _process_task.
THEOREM Refinement == Spec => ImplementsTaskPool
<1>1. Init => Promise!Init
  BY RefineInit
<1>2. IInv /\ IInv' /\ [Next]_vars => [Promise!Next]_(Promise!vars)
  BY RefineNext
<1> QED BY <1>1, <1>2, Invariance, PTL DEF Spec, ImplementsTaskPool, Promise!Spec

\* What TaskPool promises when it returns normally: the root was submitted, and with every
\* registered result its subtasks.
LEMMA PromiseInvariance == Promise!Spec => []Promise!DoneMeansComplete
<1>1. Promise!Init => Promise!Inv
  BY DEF Promise!Init, Promise!Inv, Promise!TypeOK
<1>2. Promise!Inv /\ [Promise!Next]_(Promise!vars) => Promise!Inv'
  <2> SUFFICES ASSUME Promise!Inv, [Promise!Next]_(Promise!vars) PROVE Promise!Inv'
    OBVIOUS
  <2>1. ASSUME NEW t \in Tasks, Promise!Submit(t) PROVE Promise!Inv'
    BY <2>1 DEF Promise!Inv, Promise!TypeOK, Promise!Submit
  <2>2. ASSUME NEW t \in Tasks, Promise!Register(t) PROVE Promise!Inv'
    BY <2>2 DEF Promise!Inv, Promise!TypeOK, Promise!Register
  <2>3. CASE Promise!Finish \/ Promise!Fail \/ UNCHANGED Promise!vars
    BY <2>3 DEF Promise!Inv, Promise!TypeOK, Promise!Finish, Promise!Fail, Promise!vars
  <2> QED BY <2>1, <2>2, <2>3 DEF Promise!Next
<1>3. Promise!Inv => Promise!DoneMeansComplete
  BY DEF Promise!Inv, Promise!DoneMeansComplete, Promise!Complete
<1> QED BY <1>1, <1>2, <1>3, PTL DEF Promise!Spec

\* process_until_done returns normally only with a complete result: the input and, with
\* every task whose result is registered, all its subtasks.
THEOREM PromiseKept == Spec => []Promise!DoneMeansComplete
<1>1. Promise!Spec => []Promise!DoneMeansComplete
  BY PromiseInvariance
<1> QED BY <1>1, Refinement, PTL DEF ImplementsTaskPool
=============================================================================
