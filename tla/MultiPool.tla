----------------------------- MODULE MultiPool ------------------------------
(***************************************************************************)
(* MultiPool of python/unblob/pool.py: a host process that feeds tasks to  *)
(* worker processes through a JoinableQueue, collects their results from a *)
(* SimpleQueue, and runs the process_result callback of _process_task      *)
(* (processing.py), which submits the subtasks of every result.            *)
(*                                                                         *)
(* The processes share only the two queues, their locks and the "lifeline" *)
(* pipe.  A worker may be killed at any moment, a lock it holds then stays *)
(* held; the host may be interrupted by an exception, or die.              *)
(***************************************************************************)
EXTENDS TaskTree, Integers, Sequences, FiniteSets, Functions

CONSTANTS Workers,     \* self._procs
          Large,       \* tasks whose pickled result does not fit one atomic pipe write
          OutCap,      \* results the output pipe holds before a writer blocks
          InCap,       \* items the input pipe holds before the feeder thread blocks
          MaxKills,    \* how many workers are killed from outside
          Faults,      \* which of "interrupt", "crash" may happen to the host
          Sentinel,    \* _SENTINEL
          NoOne        \* an unlocked lock, an idle worker

\* MultiPool.__init__ rejects process_num <= 0
ASSUME PoolAssumption ==
  /\ Workers # {} /\ IsFiniteSet(Workers)
  /\ Large \subseteq Tasks
  /\ OutCap \in Nat \ {0} /\ InCap \in Nat \ {0} /\ MaxKills \in Nat
  /\ Faults \subseteq {"interrupt", "crash"}
  /\ Sentinel \notin Tasks /\ NoOne \notin Tasks /\ Sentinel # NoOne
  /\ NoOne \notin Workers

VARIABLES
  \* the host process
  pc,           \* where the host is in _process_task / process_until_done / close
  cur,          \* result being handled by the callback, named by its task
  todo,         \* subtasks of cur that the callback still has to submit
  immediate,    \* close(immediate=...)
  alive,        \* the workers _clear_output_queue still waits for
  outcome,      \* how processing ended: "none", "ok", "died", "interrupted"
  \* the input JoinableQueue
  input,        \* items put and not yet received, oldest first
  flushed,      \* how many of them the feeder thread has written to the pipe
  unfinished,   \* the _unfinished_tasks semaphore
  inLock,       \* holder of input_._rlock
  \* the output SimpleQueue
  outq,         \* complete results in the pipe
  partial,      \* the pipe also holds the beginning of a result
  outLock,      \* holder of output._wlock
  \* the workers
  wpc,          \* where each worker is in _worker_process
  job,          \* the item each worker works on
  sigterm,      \* workers that were sent SIGTERM
  kills,
  \* history
  submitted,    \* tasks given to submit
  results       \* aggregated_result.results, in order of registration

hostVars   == <<pc, cur, todo, immediate, alive, outcome>>
inVars     == <<input, flushed, unfinished, inLock>>
outVars    == <<outq, partial, outLock>>
workerVars == <<wpc, job>>
history    == <<submitted, results>>
vars == <<hostVars, inVars, outVars, workerVars, sigterm, kills, history>>

HostPCs == {"start", "loop", "wait", "get", "callback", "ack",
            "close", "clear_in", "quit", "drain", "drain_get",
            "terminate", "join", "closed", "crashed"}
Dead == {"exited", "killed"}
Running == {"starting", "ready", "reading", "handling", "putting", "writing", "finishing"}

\* connection.wait reports a process sentinel once the process is gone, and the
\* reader once any byte can be read
Exited(w) == wpc[w] \in Dead
OutReady == outq # <<>> \/ partial
\* Mutant: a worker keeps its inherited copy of the host side.
LifelineInherited == pc \notin {"closed", "crashed"} \/ \E w \in Workers : wpc[w] \in Running

\* the host side of the lifeline pipe is open in the host until the end of close()
\* and in a forked worker until it closes its inherited copy
LifelineOpen == pc \notin {"closed", "crashed"} \/ \E w \in Workers : wpc[w] = "starting"

Init ==
  /\ pc = "start" /\ cur = NoOne /\ todo = {} /\ immediate = FALSE
  /\ alive = {} /\ outcome = "none"
  /\ input = <<>> /\ flushed = 0 /\ unfinished = 0 /\ inLock = NoOne
  /\ outq = <<>> /\ partial = FALSE /\ outLock = NoOne
  /\ wpc = [w \in Workers |-> "off"] /\ job = [w \in Workers |-> NoOne]
  /\ sigterm = {} /\ kills = 0
  /\ submitted = {} /\ results = <<>>

-----------------------------------------------------------------------------
(* The host: _process_task, submit and process_until_done.                 *)

\* start: fork one worker
StartWorker(w) ==
  /\ pc = "start" /\ wpc[w] = "off"
  /\ wpc' = [wpc EXCEPT ![w] = "starting"]
  /\ UNCHANGED <<hostVars, inVars, outVars, job, sigterm, kills, history>>

\* JoinableQueue.put: never blocks, the feeder thread does the writing
Put(t) ==
  /\ input' = Append(input, t)
  /\ unfinished' = unfinished + 1
  /\ submitted' = submitted \cup {t}
  /\ UNCHANGED <<flushed, inLock>>

SubmitRoot ==
  /\ pc = "start" /\ \A w \in Workers : wpc[w] # "off"
  /\ Put(Root)
  /\ pc' = "loop"
  /\ UNCHANGED <<cur, todo, immediate, alive, outcome, outVars, workerVars,
                 sigterm, kills, results>>

\* Mutant: is_empty looks at the queue instead of counting.
CheckNothingQueued ==
  /\ pc = "loop"
  /\ \/ input = <<>> /\ pc' = "close" /\ outcome' = "ok"
     \/ input # <<>> /\ pc' = "wait" /\ UNCHANGED outcome
  /\ UNCHANGED <<cur, todo, immediate, alive, inVars, outVars, workerVars,
                 sigterm, kills, history>>

\* while not self._input.is_empty()
CheckEmpty ==
  /\ pc = "loop"
  /\ \/ unfinished = 0 /\ pc' = "close" /\ outcome' = "ok"
     \/ unfinished # 0 /\ pc' = "wait" /\ UNCHANGED outcome
  /\ UNCHANGED <<cur, todo, immediate, alive, inVars, outVars, workerVars,
                 sigterm, kills, history>>

\* Mutant: only the results are waited for.
WaitForResults ==
  /\ pc = "wait" /\ OutReady
  /\ pc' = "get"
  /\ UNCHANGED <<cur, todo, immediate, alive, outcome, inVars, outVars, workerVars,
                 sigterm, kills, history>>

\* connection.wait and _check_worker_deaths: the deaths are looked at first.
\* The exception leaves the with block of _process_task: close(immediate=True).
WaitReady ==
  /\ pc = "wait"
  /\ \/ /\ \E w \in Workers : Exited(w)
        /\ pc' = "close" /\ outcome' = "died" /\ immediate' = TRUE
     \/ /\ \A w \in Workers : ~ Exited(w)
        /\ OutReady
        /\ pc' = "get" /\ UNCHANGED <<outcome, immediate>>
  /\ UNCHANGED <<cur, todo, alive, inVars, outVars, workerVars, sigterm, kills, history>>

\* self._output.get() blocks until the message is complete
GetResult ==
  /\ pc = "get" /\ outq # <<>>
  /\ cur' = Head(outq) /\ todo' = Children[Head(outq)]
  /\ outq' = Tail(outq)
  /\ pc' = "callback"
  /\ UNCHANGED <<immediate, alive, outcome, inVars, partial, outLock, workerVars,
                 sigterm, kills, history>>

\* process_result: for new_task in result.subtasks: pool.submit(new_task)
SubmitSubtask(t) ==
  /\ pc = "callback" /\ t \in todo
  /\ Put(t)
  /\ todo' = todo \ {t}
  /\ UNCHANGED <<pc, cur, immediate, alive, outcome, outVars, workerVars,
                 sigterm, kills, results>>

\* Mutants: the result is registered before its subtasks are submitted, or in front.
RegisterEarly ==
  /\ pc = "callback"
  /\ results' = Append(results, cur)
  /\ pc' = "ack"
  /\ UNCHANGED <<cur, todo, immediate, alive, outcome, inVars, outVars, workerVars,
                 sigterm, kills, submitted>>
RegisterInFront ==
  /\ pc = "callback" /\ todo = {}
  /\ results' = <<cur>> \o results
  /\ pc' = "ack"
  /\ UNCHANGED <<cur, todo, immediate, alive, outcome, inVars, outVars, workerVars,
                 sigterm, kills, submitted>>

\* process_result: aggregated_result.register(result)
RegisterResult ==
  /\ pc = "callback" /\ todo = {}
  /\ results' = Append(results, cur)
  /\ pc' = "ack"
  /\ UNCHANGED <<cur, todo, immediate, alive, outcome, inVars, outVars, workerVars,
                 sigterm, kills, submitted>>

\* Mutant: the result is acknowledged only when it has no subtasks.
TaskDoneForLeaves ==
  /\ pc = "ack"
  /\ unfinished' = IF Children[cur] = {} THEN unfinished - 1 ELSE unfinished
  /\ cur' = NoOne
  /\ pc' = "loop"
  /\ UNCHANGED <<todo, immediate, alive, outcome, input, flushed, inLock, outVars,
                 workerVars, sigterm, kills, history>>

\* self._input.task_done()
TaskDone ==
  /\ pc = "ack"
  /\ unfinished' = unfinished - 1
  /\ cur' = NoOne
  /\ pc' = "loop"
  /\ UNCHANGED <<todo, immediate, alive, outcome, input, flushed, inLock, outVars,
                 workerVars, sigterm, kills, history>>

\* An exception in the host (KeyboardInterrupt, an error in the callback).  In
\* _process_task it leaves the with block; a caller that catches it inside the
\* block (as tests/test_pool.py does) closes without immediate.
Interrupt(imm) ==
  /\ "interrupt" \in Faults
  /\ pc \in {"loop", "wait", "get", "callback", "ack"}
  /\ pc' = "close" /\ outcome' = "interrupted" /\ immediate' = imm
  /\ UNCHANGED <<cur, todo, alive, inVars, outVars, workerVars, sigterm, kills, history>>

-----------------------------------------------------------------------------
(* The host: close.                                                        *)

\* Mutant: the workers are terminated whether or not that was asked for.
BeginTerminate ==
  /\ pc = "close"
  /\ pc' = "terminate"
  /\ UNCHANGED <<cur, todo, immediate, alive, outcome, inVars, outVars, workerVars,
                 sigterm, kills, history>>

\* immediate = immediate or self._any_worker_exited()
BeginClose ==
  /\ pc = "close"
  /\ immediate' = (immediate \/ \E w \in Workers : Exited(w))
  /\ pc' = IF immediate' THEN "terminate" ELSE "clear_in"
  /\ UNCHANGED <<cur, todo, alive, outcome, inVars, outVars, workerVars,
                 sigterm, kills, history>>

\* _clear_input_queue: get_nowait raises Empty when the lock is taken or when
\* nothing has reached the pipe
ClearInputQueue ==
  /\ pc = "clear_in"
  /\ \/ /\ inLock = NoOne /\ flushed > 0
        /\ input' = Tail(input) /\ flushed' = flushed - 1
        /\ UNCHANGED pc
     \/ /\ inLock # NoOne \/ flushed = 0
        /\ pc' = "quit"
        /\ UNCHANGED <<input, flushed>>
  /\ UNCHANGED <<cur, todo, immediate, alive, outcome, unfinished, inLock, outVars,
                 workerVars, sigterm, kills, history>>

\* _request_workers_to_quit, and the set alive of _clear_output_queue
RequestWorkersToQuit ==
  /\ pc = "quit"
  /\ input' = input \o [i \in 1..Cardinality(Workers) |-> Sentinel]
  /\ unfinished' = unfinished + Cardinality(Workers)
  /\ alive' = {w \in Workers : ~ Exited(w)}
  /\ pc' = "drain"
  /\ UNCHANGED <<cur, todo, immediate, outcome, flushed, inLock, outVars,
                 workerVars, sigterm, kills, history>>

\* _clear_output_queue: one turn of the loop, without the get
DrainWait ==
  /\ pc = "drain"
  /\ \/ /\ alive = {} /\ pc' = "join" /\ UNCHANGED alive
     \/ /\ alive # {}
        /\ OutReady \/ \E w \in alive : Exited(w)
        /\ alive' = {w \in alive : ~ Exited(w)}
        /\ pc' = IF OutReady THEN "drain_get" ELSE "drain"
  /\ UNCHANGED <<cur, todo, immediate, outcome, inVars, outVars, workerVars,
                 sigterm, kills, history>>

\* _clear_output_queue: self._output.get(), the result is dropped
DrainGet ==
  /\ pc = "drain_get" /\ outq # <<>>
  /\ outq' = Tail(outq)
  /\ pc' = "drain"
  /\ UNCHANGED <<cur, todo, immediate, alive, outcome, inVars, partial, outLock,
                 workerVars, sigterm, kills, history>>

\* Mutant: the exception is passed on without terminating the workers.
InterruptCloseOnly ==
  /\ "interrupt" \in Faults
  /\ pc \in {"clear_in", "quit", "drain", "drain_get"}
  /\ pc' = "join" /\ outcome' = "interrupted" /\ immediate' = TRUE
  /\ UNCHANGED <<cur, todo, alive, inVars, outVars, workerVars, sigterm, kills, history>>

\* except BaseException in close: the workers are terminated, and it is re-raised
InterruptClose ==
  /\ "interrupt" \in Faults
  /\ pc \in {"clear_in", "quit", "drain", "drain_get"}
  /\ pc' = "terminate" /\ outcome' = "interrupted" /\ immediate' = TRUE
  /\ UNCHANGED <<cur, todo, alive, inVars, outVars, workerVars, sigterm, kills, history>>

\* _terminate_workers
TerminateWorkers ==
  /\ pc = "terminate"
  /\ sigterm' = Workers
  /\ pc' = "join"
  /\ UNCHANGED <<cur, todo, immediate, alive, outcome, inVars, outVars, workerVars,
                 kills, history>>

\* _wait_for_workers_to_quit, then os.close(self._lifeline_host_side)
JoinWorkers ==
  /\ pc = "join" /\ \A w \in Workers : Exited(w)
  /\ pc' = "closed"
  /\ UNCHANGED <<cur, todo, immediate, alive, outcome, inVars, outVars, workerVars,
                 sigterm, kills, history>>

\* the host process is killed
HostCrash ==
  /\ "crash" \in Faults
  /\ pc \notin {"closed", "crashed"}
  /\ pc' = "crashed"
  /\ UNCHANGED <<cur, todo, immediate, alive, outcome, inVars, outVars, workerVars,
                 sigterm, kills, history>>

\* the feeder thread of the input queue, in the host process
Feed ==
  /\ pc # "crashed"
  /\ flushed < Len(input) /\ flushed < InCap
  /\ flushed' = flushed + 1
  /\ UNCHANGED <<hostVars, input, unfinished, inLock, outVars, workerVars,
                 sigterm, kills, history>>

-----------------------------------------------------------------------------
(* The workers: _worker_process.                                           *)

\* signal handlers restored, inherited lifeline descriptor closed, monitor started
WorkerReady(w) ==
  /\ wpc[w] = "starting"
  /\ wpc' = [wpc EXCEPT ![w] = "ready"]
  /\ UNCHANGED <<hostVars, inVars, outVars, job, sigterm, kills, history>>

\* input_.get(): take the reader lock ...
AcquireInput(w) ==
  /\ wpc[w] = "ready" /\ inLock = NoOne
  /\ inLock' = w
  /\ wpc' = [wpc EXCEPT ![w] = "reading"]
  /\ UNCHANGED <<hostVars, input, flushed, unfinished, outVars, job, sigterm, kills, history>>

\* Mutants: the item stays in the queue, or in the pipe.
Peek(w) ==
  /\ wpc[w] = "reading" /\ flushed > 0
  /\ job' = [job EXCEPT ![w] = Head(input)]
  /\ inLock' = NoOne
  /\ wpc' = [wpc EXCEPT ![w] = IF Head(input) = Sentinel THEN "putting" ELSE "handling"]
  /\ UNCHANGED <<hostVars, input, flushed, unfinished, outVars, sigterm, kills, history>>
ReceiveUncounted(w) ==
  /\ wpc[w] = "reading" /\ flushed > 0
  /\ job' = [job EXCEPT ![w] = Head(input)]
  /\ input' = Tail(input)
  /\ inLock' = NoOne
  /\ wpc' = [wpc EXCEPT ![w] = IF Head(input) = Sentinel THEN "putting" ELSE "handling"]
  /\ UNCHANGED <<hostVars, flushed, unfinished, outVars, sigterm, kills, history>>

\* ... and receive one item, releasing the lock
Receive(w) ==
  /\ wpc[w] = "reading" /\ flushed > 0
  /\ job' = [job EXCEPT ![w] = Head(input)]
  /\ input' = Tail(input) /\ flushed' = flushed - 1
  /\ inLock' = NoOne
  /\ wpc' = [wpc EXCEPT ![w] = IF Head(input) = Sentinel THEN "putting" ELSE "handling"]
  /\ UNCHANGED <<hostVars, unfinished, outVars, sigterm, kills, history>>

\* result = handler(args)
Handle(w) ==
  /\ wpc[w] = "handling"
  /\ wpc' = [wpc EXCEPT ![w] = "putting"]
  /\ UNCHANGED <<hostVars, inVars, outVars, job, sigterm, kills, history>>

\* output.put: take the writer lock ...
AcquireOutput(w) ==
  /\ wpc[w] = "putting" /\ outLock = NoOne
  /\ outLock' = w
  /\ wpc' = [wpc EXCEPT ![w] = "writing"]
  /\ UNCHANGED <<hostVars, inVars, outq, partial, job, sigterm, kills, history>>

\* ... write the message and release the lock; after a sentinel the worker returns
Written(w) ==
  /\ outq' = Append(outq, job[w])
  /\ partial' = FALSE
  /\ outLock' = NoOne
  /\ wpc' = [wpc EXCEPT ![w] = IF job[w] = Sentinel THEN "exited" ELSE "ready"]
  /\ job' = [job EXCEPT ![w] = NoOne]
  /\ UNCHANGED <<hostVars, inVars, sigterm, kills, history>>

WriteSmall(w) ==
  /\ wpc[w] = "writing" /\ job[w] \notin Large /\ Len(outq) < OutCap
  /\ Written(w)

\* a large message reaches the pipe in pieces
WriteBeginning(w) ==
  /\ wpc[w] = "writing" /\ job[w] \in Large /\ Len(outq) < OutCap
  /\ partial' = TRUE
  /\ wpc' = [wpc EXCEPT ![w] = "finishing"]
  /\ UNCHANGED <<hostVars, inVars, outq, outLock, job, sigterm, kills, history>>

WriteRest(w) ==
  /\ wpc[w] = "finishing"
  /\ Written(w)

Die(w) ==
  /\ wpc' = [wpc EXCEPT ![w] = "killed"]
  /\ UNCHANGED <<hostVars, inVars, outVars, job, sigterm, history>>

\* a worker is killed from outside (out of memory, os._exit in the handler)
Kill(w) ==
  /\ wpc[w] \in Running /\ kills < MaxKills
  /\ kills' = kills + 1
  /\ Die(w)

\* SIGTERM has its default effect
Terminated(w) ==
  /\ w \in sigterm /\ wpc[w] \in Running
  /\ UNCHANGED kills
  /\ Die(w)

\* _exit_on_parent_death: os.read on the lifeline returns when all copies of the
\* other end are closed
ParentDeath(w) ==
  /\ wpc[w] \in Running \ {"starting"} /\ ~ LifelineOpen
  /\ UNCHANGED kills
  /\ Die(w)

-----------------------------------------------------------------------------

Worker(w) ==
  \/ WorkerReady(w) \/ AcquireInput(w) \/ Receive(w) \/ Handle(w)
  \/ AcquireOutput(w) \/ WriteSmall(w) \/ WriteBeginning(w) \/ WriteRest(w)

Host ==
  \/ \E w \in Workers : StartWorker(w)
  \/ SubmitRoot \/ CheckEmpty \/ WaitReady \/ GetResult
  \/ \E t \in Tasks : SubmitSubtask(t)
  \/ RegisterResult \/ TaskDone
  \/ BeginClose \/ ClearInputQueue \/ RequestWorkersToQuit
  \/ DrainWait \/ DrainGet \/ TerminateWorkers \/ JoinWorkers

Fault ==
  \/ \E imm \in BOOLEAN : Interrupt(imm)
  \/ InterruptClose
  \/ HostCrash
  \/ \E w \in Workers : Kill(w)

\* everything is over
Finished ==
  /\ pc \in {"closed", "crashed"} /\ \A w \in Workers : wpc[w] \notin Running
  /\ UNCHANGED vars

Next ==
  \/ Host \/ Feed \/ Fault \/ Finished
  \/ \E w \in Workers : Worker(w) \/ Terminated(w) \/ ParentDeath(w)

Spec == Init /\ [][Next]_vars

\* Every process that can run is scheduled, a handler returns, a delivered
\* signal and a closed lifeline take effect.  Nothing is assumed of faults, and
\* nothing of who gets a free lock.
Fairness ==
  /\ WF_vars(Host) /\ WF_vars(Feed)
  /\ \A w \in Workers :
       WF_vars(Worker(w)) /\ WF_vars(Terminated(w)) /\ WF_vars(ParentDeath(w))

LiveSpec == Spec /\ Fairness

-----------------------------------------------------------------------------
(* Properties.                                                             *)

Items == Tasks \cup {Sentinel}

HostTypes ==
  /\ pc \in HostPCs
  /\ cur \in Tasks \cup {NoOne} /\ todo \in SUBSET Tasks /\ alive \in SUBSET Workers
  /\ outcome \in {"none", "ok", "died", "interrupted"}
  /\ submitted \in SUBSET Tasks /\ results \in Seq(Tasks)
FlagTypes == immediate \in BOOLEAN /\ partial \in BOOLEAN
QueueTypes ==
  /\ input \in Seq(Items) /\ flushed \in Nat /\ flushed <= Len(input) /\ unfinished \in Nat
  /\ outq \in Seq(Items)
  /\ inLock \in Workers \cup {NoOne} /\ outLock \in Workers \cup {NoOne}
WorkerTypes ==
  /\ wpc \in [Workers -> Running \cup Dead \cup {"off"}]
  /\ job \in [Workers -> Items \cup {NoOne}]
  /\ sigterm \in SUBSET Workers /\ kills \in Nat
TypeOK == HostTypes /\ FlagTypes /\ QueueTypes /\ WorkerTypes

\* The tasks whose result has been acknowledged with task_done.
Acked == Range(results) \ (IF pc = "ack" THEN {cur} ELSE {})
\* The task whose callback runs, before its registration.
InCallback == IF pc = "callback" THEN {cur} ELSE {}
Jobs == {job[w] : w \in Workers}

\* No task is in two places, or twice in one: whatever is killed or interrupted,
\* a task is handled by one worker, its result delivered, its subtasks submitted
\* and its result registered at most once.
Unrepeated(s) == \A i, j \in 1..Len(s) : s[i] = s[j] /\ s[i] \in Tasks => i = j
EachTaskOnce ==
  /\ Unrepeated(input) /\ Unrepeated(outq) /\ Unrepeated(results)
  /\ \A v, w \in Workers : job[v] = job[w] /\ job[v] \in Tasks => v = w
  /\ Range(input) \cap (Jobs \cup Range(outq) \cup InCallback \cup Range(results)) \subseteq {Sentinel}
  /\ Jobs \cap (Range(outq) \cup InCallback \cup Range(results)) \subseteq {Sentinel}
  /\ Range(outq) \cap (InCallback \cup Range(results)) = {}
  /\ InCallback \cap Range(results) = {}

\* While tasks are processed the semaphore that is_empty tests counts exactly the
\* submitted tasks that are not acknowledged: task_done is never called too often,
\* and the loop neither ends early nor waits for nothing.
Processing == pc \in {"start", "loop", "wait", "get", "callback", "ack"}
UnfinishedIsExact == Processing => unfinished = Cardinality(submitted \ Acked)

\* process_until_done returns only when the whole task tree is registered: the
\* input file, and with every task all its subtasks (the caller writes its report
\* from aggregated_result as soon as the pool is closed).
DoneMeansComplete == outcome = "ok" => Complete(Range(results))

\* A result is registered after the result it is a subtask of, so that the first
\* result is the one of the input file, which get_output_dir takes it for.
ParentFirst ==
  \A i \in 1..Len(results) :
     \/ i = 1 /\ results[i] = Root
     \/ \E j \in 1..(i-1) : results[i] \in Children[results[j]]

\* Unless something fails, everything is processed and the pool shuts down; it lets the
\* workers finish, none is aborted by the lifeline or by a signal.
Faulted == kills > 0 \/ outcome = "interrupted" \/ pc = "crashed"
Termination ==
  <>(Faulted \/ (pc = "closed" /\ outcome = "ok" /\ \A w \in Workers : wpc[w] = "exited"))

\* Whatever exception interrupts the host, wherever, it gets out of close(), as long
\* as no worker is killed meanwhile.
InterruptedCloses == outcome = "interrupted" ~> (pc \in {"closed", "crashed"} \/ kills > 0)

\* No worker outlives the host: neither after close, nor when the host is killed.
NoOrphans == pc \in {"closed", "crashed"} ~> \A w \in Workers : wpc[w] \notin Running

\* When a worker dies while tasks are processed, processing ends and the pool is
\* closed instead of waiting for a result that will never come.  The exception is
\* a death in the middle of a message, which leaves the pipe torn.
DeathSeen == Processing /\ \E w \in Workers : wpc[w] = "killed"
Torn == partial /\ \A w \in Workers : wpc[w] # "finishing"
DeathNoticed == DeathSeen ~> (pc \in {"closed", "crashed"} \/ Torn)

\* test_pool.py expects WorkerDiedError from process_until_done whenever a worker dies.
DeathAlwaysNoticed == DeathSeen ~> pc \in {"closed", "crashed"}

\* What the caller sees of the pool: its with block is being executed, has been
\* left normally, or by an exception (or has died).
PoolStatus == IF pc = "crashed" \/ outcome \in {"died", "interrupted"} THEN "failed"
              ELSE IF outcome = "ok" THEN "done" ELSE "running"

\* The promise to the caller, whatever the interleaving and the faults.
Promise == INSTANCE TaskPool WITH registered <- Range(results), status <- PoolStatus
ImplementsTaskPool == Promise!Spec
=============================================================================
