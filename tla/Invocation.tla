----------------------------- MODULE Invocation -----------------------------
(***************************************************************************)
(* One run of the program: main and cli (cli.py), which call process_file  *)
(* (processing.py) in the main thread or, through Sandbox.run (sandbox.py),*)
(* in a daemon thread that the file system restrictions are put on.  The   *)
(* exceptions and the error reports of the tasks become the exit code.     *)
(*                                                                         *)
(* A Ctrl-C always reaches the main thread.  With the sandbox it finds     *)
(* that thread in join(): the interpreter begins to shut down, and its     *)
(* atexit callbacks meet the job and the workers wherever they are.        *)
(***************************************************************************)
EXTENDS Naturals, FiniteSets

CONSTANTS Workers,     \* the worker processes of the pool
          MaxResults,  \* results a run collects at most
          Faults       \* which of "interrupt", "fork", "cli" may happen

ASSUME InvocationAssumption ==
  /\ IsFiniteSet(Workers) /\ MaxResults \in Nat
  /\ Faults \subseteq {"interrupt", "fork", "cli"}

VARIABLES
  opts,         \* the options, and what the run finds: see Options
  main,         \* where the main thread is
  job,          \* where process_file is
  ended,        \* how process_file ended: "no", "ok", "refused", "error", "interrupt"
  worker,       \* each worker: "new", "working", "told" to quit, "gone"
  running,      \* pool._running
  registered,   \* pool._close_immediate is registered with atexit
  closing,      \* where each thread is in pool.close()
  lifeline,     \* pool._lifeline_host_side is open
  joining,      \* the children multiprocessing's own atexit callback waits for
  reports,      \* the reports in the results registered so far
  results,      \* how many those results are
  code,         \* the exit status of the program
  interrupted   \* Ctrl-C was pressed

poolVars == <<worker, running, registered, closing, lifeline>>
vars == <<opts, main, job, ended, poolVars, joining, reports, results, code, interrupted>>

Threads == {"main", "job"}

(* sandbox is the absence of --no-sandbox, single is --process-num 1, and  *)
(* refused is what prepare_report_file is going to answer.                 *)
Options == [sandbox : BOOLEAN, single : BOOLEAN, refused : BOOLEAN]

-----------------------------------------------------------------------------
(* Reports: the place of a report in a TaskResult, and its severity.       *)

Report(place, severity) == [place |-> place, severity |-> severity]

(* How the command of an extractor ends.  On a time out the command, a     *)
(* list, is given to ExtractorTimedOut for a string: the ValidationError   *)
(* is reported as UnknownError, like any exception of an extractor.        *)
CommandSeverity ==
  [ok |-> "none", failed |-> "WARNING", missing |-> "ERROR", timeout |-> "ERROR"]

(* ExtractError of a handler without an extractor, or of an encrypted      *)
(* chunk, brings no report; a problem a Python extractor has resolved is   *)
(* not an ErrorReport.                                                     *)
ExtractorSeverity ==
  [ok |-> "none", no_extractor |-> "none", problem |-> "none", raised |-> "ERROR",
   dir_exists |-> "ERROR"]

ExtractionSeverities ==
  {CommandSeverity[e] : e \in DOMAIN CommandSeverity}
    \cup {ExtractorSeverity[e] : e \in DOMAIN ExtractorSeverity}

\* a task ends with a report of its own (an exception, a collision of multi-files, a link
\* that was removed), with extracted chunks, or with an extracted multi-file
TaskOutcomes ==
  {{}} \cup {{Report("task", s)} : s \in {"ERROR", "WARNING"}}
       \cup {{Report(p, s)} : p \in {"chunk", "multi"}, s \in ExtractionSeverities}

\* ProcessResult.errors: it opens the reports on chunks, not those on multi-files
errors(all) == {r \in all : r.place \in {"task", "chunk"} /\ r.severity # "none"}

\* the first severity of the table that occurs decides
get_exit_code_from_reports(all) ==
  IF \E r \in errors(all) : r.severity = "ERROR" THEN "1" ELSE "0"

-----------------------------------------------------------------------------
Init ==
  /\ opts \in Options
  /\ main = "parse" /\ job = "idle" /\ ended = "no"
  /\ worker = [w \in Workers |-> "new"]
  /\ running = FALSE /\ registered = FALSE /\ lifeline = TRUE
  /\ closing = [t \in Threads |-> "out"]
  /\ joining = {} /\ reports = {} /\ results = 0
  /\ code = "none" /\ interrupted = FALSE

Alive == main # "gone"
\* the thread process_file runs in
JobThread == IF opts.sandbox THEN "job" ELSE "main"
Busy == {w \in Workers : worker[w] \in {"working", "told"}}

(* The main thread. *)

\* sys.exit, or an exception nobody catches: the interpreter shuts down
Leave(status) == main' = "atexit" /\ code' = status

\* make_context: a usage error; --version and other options that end the program
Parse ==
  /\ main = "parse"
  /\ \/ main' = "cli" /\ UNCHANGED code
     \/ "cli" \in Faults /\ \E status \in {"0", "1", "2"} : Leave(status)
  /\ UNCHANGED <<opts, job, ended, poolVars, joining, reports, results, interrupted>>

\* cli up to process_file: the log file, the plugins (which may raise, also for a report type
\* whose name is taken), the configuration, the extraction directory
Cli ==
  /\ main = "cli"
  /\ \/ /\ main' = "call" /\ UNCHANGED code
        /\ job' = IF opts.sandbox THEN "enter" ELSE "begin"
     \/ "cli" \in Faults /\ Leave("1") /\ UNCHANGED job
  /\ UNCHANGED <<opts, ended, poolVars, joining, reports, results, interrupted>>

\* Mutant: run returns without looking at the exception of its thread.
Return_Swallows ==
  /\ main = "call" /\ job = "done"
  /\ Leave(IF ended = "interrupt" THEN "sigint" ELSE get_exit_code_from_reports(reports))
  /\ UNCHANGED <<opts, job, ended, poolVars, joining, reports, results, interrupted>>

\* process_file has returned or raised, through Sandbox.run or not; a KeyboardInterrupt is not
\* an Exception: main lets it pass
Return ==
  /\ main = "call" /\ job = "done"
  /\ Leave(CASE ended = "interrupt" -> "sigint"
             [] ended = "error" -> "1"
             [] OTHER -> get_exit_code_from_reports(reports))
  /\ UNCHANGED <<opts, job, ended, poolVars, joining, reports, results, interrupted>>

\* the atexit callbacks, the last one registered first: the pool's, if it still is registered
\* when its turn comes ...
AtExit ==
  /\ main = "atexit"
  /\ IF registered THEN main' = "close" ELSE main' = "children"
  /\ UNCHANGED <<opts, job, ended, poolVars, joining, reports, results, code, interrupted>>

\* ... _close_immediate returns, or its exception is printed ...
AtExitClosed ==
  /\ main = "close_end"
  /\ main' = "children"
  /\ UNCHANGED <<opts, job, ended, poolVars, joining, reports, results, code, interrupted>>

\* ... and multiprocessing's, which lists the children (they are no daemons) and joins them
ListChildren ==
  /\ main = "children"
  /\ main' = "join" /\ joining' = Busy
  /\ UNCHANGED <<opts, job, ended, poolVars, reports, results, code, interrupted>>

\* the process ends, and with it its daemon threads and its ends of the pipes
Exit ==
  /\ main = "join" /\ joining \cap Busy = {}
  /\ main' = "gone" /\ lifeline' = FALSE
  /\ UNCHANGED <<opts, job, ended, worker, running, registered, closing, joining, reports,
                 results, code, interrupted>>

-----------------------------------------------------------------------------
(* process_file, in the thread of its own or in the main thread.           *)

\* _try_enter_sandbox: where the restrictions are not to be had the job goes on without
EnterSandbox ==
  /\ Alive /\ job = "enter"
  /\ job' = "begin"
  /\ UNCHANGED <<opts, main, ended, poolVars, joining, reports, results, code, interrupted>>

\* the old output is removed, then the report file is tried: a refused run is an empty result
Begin ==
  /\ Alive /\ job = "begin"
  /\ IF opts.refused
       THEN job' = "done" /\ ended' = "refused"
       ELSE job' = (IF opts.single THEN "run" ELSE "start") /\ UNCHANGED ended
  /\ running' = (~ opts.refused /\ ~ opts.single)
  /\ UNCHANGED <<opts, main, worker, registered, closing, lifeline, joining, reports, results,
                 code, interrupted>>

\* MultiPool.start: one fork after the other; when one fails the pool's __enter__ raises, and
\* nothing calls __exit__
StartWorker(w) ==
  /\ Alive /\ job = "start" /\ worker[w] = "new"
  /\ \/ worker' = [worker EXCEPT ![w] = "working"] /\ UNCHANGED <<job, ended>>
     \/ "fork" \in Faults /\ job' = "done" /\ ended' = "error" /\ UNCHANGED worker
  /\ UNCHANGED <<opts, main, running, registered, closing, lifeline, joining, reports, results,
                 code, interrupted>>

Started ==
  /\ Alive /\ job = "start" /\ \A w \in Workers : worker[w] # "new"
  /\ job' = "run" /\ registered' = TRUE
  /\ UNCHANGED <<opts, main, ended, worker, running, closing, lifeline, joining, reports,
                 results, code, interrupted>>

\* a worker has done a task and process_until_done has registered the result
Result ==
  /\ Alive /\ job = "run" /\ results < MaxResults
  /\ opts.single \/ \A w \in Workers : worker[w] = "working"
  /\ results' = results + 1
  /\ \E outcome \in TaskOutcomes : reports' = reports \cup outcome
  /\ UNCHANGED <<opts, main, job, ended, poolVars, joining, code, interrupted>>

\* process_until_done ends: no task is left, or a worker is found gone (the other thread has
\* terminated it); either way the pool is closed, a recursive one has nothing to close
LeaveLoop ==
  /\ Alive /\ job = "run"
  /\ \/ results > 0 /\ ended' = "ok"
     \/ ~ opts.single /\ \E w \in Workers : worker[w] # "working"
        /\ ended' = "error"
  /\ job' = IF opts.single THEN "save" ELSE "close"
  /\ UNCHANGED <<opts, main, poolVars, joining, reports, results, code, interrupted>>

\* write_json_report, which logs its exceptions and returns
Save ==
  /\ Alive /\ job = "save"
  /\ job' = "done"
  /\ UNCHANGED <<opts, main, ended, poolVars, joining, reports, results, code, interrupted>>

-----------------------------------------------------------------------------
(* close() of the pool: called by the job when it leaves the with block    *)
(* and by main as an atexit callback.  Two threads may be in it at once.   *)

Closing(t) == IF t = "main" THEN main = "close" \/ (~ opts.sandbox /\ job = "close" /\ Alive)
                            ELSE opts.sandbox /\ job = "close" /\ Alive

\* what follows close in the thread that called it: the job writes its report unless an
\* exception is on its way
CloseReturns(t, raises) ==
  IF main = "close" /\ t = "main"
    THEN main' = "close_end" /\ UNCHANGED <<job, ended>>
    ELSE /\ ended' = IF raises /\ ended = "ok" THEN "error" ELSE ended
         /\ job' = IF ended' = "ok" THEN "save" ELSE "done"
         /\ UNCHANGED main

\* if not self._running: return
CloseTest(t) ==
  /\ Closing(t) /\ closing[t] = "out"
  /\ IF running
       THEN closing' = [closing EXCEPT ![t] = "set"] /\ UNCHANGED <<main, job, ended>>
       ELSE CloseReturns(t, FALSE) /\ UNCHANGED closing
  /\ UNCHANGED <<opts, worker, running, registered, lifeline, joining, reports, results, code,
                 interrupted>>

\* self._running = False; atexit.unregister
CloseSet(t) ==
  /\ Closing(t) /\ closing[t] = "set"
  /\ running' = FALSE /\ registered' = FALSE
  /\ closing' = [closing EXCEPT ![t] = "stop"]
  /\ UNCHANGED <<opts, main, job, ended, worker, lifeline, joining, reports, results, code,
                 interrupted>>

\* Mutant: an immediate close only closes the queues.
StopWorkers_ByQueue(t) ==
  /\ Closing(t) /\ closing[t] = "stop"
  /\ worker' = IF t = JobThread /\ ended = "ok"
                 THEN [w \in Workers |-> IF worker[w] = "working" THEN "told" ELSE worker[w]]
                 ELSE worker
  /\ closing' = [closing EXCEPT ![t] = "join"]
  /\ UNCHANGED <<opts, main, job, ended, running, registered, lifeline, joining, reports,
                 results, code, interrupted>>

\* the workers are given their sentinels, or SIGTERM when the close is immediate
StopWorkers(t) ==
  /\ Closing(t) /\ closing[t] = "stop"
  /\ worker' = [w \in Workers |-> IF worker[w] = "working" THEN "told" ELSE worker[w]]
  /\ closing' = [closing EXCEPT ![t] = "join"]
  /\ UNCHANGED <<opts, main, job, ended, running, registered, lifeline, joining, reports,
                 results, code, interrupted>>

\* the workers are joined and the lifeline is closed; the second of two threads to do so gets
\* an OSError
CloseEnd(t) ==
  /\ Closing(t) /\ closing[t] = "join" /\ Busy = {}
  /\ lifeline' = FALSE
  /\ closing' = [closing EXCEPT ![t] = "out"]
  /\ CloseReturns(t, ~ lifeline)
  /\ UNCHANGED <<opts, worker, running, registered, joining, reports, results, code,
                 interrupted>>

-----------------------------------------------------------------------------
(* The world outside: the workers' deaths and the user.                    *)

\* a worker has got its sentinel or SIGTERM, or its lifeline was closed
WorkerExit(w) ==
  /\ worker[w] = "told" \/ (worker[w] = "working" /\ ~ lifeline)
  /\ worker' = [worker EXCEPT ![w] = "gone"]
  /\ UNCHANGED <<opts, main, job, ended, running, registered, closing, lifeline, joining,
                 reports, results, code, interrupted>>

(* KeyboardInterrupt in the main thread, once.  With the sandbox, or       *)
(* before the job, the interpreter begins to shut down.                    *)
Interrupt ==
  /\ "interrupt" \in Faults /\ ~ interrupted
  /\ main \in {"parse", "cli"} \/ (main = "call" /\ opts.sandbox)
  /\ interrupted' = TRUE /\ Leave("sigint")
  /\ UNCHANGED <<opts, job, ended, poolVars, joining, reports, results>>

(* Without the sandbox the exception leaves process_file: through the with *)
(* block once the pool is entered.  In close() it is caught only while the *)
(* workers are asked to quit, and makes the close an immediate one.        *)
InterruptJob ==
  /\ "interrupt" \in Faults /\ ~ interrupted
  /\ main = "call" /\ ~ opts.sandbox /\ job # "done"
  /\ interrupted' = TRUE /\ ended' = "interrupt"
  /\ \/ job = "run" /\ ~ opts.single /\ job' = "close" /\ UNCHANGED closing
     \/ job = "close" /\ closing["main"] = "stop" /\ UNCHANGED <<job, closing>>
     \/ /\ job # "run" \/ opts.single
        /\ job' = "done" /\ closing' = [closing EXCEPT !["main"] = "out"]
  /\ UNCHANGED <<opts, main, worker, running, registered, lifeline, joining, reports, results,
                 code>>

-----------------------------------------------------------------------------
MainNext == Parse \/ Cli \/ Return \/ AtExit \/ AtExitClosed \/ ListChildren \/ Exit
JobNext == EnterSandbox \/ Begin \/ (\E w \in Workers : StartWorker(w)) \/ Started \/ LeaveLoop
           \/ Save
CloseNext(t) == CloseTest(t) \/ CloseSet(t) \/ StopWorkers(t) \/ CloseEnd(t)

Next ==
  \/ MainNext \/ JobNext \/ Result \/ Interrupt \/ InterruptJob
  \/ \E t \in Threads : CloseNext(t)
  \/ \E w \in Workers : WorkerExit(w)

(* Nothing makes a task end: an extractor may run for twelve hours.  Every *)
(* thread that can go on does, and a worker that is told to quit does.     *)
Fairness ==
  /\ WF_vars(MainNext) /\ WF_vars(JobNext)
  /\ \A t \in Threads : WF_vars(CloseNext(t))
  /\ \A w \in Workers : WF_vars(WorkerExit(w))

Spec == Init /\ [][Next]_vars /\ Fairness

-----------------------------------------------------------------------------
(***************************************************************************)
(* A run that processed a file exits with 0 only if nobody interrupted it, *)
(* process_file raised nothing, in whichever thread, and no task and no    *)
(* extraction of a chunk left a report of severity ERROR; and it exits     *)
(* with 1 only if there was one of those.                                  *)
(***************************************************************************)
ExitCodeTells ==
  (main = "gone" /\ job # "idle") =>
    LET failed == \E r \in reports : r.place \in {"task", "chunk"} /\ r.severity = "ERROR" IN
    /\ code = "0" => ended \in {"ok", "refused"} /\ ~ failed
    /\ code = "1" => ended = "error" \/ failed

(***************************************************************************)
(* If the pool is registered with atexit when the interpreter begins to    *)
(* shut down after a Ctrl-C, or if there is no pool of processes, the      *)
(* program and all workers end without waiting for the tasks: in whatever  *)
(* order the shutdown, the job and its own close() meet.                   *)
(***************************************************************************)
InterruptEnds ==
  interrupted /\ (opts.single \/ (registered /\ main \in {"call", "atexit"}))
    ~> main = "gone" /\ Busy = {}
=============================================================================
