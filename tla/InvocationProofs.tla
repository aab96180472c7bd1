-------------------------- MODULE InvocationProofs --------------------------
(***************************************************************************)
(* The exit code of Invocation, for any number of workers and results and  *)
(* under any faults.  ExitCodeTells speaks of the end of the program; the  *)
(* invariant says when the code is settled: not before the call of         *)
(* process_file has returned, and then neither the way it ended nor the    *)
(* reports can change any more.                                            *)
(***************************************************************************)
EXTENDS Invocation, TLAPS

Failed == \E r \in reports : r.place \in {"task", "chunk"} /\ r.severity = "ERROR"

Unsettled ==
  /\ main \in {"parse", "cli"} => job = "idle"
  /\ main \in {"parse", "cli", "call"} => code = "none"
Settled ==
  job # "idle" =>
    /\ code = "0" => job = "done" /\ ended \in {"ok", "refused"} /\ ~ Failed
    /\ code = "1" => job = "done" /\ (ended = "error" \/ Failed)
ExitInv == Unsettled /\ Settled

\* How process_file ended when it has: an interrupted job says so.
EndInv == job = "done" => ended \in {"ok", "refused", "error", "interrupt"}
\* ... and a job that has left its loop knows how.
LoopInv == job \in {"close", "save"} => ended \in {"ok", "error", "interrupt"}
Inv == ExitInv /\ EndInv /\ LoopInv

\* The steps of main before and after the call of process_file.
LEMMA MainStep ==
  ASSUME Inv, Parse \/ Cli \/ AtExit \/ AtExitClosed \/ ListChildren \/ Exit
  PROVE  Inv'
BY DEF Inv, ExitInv, EndInv, LoopInv, Unsettled, Settled, Failed, Parse, Cli, AtExit, AtExitClosed,
       ListChildren, Exit, Leave, poolVars

\* The code is made from the reports that errors selects.

\* The code is made of the reports that errors selects, and of the exception.
LEMMA ReturnStep == ASSUME Inv, Return PROVE Inv'
<1>1. /\ main = "call" /\ job = "done" /\ main' = "atexit"
      /\ job' = job /\ ended' = ended /\ reports' = reports
  BY DEF Return, Leave
<1>2. Failed <=> \E r \in errors(reports) : r.severity = "ERROR"
  BY DEF Failed, errors
<1>3. get_exit_code_from_reports(reports) = IF Failed THEN "1" ELSE "0"
  BY <1>2 DEF get_exit_code_from_reports
<1>4. code' = CASE ended = "interrupt" -> "sigint"
                [] ended = "error" -> "1"
                [] OTHER -> IF Failed THEN "1" ELSE "0"
  BY <1>3 DEF Return, Leave
<1>5. ended \in {"ok", "refused", "error", "interrupt"}
  BY <1>1 DEF Inv, EndInv
<1>6. CASE ended = "interrupt"
  BY <1>1, <1>4, <1>5, <1>6 DEF Inv, ExitInv, EndInv, LoopInv, Unsettled, Settled
<1>7. CASE ended = "error"
  BY <1>1, <1>4, <1>5, <1>7 DEF Inv, ExitInv, EndInv, LoopInv, Unsettled, Settled
<1>8. CASE ended \in {"ok", "refused"}
  <2>1. code' = IF Failed THEN "1" ELSE "0"
    BY <1>4, <1>8
  <2>2. Failed' <=> Failed
    BY <1>1 DEF Failed
  <2> QED BY <1>1, <1>8, <2>1, <2>2 DEF Inv, ExitInv, EndInv, LoopInv, Unsettled, Settled
<1> QED BY <1>5, <1>6, <1>7, <1>8

\* While process_file runs no exit code exists that its steps could contradict.
LEMMA JobStep == ASSUME Inv, JobNext \/ Result PROVE Inv'
<1>1. CASE Result
  BY <1>1 DEF Inv, ExitInv, EndInv, LoopInv, Unsettled, Settled, Result
<1>2. CASE EnterSandbox \/ Begin \/ Started \/ Save
  BY <1>2 DEF Inv, ExitInv, EndInv, LoopInv, Unsettled, Settled, Failed, EnterSandbox, Begin,
              Started, Save
<1>3. CASE \E w \in Workers : StartWorker(w)
  BY <1>3 DEF Inv, ExitInv, EndInv, LoopInv, Unsettled, Settled, Failed, StartWorker
<1>4. CASE LeaveLoop
  BY <1>4 DEF Inv, ExitInv, EndInv, LoopInv, Unsettled, Settled, Failed, LeaveLoop
<1> QED BY <1>1, <1>2, <1>3, <1>4 DEF JobNext

\* close() of either thread leaves the reports and the code alone, and ends the job at most.
LEMMA CloseStep == ASSUME Inv, NEW t \in Threads, CloseNext(t) PROVE Inv'
<1>1. /\ reports' = reports /\ code' = code
      /\ \/ main' = main /\ job' = job /\ ended' = ended
         \/ main = "close" /\ main' = "close_end" /\ job' = job /\ ended' = ended
         \/ /\ main' = main /\ job = "close"
            /\ ended' = ended \/ (ended = "ok" /\ ended' = "error")
            /\ job' = IF ended' = "ok" THEN "save" ELSE "done"
  BY DEF CloseNext, CloseTest, CloseSet, StopWorkers, CloseEnd, CloseReturns, Closing
<1> QED
  BY <1>1 DEF Inv, ExitInv, EndInv, LoopInv, Unsettled, Settled, Failed

\* Ctrl-C and the deaths of workers.
LEMMA OutsideStep ==
  ASSUME Inv, Interrupt \/ InterruptJob \/ \E w \in Workers : WorkerExit(w)
  PROVE  Inv'
BY DEF Inv, ExitInv, EndInv, LoopInv, Unsettled, Settled, Failed, Interrupt, InterruptJob,
       WorkerExit, Leave

(***************************************************************************)
(* Whatever faults there are and wherever the interrupt comes, the exit    *)
(* code of main (cli.py) agrees with how process_file ended and with the   *)
(* reports on the tasks and their chunks.                                  *)
(***************************************************************************)
THEOREM ExitCode == Spec => []ExitCodeTells
<1>1. Init => Inv
  BY DEF Init, Inv, ExitInv, EndInv, LoopInv, Unsettled, Settled
<1>2. Inv /\ [Next]_vars => Inv'
  <2> SUFFICES ASSUME Inv, [Next]_vars PROVE Inv'
    OBVIOUS
  <2>1. CASE MainNext
    BY <2>1, MainStep, ReturnStep DEF MainNext
  <2>2. CASE JobNext \/ Result
    BY <2>2, JobStep
  <2>3. CASE \E t \in Threads : CloseNext(t)
    BY <2>3, CloseStep
  <2>4. CASE Interrupt \/ InterruptJob \/ \E w \in Workers : WorkerExit(w)
    BY <2>4, OutsideStep
  <2>5. CASE UNCHANGED vars
    BY <2>5 DEF Inv, ExitInv, EndInv, LoopInv, Unsettled, Settled, Failed, vars
  <2> QED BY <2>1, <2>2, <2>3, <2>4, <2>5 DEF Next
<1>3. Inv => ExitCodeTells
  BY DEF Inv, ExitInv, Settled, Failed, ExitCodeTells
<1> QED BY <1>1, <1>2, <1>3, PTL DEF Spec
=============================================================================
