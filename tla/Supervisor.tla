----------------------------- MODULE Supervisor -----------------------------
(***************************************************************************)
(* supervisor.rs: one case run in a worker process of its own.  The parent *)
(* polls: try_wait, then the elapsed time, then a sleep of a few ms; it    *)
(* kills a worker past its timeout, and reads the worker's stdout only     *)
(* after the worker is gone.  The worker (run_worker) runs the case,       *)
(* writes its report as one tab-separated line into a pipe of bounded      *)
(* size, and exits; it may also hang, crash at any point, or block on the  *)
(* full pipe.  Parent, worker, kernel and clock interleave freely.         *)
(***************************************************************************)
EXTENDS Integers

CONSTANTS Timeout,   \* policy.supervisor_timeout_ms, in clock units
          Poll,      \* the sleep between two polls (5 ms)
          PipeSize,  \* what the stdout pipe holds, in units of a line
          LineSizes, \* lengths of the worker's line, in the same units
          Expected,  \* expected codes of the cases
          MaxNow     \* bound of the model: the clock stops here

ASSUME SupervisorAssumption ==
  /\ {Timeout, Poll, PipeSize, MaxNow} \subseteq Nat
  /\ Poll > 0
  /\ LineSizes \subseteq Nat \ {0, 1}  \* host_error is in the last unit
  /\ Timeout + Poll <= MaxNow  \* no sleep reaches past the end of the clock
  /\ Expected \subseteq {"OK", "ERR_TIMEOUT", "ERR_INTERNAL"}

VARIABLES
  expected,  \* case.expected_code
  lineSize,  \* how long the worker's line would be
  pc,        \* where run_case_supervised is
  now,       \* time since start, saturating at MaxNow
  wakeAt,    \* when the present sleep ends
  worker,    \* "none", "working", "writing", "exited" or "reaped"
  signalled, \* SIGKILL was sent
  line,      \* the report the worker writes, or NoLine
  written,   \* units of the line in the pipe
  report     \* the report returned, or NoReport

vars == <<expected, lineSize, pc, now, wakeAt, worker, signalled, line, written,
          report>>

\* actual_code and host_error of the worker's CaseReport: a run that returned a
\* code, or an error_report, which has no code.
Lines ==
  [actual: {"OK", "ERR_INTERNAL"}, hostError: {FALSE}]
    \cup [actual: {"none"}, hostError: {TRUE}]

NoLine == [actual |-> "none", hostError |-> FALSE]
NoReport == [actual |-> "none", hostError |-> FALSE, detail |-> "pending"]

Alive == worker \in {"working", "writing"}

Init ==
  /\ expected \in Expected
  /\ lineSize \in LineSizes
  /\ pc = "spawn"
  /\ now = 0
  /\ wakeAt = 0
  /\ worker = "none"
  /\ signalled = FALSE
  /\ line = NoLine
  /\ written = 0
  /\ report = NoReport

-----------------------------------------------------------------------------
(* The reports. *)

Finish(r) == pc' = "done" /\ report' = r

\* Faulty: a supervisor error that leaves host_error empty.
ErrorReport_NoHostError(detail) ==
  [actual |-> "ERR_INTERNAL", hostError |-> FALSE, detail |-> detail]

\* supervisor_error_report
ErrorReport(detail) ==
  [actual |-> "ERR_INTERNAL", hostError |-> TRUE, detail |-> detail]

\* timeout_report
TimeoutReport ==
  [actual |-> "ERR_TIMEOUT", hostError |-> FALSE, detail |-> "timed out"]

\* What parse_worker_summary can read from the pipe: nothing, or the worker's
\* code and host_error.  host_error is the last field of the line, so a line
\* cut within it still parses, possibly with an empty host_error.
Parsed ==
  {l \in Lines \cup {NoLine} :
     /\ l.actual = line.actual
     /\ l.hostError => line.hostError
     /\ written = lineSize => l = line
     /\ written >= lineSize - 1}

\* supervised_completion_report: the worker's exit status is not looked at.
CompletionReport(l) ==
  [actual |-> l.actual, hostError |-> l.hostError, detail |-> "completed"]

-----------------------------------------------------------------------------
(* The parent. *)

SpawnWorker ==
  /\ pc = "spawn"
  /\ \/ /\ Finish(ErrorReport("spawn failed"))
        /\ UNCHANGED worker
     \/ /\ pc' = "try_wait"
        /\ worker' = "working"
        /\ UNCHANGED report
  /\ UNCHANGED <<expected, lineSize, now, wakeAt, signalled, line, written>>

\* child.try_wait().  On its error the parent returns and the worker stays.
TryWait ==
  /\ pc = "try_wait"
  /\ \/ pc' = (IF worker = "exited" THEN "collect" ELSE "elapsed")
        /\ UNCHANGED report
     \/ Finish(ErrorReport("wait failed"))
  /\ UNCHANGED <<expected, lineSize, now, wakeAt, worker, signalled, line,
                 written>>

\* Faulty: the poll never finds the timeout reached.
PastDeadline_Never == FALSE

PastDeadline == now >= Timeout

\* The guard of the second arm, read after try_wait answered.
CheckElapsed ==
  /\ pc = "elapsed"
  /\ pc' = IF PastDeadline THEN "kill" ELSE "sleep"
  /\ wakeAt' = IF PastDeadline THEN wakeAt ELSE now + Poll
  /\ UNCHANGED <<expected, lineSize, now, worker, signalled, line, written,
                 report>>

Wake ==
  /\ pc = "sleep" /\ now >= wakeAt
  /\ pc' = "try_wait"
  /\ UNCHANGED <<expected, lineSize, now, wakeAt, worker, signalled, line,
                 written, report>>

Kill ==
  /\ pc = "kill"
  /\ signalled' = TRUE
  /\ pc' = "reap"
  /\ UNCHANGED <<expected, lineSize, now, wakeAt, worker, line, written,
                 report>>

\* Faulty: the report does not wait for the killed worker.
Reap_NoWait ==
  /\ pc = "reap"
  /\ Finish(TimeoutReport)
  /\ UNCHANGED <<expected, lineSize, now, wakeAt, worker, signalled, line,
                 written>>

\* Faulty: a worker that was done before the signal reached it is still heard.
Reap_HearsLateAnswer ==
  /\ pc = "reap" /\ worker = "exited"
  /\ worker' = "reaped"
  /\ Finish(IF written = lineSize THEN CompletionReport(line) ELSE TimeoutReport)
  /\ UNCHANGED <<expected, lineSize, now, wakeAt, signalled, line, written>>

\* wait_with_output after the kill; its result is not looked at.
Reap ==
  /\ pc = "reap" /\ worker = "exited"
  /\ worker' = "reaped"
  /\ Finish(TimeoutReport)
  /\ UNCHANGED <<expected, lineSize, now, wakeAt, signalled, line, written>>

\* wait_with_output after the worker ended, then its line.
Collect ==
  /\ pc = "collect"
  /\ worker' = "reaped"
  /\ \/ Finish(ErrorReport("output failed"))
     \/ /\ written < lineSize
        /\ Finish(ErrorReport("protocol missing"))
     \/ \E l \in Parsed : Finish(CompletionReport(l))
  /\ UNCHANGED <<expected, lineSize, now, wakeAt, signalled, line, written>>

Parent ==
  \/ SpawnWorker \/ TryWait \/ CheckElapsed \/ Wake \/ Kill \/ Reap \/ Collect

-----------------------------------------------------------------------------
(* The worker, the kernel and the clock. *)

\* run_case returned; the worker is about to print its line.
WorkerRunsCase ==
  /\ worker = "working"
  /\ worker' = "writing"
  /\ line' \in Lines
  /\ UNCHANGED <<expected, lineSize, pc, now, wakeAt, signalled, written,
                 report>>

\* Nobody reads the pipe while the worker lives, so it writes until it is full.
WorkerWrites ==
  /\ worker = "writing" /\ written < lineSize /\ written < PipeSize
  /\ written' = written + 1
  /\ UNCHANGED <<expected, lineSize, pc, now, wakeAt, worker, signalled, line,
                 report>>

\* The worker ends: its line written, by a crash or an exit(2) at any point,
\* or by the signal.
WorkerEnds ==
  /\ Alive
  /\ worker' = "exited"
  /\ UNCHANGED <<expected, lineSize, pc, now, wakeAt, signalled, line, written,
                 report>>

Clock ==
  /\ now < MaxNow
  /\ now' = now + 1
  /\ UNCHANGED <<expected, lineSize, pc, wakeAt, worker, signalled, line,
                 written, report>>

Next == Parent \/ WorkerRunsCase \/ WorkerWrites \/ WorkerEnds \/ Clock

\* The parent's thread is scheduled, time passes, and SIGKILL ends a process.
\* Nothing is assumed of the worker: it may hang for ever.
Fairness ==
  /\ WF_vars(Parent)
  /\ WF_vars(Clock)
  /\ WF_vars(WorkerEnds /\ signalled)

Spec == Init /\ [][Next]_vars /\ Fairness

-----------------------------------------------------------------------------
Reports ==
  [actual: {"OK", "ERR_INTERNAL", "ERR_TIMEOUT", "none"}, hostError: BOOLEAN,
   detail: {"pending", "spawn failed", "wait failed", "output failed",
            "protocol missing", "timed out", "completed"}]

TypeOK ==
  /\ expected \in Expected
  /\ lineSize \in LineSizes
  /\ pc \in {"spawn", "try_wait", "elapsed", "sleep", "kill", "reap", "collect",
             "done"}
  /\ now \in 0 .. MaxNow
  /\ wakeAt \in Nat
  /\ worker \in {"none", "working", "writing", "exited", "reaped"}
  /\ signalled \in BOOLEAN
  /\ line \in Lines \cup {NoLine}
  /\ written \in Nat
  /\ report \in Reports

\* CaseReport::passed
Passed(r) == ~r.hostError /\ r.actual = expected

\* A supervised case passes only on the worker's own word or on the timeout
\* its case expects: no crash, cut line, full pipe or failing call of the
\* supervisor turns into a pass, whatever code the case expects.
NoFalsePass ==
  pc = "done" /\ Passed(report) =>
    \/ written >= lineSize - 1 /\ ~line.hostError /\ line.actual = expected
    \/ expected = "ERR_TIMEOUT" /\ signalled

\* The worker is dead and reaped before its report is returned, and was killed
\* only past the deadline; the one exception is a failing try_wait, after
\* which the code leaves the worker running.
NoOrphan ==
  /\ pc = "done" /\ report.detail # "wait failed" => worker \in {"none", "reaped"}
  /\ signalled => now >= Timeout

\* The timeout once decided is final and is the only thing that signals: a
\* worker that still answers, or ends, between the look at the clock and the
\* reaping is reported as timed out, and a report that quotes the worker is of
\* one that was left to end by itself and quotes its code.
TimeoutIsFinal ==
  pc = "done" =>
    /\ report.detail = "timed out" <=> signalled
    /\ report.detail = "completed" => report.actual = line.actual

\* A hung worker, a worker blocked on the full pipe or one that crashed does
\* not hold the supervisor: it always returns a report.
AlwaysReports == <>(pc = "done")
=============================================================================
