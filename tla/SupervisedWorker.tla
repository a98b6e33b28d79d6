-------------------------- MODULE SupervisedWorker --------------------------
(***************************************************************************)
(* Supervisor with the worker's line as the text it is: what the worker    *)
(* has written is any prefix of it, and the parent's Collect parses that   *)
(* prefix.  Supervisor counts the line in units: one for each symbol up to *)
(* the last tab, and one for the host_error that follows and the line end. *)
(***************************************************************************)
EXTENDS Supervisor, WorkerProtocol

CONSTANTS Details,    \* detail of the last event, a text the guest may shape
          HostErrors  \* texts of host_error; an error has one that is not empty

\* Texts are sequences of symbols, whatever these are.
ASSUME TextAssumption ==
  /\ \A text \in Details \cup HostErrors : text \in Seq({text[i] : i \in DOMAIN text})
  /\ <<>> \notin HostErrors

VARIABLES plan, \* the report the worker's run_case would return
          sent  \* symbols of its line in the pipe

textVars == <<vars, plan, sent>>

\* A run that returned a code, or an error_report: no code and no event.
Plans ==
  [actual: CodeSymbols, lastImport: {<<"x">>}, lastDetail: Details, hostError: {<<>>}]
    \cup [actual: {"none"}, lastImport: {<<>>}, lastDetail: {<<>>},
          hostError: HostErrors]

Summary(p) == [actual |-> p.actual, hostError |-> p.hostError # <<>>]

\* Symbols of the line up to and with its last tab.
HeadLength(p) == Len(BeforeError(p))

\* The units n written symbols make.
Units(p, n) ==
  IF n = Len(Encode(p)) THEN HeadLength(p) + 1 ELSE IF n <= HeadLength(p) THEN n ELSE HeadLength(p)

TextInit ==
  /\ plan \in Plans
  /\ sent = 0
  /\ lineSize = HeadLength(plan) + 1
  /\ Init

\* run_worker has its report; another line than planned is not written.
RunsCase == WorkerRunsCase /\ line' = Summary(plan) /\ UNCHANGED <<plan, sent>>

\* One more symbol, as long as the pipe has room.
WritesSymbol ==
  /\ worker = "writing" /\ sent < Len(Encode(plan)) /\ sent < PipeSize
  /\ sent' = sent + 1
  /\ written' = Units(plan, sent')
  /\ UNCHANGED <<expected, lineSize, pc, now, wakeAt, worker, signalled, line,
                 report, plan>>

\* wait_with_output after the worker ended, and what its line says.
CollectText ==
  LET summary == Parse(SubSeq(Encode(plan), 1, sent))
  IN /\ pc = "collect"
     /\ worker' = "reaped"
     /\ \/ Finish(ErrorReport("output failed"))
        \/ summary = NoSummary /\ Finish(ErrorReport("protocol missing"))
        \/ summary # NoSummary /\ Finish(CompletionReport(Summary(summary)))
     /\ UNCHANGED <<expected, lineSize, now, wakeAt, signalled, line, written,
                    plan, sent>>

TextParent ==
  \/ (SpawnWorker \/ TryWait \/ CheckElapsed \/ Wake \/ Kill \/ Reap)
       /\ UNCHANGED <<plan, sent>>
  \/ CollectText

TextNext ==
  \/ TextParent \/ RunsCase \/ WritesSymbol
  \/ (WorkerEnds \/ Clock) /\ UNCHANGED <<plan, sent>>

TextSpec ==
  /\ TextInit /\ [][TextNext]_textVars
  /\ WF_textVars(TextParent)
  /\ WF_textVars(Clock /\ UNCHANGED <<plan, sent>>)
  /\ WF_textVars(WorkerEnds /\ signalled /\ UNCHANGED <<plan, sent>>)

-----------------------------------------------------------------------------
\* Wherever the worker's line is cut, by a crash or by the full pipe, and
\* whatever tabs, line ends and backslashes its texts hold, the parent reads
\* from it what Supervisor lets it read: nothing, the worker's own code and
\* error, or that code with a part of the error.
ImplementsSupervisor == Spec

\* A line that is written whole is read back as it was meant, texts and all,
\* and it is one line.
LineReadBack ==
  sent = Len(Encode(plan)) =>
    /\ Parse(SubSeq(Encode(plan), 1, sent)) = plan
    /\ \A i \in 1 .. sent : Encode(plan)[i] = LF => i = sent
=============================================================================
