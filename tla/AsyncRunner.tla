---------------------------- MODULE AsyncRunner -----------------------------
(***************************************************************************)
(* async_runner.rs: collect_reports_async runs the cases of a batch as     *)
(* tasks of a JoinSet, at most MaxInFlight at a time, each handing its     *)
(* case to a blocking thread; then main.rs turns the reports into the exit *)
(* code.  Tasks finish in any order, a case may panic on its thread, and   *)
(* the JoinSet may hand back a JoinError in place of a task's result.      *)
(***************************************************************************)
EXTENDS Integers, Sequences, FiniteSets

CONSTANTS Cases,            \* cases.len()
          Repeat,           \* config.repeat
          Parallelism,      \* std::thread::available_parallelism, 0 if it is an error
          MaxInFlightCases, \* MAX_IN_FLIGHT_CASES: 64
          Losable           \* tasks that may end in a JoinError

Total == Repeat * Cases
Tasks == 1 .. Total

ASSUME AsyncAssumption ==
  /\ {Cases, Repeat, Parallelism} \subseteq Nat
  /\ MaxInFlightCases \in Nat \ {0}
  /\ Losable \subseteq Tasks

VARIABLES
  pc,        \* where async_main is: "spawn", "join", "drain", "emit", "exit"
  spawned,   \* tasks spawned so far: the index of the next one
  task,      \* task -> "none", "running", "panicked", "finished" or "joined"
  outcome,   \* task -> "pending", or what its run came to
  reports,   \* the (index, report) pairs joined so far
  delivered, \* what collect_reports_async returned, or NotYet
  exitCode   \* the process's exit code, or -1

vars == <<pc, spawned, task, outcome, reports, delivered, exitCode>>

Batch == INSTANCE CaseBatch WITH outcome <- outcome, delivered <- delivered
NotYet == Batch!NotYet

\* The key of a join error: usize::MAX, after every index.
LastIndex == Total + 1

\* max_in_flight_cases
MaxInFlight ==
  CASE Parallelism = 0 -> 1
    [] 2 * Parallelism \in 1 .. MaxInFlightCases -> 2 * Parallelism
    [] 2 * Parallelism > MaxInFlightCases -> MaxInFlightCases

\* tasks.len(): spawned and not joined yet, finished or not.
InFlight == {i \in Tasks : task[i] \in {"running", "panicked", "finished"}}

Init ==
  /\ pc = "spawn"
  /\ spawned = 0
  /\ task = [i \in Tasks |-> "none"]
  /\ outcome = [i \in Tasks |-> "pending"]
  /\ reports = <<>>
  /\ delivered = NotYet
  /\ exitCode = -1

-----------------------------------------------------------------------------
(* The caller. *)

\* Faulty: the bound is tested with > instead of >=.
PoolFull_Late(n) == n > MaxInFlight

PoolFull(n) == n >= MaxInFlight

Spawn ==
  /\ pc = "spawn" /\ spawned < Total
  /\ spawned' = spawned + 1
  /\ task' = [task EXCEPT ![spawned + 1] = "running"]
  /\ pc' = IF PoolFull(Cardinality(InFlight) + 1) THEN "join" ELSE "spawn"
  /\ UNCHANGED <<outcome, reports, delivered, exitCode>>

AllSpawned ==
  /\ pc = "spawn" /\ spawned = Total
  /\ pc' = "drain"
  /\ UNCHANGED <<spawned, task, outcome, reports, delivered, exitCode>>

\* Faulty: a join error is dropped instead of reported.
PushJoined_DropErrors(i) ==
  IF outcome[i] = "lost" THEN reports ELSE Append(reports, <<i, outcome[i]>>)

\* push_joined_report with join_error_report
PushJoined(i) ==
  Append(reports, IF outcome[i] = "lost" THEN <<LastIndex, "lost">>
                                         ELSE <<i, outcome[i]>>)

\* Faulty: a task whose case panicked never becomes ready to join.
Joinable_NotPanicked(i) == task[i] = "finished" /\ outcome[i] # "panicked"

Joinable(i) == task[i] = "finished"

\* join_next returns one of the finished tasks; the caller waits for one both
\* when the pool is full and when it drains the pool at the end.
JoinNext(i) ==
  /\ pc \in {"join", "drain"}
  /\ Joinable(i)
  /\ task' = [task EXCEPT ![i] = "joined"]
  /\ reports' = PushJoined(i)
  /\ pc' = IF pc = "join" THEN "spawn" ELSE "drain"
  /\ UNCHANGED <<spawned, outcome, delivered, exitCode>>

\* Faulty: the reports are left in the order they were joined.
Collate_Unsorted(rs) == [k \in DOMAIN rs |-> rs[k][2]]

\* sort_by_key on the index, which is stable: pair a comes before pair b.
Before(rs, a, b) == rs[a][1] < rs[b][1] \/ (rs[a][1] = rs[b][1] /\ a < b)

\* Where the sort puts pair a.
Rank(rs, a) == 1 + Cardinality({b \in DOMAIN rs : Before(rs, b, a)})

\* The sorted reports, the index dropped.
Collate(rs) ==
  [k \in DOMAIN rs |-> rs[CHOOSE a \in DOMAIN rs : Rank(rs, a) = k][2]]

\* The drain loop ends and collect_reports_async returns.
ReturnReports ==
  /\ pc = "drain" /\ InFlight = {}
  /\ delivered' = Collate(reports)
  /\ pc' = "emit"
  /\ UNCHANGED <<spawned, task, outcome, reports, exitCode>>

\* Faulty: only a report that failed its expectation counts, not an error.
Bad_FailedOnly(result) == result = "failed"

\* !report.passed(): the reports made for a panic and for a lost task carry a
\* host_error.
Bad(result) == result # "passed"

\* emit_report, which exits with 1 itself when it cannot write; then the exit
\* code says whether every report passed.
Emit ==
  /\ pc = "emit"
  /\ pc' = "exit"
  /\ \/ exitCode' = 1
     \/ exitCode' = IF \E k \in DOMAIN delivered : Bad(delivered[k]) THEN 1 ELSE 0
  /\ UNCHANGED <<spawned, task, outcome, reports, delivered>>

-----------------------------------------------------------------------------
(* The tasks. *)

\* run_case_task_blocking returns a report, which passed() or did not.
CaseReports(i) ==
  /\ task[i] = "running"
  /\ task' = [task EXCEPT ![i] = "finished"]
  /\ \E result \in {"passed", "failed"} :
       outcome' = [outcome EXCEPT ![i] = result]
  /\ UNCHANGED <<pc, spawned, reports, delivered, exitCode>>

\* The blocking thread panics: its JoinHandle yields an error.
CasePanics(i) ==
  /\ task[i] = "running"
  /\ task' = [task EXCEPT ![i] = "panicked"]
  /\ UNCHANGED <<pc, spawned, outcome, reports, delivered, exitCode>>

\* async_worker_error_report, under the index of the task.
ReportPanic(i) ==
  /\ task[i] = "panicked"
  /\ task' = [task EXCEPT ![i] = "finished"]
  /\ outcome' = [outcome EXCEPT ![i] = "panicked"]
  /\ UNCHANGED <<pc, spawned, reports, delivered, exitCode>>

\* The task itself fails: the JoinSet will hand back a JoinError for it.
TaskLost(i) ==
  /\ task[i] = "running" /\ i \in Losable
  /\ task' = [task EXCEPT ![i] = "finished"]
  /\ outcome' = [outcome EXCEPT ![i] = "lost"]
  /\ UNCHANGED <<pc, spawned, reports, delivered, exitCode>>

Caller ==
  \/ Spawn \/ AllSpawned \/ ReturnReports \/ Emit
  \/ \E i \in Tasks : JoinNext(i)

CaseEnds(i) == CaseReports(i) \/ CasePanics(i) \/ TaskLost(i)

Next ==
  \/ Caller
  \/ \E i \in Tasks : CaseEnds(i) \/ ReportPanic(i)

\* The caller is a task of its own and runs whenever it can; a case's thread
\* ends, because a supervised case is killed at its timeout and a case run in
\* process is assumed to stop.
Fairness ==
  /\ WF_vars(Caller)
  /\ \A i \in Tasks : WF_vars(CaseEnds(i)) /\ WF_vars(ReportPanic(i))

Spec == Init /\ [][Next]_vars /\ Fairness

-----------------------------------------------------------------------------
TypeOK ==
  /\ pc \in {"spawn", "join", "drain", "emit", "exit"}
  /\ spawned \in 0 .. Total
  /\ task \in [Tasks -> {"none", "running", "panicked", "finished", "joined"}]
  /\ outcome \in [Tasks -> Batch!Outcomes \cup {"pending"}]
  /\ reports \in Seq((1 .. LastIndex) \X Batch!Outcomes)
  /\ exitCode \in {-1, 0, 1}

\* No more cases are in flight than the pool allows, counting those that have
\* finished and wait to be joined; and the caller blocks in join_next only
\* while there is a task to join, so it never waits for nothing.
PoolBounded ==
  /\ Cardinality(InFlight) <= MaxInFlight
  /\ pc = "join" => InFlight # {}

\* Nothing is lost or reported twice on the way: the tasks joined are as many
\* as the reports held, and every spawned task is in flight or joined.
EveryTaskAccounted ==
  /\ Len(reports) = Cardinality({i \in Tasks : task[i] = "joined"})
  /\ \A i \in Tasks : task[i] = "none" <=> i > spawned
  /\ pc \in {"emit", "exit"} => Len(reports) = Total

\* The process exits with 0 only if every run of every case passed: no order
\* of panics and join errors hides a failure.
ExitCodeHonest ==
  exitCode = 0 => \A i \in Tasks : outcome[i] = "passed"

\* The scheduler implements CaseBatch: out-of-order completion is not visible
\* in what it returns.
BatchSpec == Batch!Spec

\* Every batch is delivered, whatever panics.
BatchDelivered == Batch!Delivers
=============================================================================
