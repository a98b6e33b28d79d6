# A verification of the Wasmer hostile-guest harness

TLA+ modules, TLC configurations and TLAPS proofs about the Rust program in
this repository: a harness that runs hostile WebAssembly guests against
hardened host imports, under a policy, and reports every decision the host
took. Source files below are those of `src/` unless said otherwise.

- [The system](#the-system)
- [Modules, and how they correspond to the code](#modules-and-how-they-correspond-to-the-code)
- [Runs](#runs)
- [Where the code and its documents part](#where-the-code-and-its-documents-part)
- [Bounds](#bounds)
- [Fairness](#fairness)
- [Proofs](#proofs)
- [Not modelled](#not-modelled)
- [Plan](#plan)

To check a model: `tlc -workers 2 -config CaseRunner.cfg CaseRunner.tla`; to
check proofs: `tlapm CaseRunnerProofs.tla`. `PROJECT.json` lists the runs, the
definition-by-line map, the mutants (each a plausible bug, kept next to the
definition it mutates as an operator marked *Faulty*), hazards, findings and
theorems.

## The system

One process, `wasmer-sectest`, reads a command line, a policy and a corpus of
cases, runs each case some number of times, and prints a report; its exit code
says whether every case did what it was expected to do. A menu does the same
in a loop and keeps a history on disk. Cases marked for supervision run in a
second process of the same program.

| component | state it keeps | operations | interacts with |
|---|---|---|---|
| guest ABI checks, `abi.rs`, `memory.rs` | none | range check, packet parser, evidence of the gates passed and failed | called by the imports of the case runner with the memory's present size |
| case runner, `runner.rs`, `telemetry.rs` | `HostState`: memory, fuel, telemetry; the guest's memory | load, audit, instantiate, probe, run; the five imports | guest code calls the imports while it runs in `start`, `grow_only` or `run` |
| batch scheduler, `async_runner.rs` | the `JoinSet`, the reports joined so far | spawn, join, collate | one blocking thread for each case; `main.rs` turns its result into the exit code |
| supervisor and worker protocol, `supervisor.rs` | the child process, the elapsed time; a line of escaped fields | spawn, poll, kill, reap, collect; encode, escape, unescape, parse | the worker (`run_worker` in `main.rs`) over the pipe of its stdout |
| network honeypot, `wasi_sandbox.rs` | resolved hosts, event list, each behind a mutex; sockets | resolve, connect, and the socket's calls | guest threads share it through an `Arc` |
| file system honeypot, `wasi_sandbox.rs` | an in-memory file system, an event list | open, remove, rename, create; metadata and listings change nothing | the guest's WASI calls; the root file system is a library's |
| sample WASI guest, `guests/wasi_network_fetch.rs` | what it still has to send, what it has received | resolve, connect, send all, receive until complete | the network honeypot |
| session store, `session.rs` | report files and `index.tsv` | `record_run`, `list_recent` | every console started in the same directory |
| startup and menu, `main.rs`, `config.rs`, `policy.rs`, `corpus.rs` | the chosen policy and cases; the policy file and the corpus on disk | load, choose, start the runs, loop | workers, started with arguments rebuilt from the case, load and choose again |
| reports and terminal UI | none that outlives a call | formatting | finished reports |

What is hard here, and what must hold of it:

- **ABI checks.** 32-bit arithmetic at both ends of the address space; evidence
  that is reconstructed after the fact. *The host slices only what lies in the
  memory, refuses nothing that does, and the evidence is true.*
- **Case runner.** Guest code runs in three stages, one of them inside
  `Instance::new`, and may grow its memory between any two calls. *Nothing
  unaudited runs; each range is judged on the memory as it is; one fuel budget
  covers all stages; what is reported is what was decided; bytes the host wrote
  have an event that explains them.*
- **Scheduler.** Cases end in any order, panic, or are lost. *The result is that
  of running them in order; the pool is bounded; a failure is never hidden.*
- **Supervisor.** Parent, worker, pipe and clock run freely; the worker may hang,
  crash, or block on a pipe nobody reads, and its line may be cut anywhere, in
  the middle of an escape too. *A report always comes; no failure becomes a pass;
  no worker is left; a timeout is final; a whole line is read back as it was
  meant.*
- **Network honeypot.** Calls of several threads interleave between locks;
  both the map and the list evict. *Capture precedes the answer; the latest
  events are kept; blame goes to a host that was resolved; the reader
  whose handler is registered is woken (one whose handler another call displaced
  is not); a guest that asks for a page is intercepted at every stage, and gets its page.*
- **File system honeypot.** Decoys are found by text, the tree behind them is a
  library's with ideas of its own. *Whichever way a path is spelt, a decoy is
  answered from static bytes, never changed, and put on record.*
- **Session store.** Two files and an unlocked, unbuffered append, with crashes
  in between. *The history points only at reports that exist, and what a torn
  line costs is bounded.*
- **Startup.** A case crosses to its worker as a name and a list of arguments,
  and the worker reads files that may have changed. *The worker runs the module
  it was started for under the rules of its parent, and whatever changes, no
  module without a CPU budget hook runs where nobody allowed it.*

The hazards, each at its line with the properties that cover it, are in
`PROJECT.json`.

## Modules, and how they correspond to the code

**`GuestAbi`** — no state: `CheckedGuestRange`, `ParsePacket`, `RangeEvidence`,
`GuestBytes` and the three `...Outcome` operators are the functions of the same
names in `abi.rs`, `memory.rs` and the memory half of `runner.rs`, early return
by early return. Integers are unbounded but every place where the code adds in
`u32` compares with `U32Max`. A packet is what the parser asks of it: three
booleans and a declared length.

**`GuestAbiCheck`** — one request through those operators, for every request.

**`CaseRunner`** (on `GuestAbi`) — `run_case_inner`. `phase` is the place in
it: `load`, `audit`, `start` (inside `Instance::new`), `probe`, `lookup`, `run`,
`done`. Each `?` of the code is a way to `ErrorReport`. While the phase is one in
which guest code runs, the guest may grow its memory, store over bytes the host
wrote, and call the five imports; each import is one action, because a call is
synchronous and the store is exclusively borrowed. `hostByte` remembers which
byte of the marker the host put where; `made` is a history of every decision,
recorded or not.

**`CaseBatch`** — the abstract specification of a batch: every run of a case
settles once, then the reports come out together, in order.

**`AsyncRunner`** — `collect_reports_async` and the exit code. The caller spawns
until the pool is full, joins one, and drains at the end; tasks run, panic on
their thread or are lost on their own. `Batch == INSTANCE CaseBatch WITH
outcome <- outcome, delivered <- delivered` is the mapping of the refinement.

**`Supervisor`** — `run_case_supervised`, one action for each call that another
process can come between: `try_wait`, the look at the clock (`CheckElapsed`:
the match guard, evaluated after `try_wait` has answered), the sleep, `kill`,
and the two `wait_with_output`. The worker runs its case, writes its line in
units into a pipe of bounded size and ends at any point; the clock ticks. Of the
line this module knows only how much of it there is.

**`WorkerProtocol`** — no state: `Escape`, `Encode`, `Unescape`, `Split`,
`FirstLine` and `Parse` are `escape_field`, `encode_worker_report`,
`unescape_field`, `split('\t')`, the choice of the line and
`parse_worker_summary`, on sequences of symbols. A code and a number are a symbol
each: they hold nothing that is escaped. The loops are recursive functions of the
number of symbols read, one turn of each an operator (`EscapeChar`, `Read`,
`Cut`); `BeforeError` is the line up to the tab before its last field.

**`SupervisedWorker`** (on `Supervisor` and `WorkerProtocol`) — the same two
processes with the line as the text it is. `plan` is the report the worker's run
would give, `sent` how many symbols of its line are in the pipe; `CollectText`
parses just those. `Units` belongs to the mapping: it says which of
`Supervisor`'s units the symbols so far make, and
`ImplementsSupervisor` states that the text behaves as `Supervisor` says,
fairness included.

**`EventLog`** — `enforce_capacity` and the push after it, which both honeypots
use, and `Latest`, the part of a history such a list should hold.

**`NetworkHoneypot`** (on `EventLog`) — threads whose calls are cut at each
lock: `resolve` is three steps (two `remember_host`, one `record`),
`connect_tcp` two (look up the domain; record it), and preparing a response two
records and the flag. A socket's calls take `&mut self`, so one runs at a time
per socket. Bytes are counted. `log` is the history of every event, evicted or
not. Addresses are given to the model, and the MC module gives two hosts the
same IPv4 address, which `deterministic_honeypot_ips` does for hosts with hashes
200 apart. `Pollers` are the threads that use readiness, `Readers` the tasks that
may poll one socket. A socket has one `handler`: `PollRead`, `PollWrite` and
`ReplaceHandler` (`set_handler`, `remove_handler`) displace whichever is there.
`waiting` is a history of the readers that were answered `Pending` and that nobody
has told since; a displaced reader stays in it.

**`Interception`** — the abstract specification of one exchange: resolve,
connection, whole request and response go on record in this order, the guest has
its response only then, and does get it.

**`NetworkFetch`** (on `NetworkHoneypot`) — `run` of the sample guest, each of
whose calls is a call of the honeypot's, while the other threads call as they
like. `step` is the place in `run`, `Send` a round of `send_all`, `Receive` one
of `recv_http_response`. `Promise == INSTANCE Interception WITH ...` maps what
the log holds of the guest's own connection, a payload counting only when it is
the request as far as the honeypot keeps it, and what the guest has received.

**`HoneypotFs`** (on `EventLog`) — one action for each call of
`HoneypotFileSystem` that changes the tree or the list. `NormalizedPath` is the
code's walk over the components, `Deny` the denied mutation, the `Root...`
operators the library's file system: what it may do, or refuse for reasons of its
own. A call takes the lock of the list or that of the tree and never both, so
calls are atomic. `NormalizedPath` is the recursive function `Walk` over the
components of a path. The properties do not use the walk: `Denotes` says by
counting which names of a path survive its `..`, and in which order.

**`SessionStore`** — `record_run` cut at each system call, for several consoles;
`writeln!` on an unbuffered `File` makes one `write` for each piece of the
format string, so the index is a sequence of fields, tabs and newlines.
`Abandon` is a crash or a failing call: disk as it is, menu again. `Listed` is
`list_recent` on the index as it stands. A field is written whole or not at all.

**`CaseLaunch`** — `async_main`, the menu and `run_worker`, from a parsed command
line (`config`) to the verdict of the audit on each case. `phase` is the place
in `async_main` or the menu; `disk` is the policy file and the directories,
which `EditDisk` may change between any two steps. `LoadedPolicy`,
`LoadCorpus` (with `ManifestFits` and `LoadedCase`) and `ChooseCases` are the
functions of those names in the code. A run is one step in this process
(`RunInProcess`) or, in a worker, three: `SpawnWorker`, `WorkerLoadsPolicy` and
`WorkerRuns`, because the worker reads the policy file and later the corpus on
its own; `Args` is the argument list `run_case_supervised` builds. Of a policy
only `require_tick_import` is kept, of a module whether it imports
`host.tick`. `SupervisorGivesUp` stands for every failure and timeout of
`Supervisor`.

`MCSupervisedWorker`, `MCNetworkHoneypot`, `MCHoneypotSocket`, `MCNetworkFetch`,
`MCHoneypotFs`, `MCSessionStore` and `MCCaseLaunch` only give values to constants
and define symmetries.

## Runs

| run | module, configuration | shows |
|---|---|---|
| `abi` | `GuestAbiCheck` | `SliceInMemory`, `NoFalseRangeError`: the range check is sound and complete but for a range that ends at 2^32 itself; `BodyFillsSlice`: an accepted body ends where the accepted range ends; `EvidenceTrue`: gates shown as passed hold, for every alignment but an invalid one (where `max_len` is shown as passed before it was looked at) |
| `runner` | `CaseRunner` | over every module shape, every fate of the pipeline and every sequence of import calls the budget of calls allows: `NothingRunsUnvetted`, `JudgedOnPresentMemory`, `HostBytesExplained`, `VerdictMatchesGates`, the type invariant; `FuelAccounting` over the three stages together; `ReportAccountsForFuel`: the sampled, saturating tick telemetry still shows one denied tick for each tick beyond the fuel; `CompletedReportIsComplete`: the report of a guest that returned holds every decision owed, in order |
| `runner_trap` | `CaseRunner`, `CaseRunnerTrap.cfg` | violation of `EveryDecisionReported` |
| `batch` | `AsyncRunner` | `BatchSpec`: the scheduler implements `CaseBatch`; `BatchDelivered`; `PoolBounded`; `EveryTaskAccounted`; `ExitCodeHonest` |
| `supervisor` | `MCSupervisedWorker` | with the worker's line as text: `NoFalsePass`, `NoOrphan`, `TimeoutIsFinal`, `LineReadBack`; `ImplementsSupervisor`: cut at any symbol, the line means what `Supervisor` says it means; under fairness `AlwaysReports` |
| `honeypot_threads` | `MCNetworkHoneypot` | `KeepsLatestEvents`, `CapturedBeforeAnswered`, `KnownHostsKept` with two threads; `DomainWasResolved`: the host a connection is blamed on was by then remembered, by a resolve on record or under way, for the very address |
| `fetch` | `MCNetworkFetch` | `InterceptionSpec`: the sample guest's exchange implements `Interception`, its liveness included, while another guest uses the same honeypot; `CaptureIsPrefix` for every order of the other guest's calls; `NoLostWakeup` with two readers on that guest's socket: no reader whose handler is registered sleeps on a ready or closed socket, so one that does was displaced |
| `honeypot_capture` | `MCHoneypotSocket`, `MCHoneypotCapture.cfg` | violation of `RequestCaptured` |
| `fs` | `MCHoneypotFs` | `DecoyTouchesRecorded`: every spelling of a decoy's path is caught, denied or answered, and recorded, and nothing else is; `OnlyWaysToDecoyPaths`: a node comes to a decoy's path only by `create_dir` or by renaming a directory above it |
| `sessions` | `MCSessionStore` | `ListedRunReadable`, `LossBounded`, `EntriesOfOneRun` with two consoles and crashes |
| `launch` | `MCCaseLaunch` | `SameCaseSameRules`: without edits, a worker runs the module of its case and lets it run exactly when this process would; `UnmeteredOnlyAllowed`: even with edits, a module without a tick executes only if allowed; `ManifestHonoured`: a corpus is loaded whole, in the order of the paths, each manifest entry applied, or not at all |
| `launch_menu` | `MCCaseLaunch`, `MCLaunchMenu.cfg` | violation of `SupervisedCasesRun` |

Every property of a passing run has a mutant that breaks it. `CHECK_DEADLOCK
FALSE` is in every configuration but that of `fs` because every other system
stops: a case ends with its report, a batch with the exit code, a supervisor with
its report, a guest when it makes no more calls, a console when it is left. A
guest can always make one more call of the file system, so there deadlock is
checked.

## Where the code and its documents part

- **A trap drops the telemetry** (`runner.rs:332`): `error_report` starts from
  `Telemetry::default()`, so decisions taken before a trap are in no output,
  although the repository's README says every guest-host decision is recorded.
- **The request body is not captured** (`wasi_sandbox.rs:316`, `:421`): the
  payload is logged once, when the headers are complete; a body sent in a later
  call is in no event.
- **The menu's supervised cases may not run** (`main.rs:491`, `:160`,
  `supervisor.rs:64`): the worker is told the corpus of the command line and not
  the one the case came from. With `--menu --isolate process` the external
  corpus example, and with `--menu --corpus DIR` the built-in cases (the
  supervisor timeout proof among them), are looked up in the wrong place; the
  worker exits with 2 and the report is a supervisor error. `SameCaseSameRules`
  therefore speaks of the cases of the command line's directory only.

Some behaviours a reader may not expect, without a violating run of their own.
The clock is read after `try_wait` (`supervisor.rs:99`), so a worker that ends
in time between the two is reported as having exceeded the timeout
(`supervisor.rs:238`); and one that ends after the timeout but before the next
poll is accepted. `create_dir` asks for no decoy (`wasi_sandbox.rs:616`): a
directory made at a decoy's path is there in the tree, but every later call that
names it is answered as the decoy's, so it can be neither used nor removed by
that path; `OnlyWaysToDecoyPaths` says how it can still come and go. An index
line torn by a crash (`session.rs:79`) takes the next run's line with it: the
two are glued and parsed as neither, which is why `LossBounded` allows one lost
run for each torn line. A socket keeps one handler (`wasi_sandbox.rs:398`): a
second poll, `poll_write_ready` by another task, `set_handler` or
`remove_handler` displaces a waiting reader's waker, and that reader is never
told; `NoLostWakeup` promises nothing to it and says that nobody else sleeps on.
A corpus whose names repeat, or begin with `--`, has
cases no worker can be asked for; `NameFindsIt` states what the code asks of a
corpus.

## Bounds

Every bound that is the model's own is commented *bound of the model* where its
constant is declared. The others are the code's constants at small values.

- `abi`: 12 byte addresses with a header of 2 bytes. Everything the range check
  compares (0, alignment, memory size, `u32::MAX`) is within reach of every
  pointer and length, and all are enumerated.
- `runner`: `PageBytes = 4`, growth to 2 pages, pointers at 0, inside the second
  page and at `u32::MAX`; fuel 3, saturation at 4, `TickHead = 1`,
  `TickStride = 3`. A guest has a budget of 6 (`MaxCalls`), of which a tick takes
  one and any other import three (`TicksPerCall`): so all sequences of two
  import calls occur, enough for one to change what the next sees, with growth or
  a store in between; six ticks, which pass the fuel, skip and sample granted
  ticks and saturate the counter; and three ticks on either side of a call.
- `batch`: five cases, pool of two, two tasks that may be lost: the pool fills
  several times and join errors can surround ordinary reports.
- `supervisor`: timeout 3, poll 2, so that a poll falls on either side of it. The
  texts hold each symbol that is escaped, next to the ends and to each other; a
  pipe of 14 symbols takes the shorter lines whole and stops the longer ones,
  and a worker that ends cuts its line at any symbol, in the last field and in an
  escape too. The clock saturates at 5, where the timeout is long past.
- `honeypot_threads`: capacities of 2, four events: both evictions happen while
  another thread is between its locks. No thread polls there; a socket's waker is
  its own affair, and `fetch` covers it. Four events leave room for one more
  than a whole exchange takes, so a second answer would be seen.
- `fetch`: capture limit 2 and 3 bytes sent by the other guest, so a send may
  straddle the limit; a request of 2 bytes, a response of 2 read one at a time, so
  both take several rounds. Two readers on the other guest's socket: as many as it
  takes for one to displace the other. Seven events, of which `Needed` reserves those the
  guest's own exchange takes: without it the bound on the log, which the code does
  not have, would stop the guest.
- `honeypot_capture`: one thread, a capture limit of 2 and 3 bytes sent.
- `fs`: two decoys, one whose directory is there from the start and one whose
  directories a guest has to make; twelve paths: both decoys plain, with `.`, with
  `..` inside, at the root and past it, something above and something below a
  decoy. Depth 3 and 5 nodes let a directory move onto a decoy's parent. `VIEW`
  leaves out the latest answer, on which no call depends; action properties are
  still checked on every step TLC generates.
- `sessions`: two fields (one must parse as a number, and the path), three runs,
  two consoles: a torn line, the line it spoils and one after it.
- `launch`: two built-in cases (one a static fixture), and one directory with nine
  contents: good ones with no, partial and full manifests, with names that clash
  with a built-in case or look like an option, and one for each reason to refuse
  a corpus. One edit is enough to put any change between any two reads. Every
  combination of the six settings of a command line that are kept is an initial
  state.

## Fairness

- `AsyncRunner`: weak fairness of the caller (a task of the runtime that is
  woken when it can go on), of each panicked thread's error being reported and
  of each running case ending. The last is justified for supervised cases, which
  end by `AlwaysReports`; for a case run in process it is an assumption, because
  fuel is cooperative and the code does nothing to stop a guest that spins.
- `Supervisor`, and `SupervisedWorker` with the same three conditions: weak
  fairness of the parent's thread, of the clock, and of a signalled process
  ending. Nothing is assumed of the worker.
- `NetworkFetch`: weak fairness of the sample guest's thread, which the scheduler
  runs and which never waits for another guest. `Interception` states that of the
  exchange, and the refinement shows it.
- The other specifications state no fairness and no liveness property.

## Proofs

All theorems are for every value of the constants under the assumptions the
modules name. These say of numbers that they are naturals, and not 0 where the
code divides by one or needs room for one (`AbiAssumption`, `CheckAssumption`,
`RunnerAssumption`, `SupervisorAssumption`, `AsyncAssumption`,
`EventCapAssumption`), and beyond that:

- `HoneypotAssumption`: its capacities are not 0, hosts are finitely many and `NoHost` is none of them.
- `FetchAssumption`: the sample guest does not use readiness, its host resolves to
  an address a peer answers at, and the request it sends is not empty.
- `FsAssumption`: `/`, `.` and `..` are not names, and the directories there from
  the start form a tree without decoys in it.
- `SessionAssumption`: an index line has two fields or more, and one of them has
  to parse as a number (the time and the path of `session.rs`).
- `LaunchAssumption`: a built-in case comes from no directory, one of them is the
  supervisor's proof, a directory holds finitely many files in the order of their
  paths, and files, manifest entries and built-in cases have names.
- `TextAssumption`: details and host errors are sequences of symbols, of any
  symbols, and a host error is not empty.

The modules, and the argument each proof follows:

- **`GuestAbiProofs`** — first what the operators return: `RangeSound` (an accepted
  range lies in the memory), `RangeRefusal` (what each refusal means) and
  `RangeGatesOfOutcome` (which gates each outcome shows). `JudgedInvariant` (a request is
  pending, or its answer is what `PacketOutcome` says) then gives the four
  properties of run `abi`.
- **`CaseRunnerProofs`** — the lemmas about outcomes (`GuestBytesSound`,
  `JudgeSound`: a verdict agrees with its gates, and an accepted one with the
  memory), then the type invariant. `NothingRunsUnvetted` is not inductive: it
  needs `BeforeRun`, that before the audit has let a case through nothing exists
  or is decided, and that afterwards the audit's facts about the (constant) guest
  hold. `FuelAccounting` needs `FuelInv`, which adds that a denied tick means an
  empty budget, so that none is granted after it; the cardinalities are handled by
  `TickDecisionsAppend`. `VerdictMatchesGates` and `JudgedOnPresentMemory` rest on
  `HostCallEvent`: each import appends one sound event. `HostBytesExplained` needs
  `HostBytes`, which keeps the explaining event while events are only ever
  appended, and the memory's size while it only grows. `CompletedReportIsComplete`
  needs `ShownInv`: at every moment the telemetry is the decisions owed so far, so
  the last step has nothing to add. `ReportAccountsForFuel` needs `TicksInv`: the
  saturating counter is the number of ticks until it saturates, and each tick
  beyond the fuel is among the events kept, however the granted ones are sampled.
- **`AsyncRunnerProofs`** — `Inv == TypeOK /\ TaskInv /\ PoolInv /\ ReportsInv /\
  DeliveredInv`: what a task's state says of its outcome; how many tasks are in
  flight at each place of the caller; that each joined task has one report, the
  one of its run; that what is delivered is those reports, sorted. `RankBijective` and `CollateInOrder` say what the stable sort does to any
  sequence of reports. `RefinesCaseBatch` is the whole refinement, since
  `CaseBatch` states no fairness.
- **`SupervisorProofs`** — types, then `Inv == WorkerLife /\ ReportTold /\
  DetailTold`: where in its life the worker is at each place of the parent's
  loop (signalled only past the deadline; gone when the parent collects or has
  reaped), and what each kind of report says of the line as it was when the
  report was made. `NoFalsePass`, `NoOrphan` and `TimeoutIsFinal` follow, from
  `SafetySpec`, which is `Spec` without its fairness.

  The rest carries them to the text, for all details and host errors. `Escape`,
  `Unescape` and `Split` are each shown to be the end of a loop that takes one
  symbol at a time (`LoopExists`, `EndsOfLoops`, `OneMore`), and `TextInduction`
  says which sets hold every text. From these: `EscapedText`, what is escaped has
  no tab and no line end in it and is unescaped to what it was; `FieldAfter`, a
  tab and a text without one add just that field to a line; `FewerFields`, a part
  of a line has no more fields than the line. `HeadFields` puts the six fields
  before the host error in their places, and `CutLine` says what is parsed from
  any part of a line: nothing short of the last tab, then the worker's own code,
  with an error only if the worker had one, and from the whole line the report.
  `TextInv` says that the pipe holds a part of the planned line, that the units
  of `Supervisor` count it, and that nothing is written before the line is known.
  Under it each step of `TextNext` is a step of `Supervisor` or none of its state
  (`TextStep`; the host error is one unit, so its symbols but the last are
  stutters), which is `TextIsSupervised`, and `NoFalsePass`, `NoOrphan`,
  `TimeoutIsFinal` and `LineReadBack` hold of `TextSpec`, the specification the
  run checks.
- **`NetworkHoneypotProofs`** — first the honeypot. `Inv` says of each thread what
  its socket must be like at the place its call has reached (`StageOK`: which of
  the two records is made), that the buffer is the sent bytes up to the limit
  (`BufferOK`), and that the events its flags speak of are in the log
  (`LoggedOK`). `LocalStep` then lets a step look at its own thread only: what
  another thread relies on is that the log grows at its end (`LoggedGrows`).
  `RecordedLatest` is the fact about sequences behind `KeepsLatestEvents`.
  `KnownHostsKept` adds the map's size (`Fits`) and is proved as an action
  property. `Effect` sums up what a step of one thread does to the log and to the
  connections: from it no two connections share a number (`ConnsOK`) and none of
  their events is in the log twice (`OnceOK`), which `CapturedBeforeAnswered`
  needs. `DomainWasResolved` rests on `BlameOK`: what is in the map, or what a
  thread has read there and may have been evicted since, is `Remembered`, and that
  stays true because a resolve under way goes on with what it has remembered or
  gets on record (`ResolvesGoOn`). `NoLostWakeup` is a part of `BufferOK`: a
  handler is told whenever the socket becomes ready or closed, and a reader that
  polls after that is answered at once.
  Then the sample guest on it. `FetchesAreCalls`: every behaviour of
  `NetworkFetch` is one of `NetworkHoneypot`, so that what is proved of the
  honeypot holds of the run `fetch`. `FetchInv` adds `ConnsOK`, where the guest is before it is connected (`OnTheWay`) and
  after (`OnTheLine`: what it has sent and received is what the socket has
  counted, and the payload on record is its whole request), and that the log holds
  of its connection what its socket's flags say and nothing else (`OwnEventsOK`).
  `StagesOK` turns the log
  into the stages of `Interception`, and `ExchangeStep` shows that a step moves
  them by one at most, in order: `ExchangeIntercepted`.
- **`SessionStoreProofs`** — `Inv` says where each console is (`ConsoleInv`), that
  a piece of the index is of a run that has come that far (`IndexInv`), that a run
  which has come to the index has its report in a file, unless another run has the
  same file name (`FileInv`), and that two runs meet on a line only after one of
  them was torn or overlaid (`MixInv`). `LossBounded` needs the most: `LineInv`
  says that a line that was not overlaid is in one piece, and `SpoilInv` that a
  torn line spoils at most one other, because the remnant it leaves (`Remnant`) is
  used up by the next line.
- **`HoneypotFsProofs`** — the loop first. After n components the walk holds the
  names of the first n that no later `..` has taken back (`Kept`), in their order;
  `Balanced` counts, behind each of those, the `..` against the names; a least
  number of components at which the two would part gives the contradiction. So `NormalizedPath` is what `Denotes`
  says, for every path. Then the root file system stays a tree (`Tree`: each node
  has its directory), and each call is either answered by the honeypot and
  recorded or passed on and not recorded (`Answered`, `PassedOn`), from which
  `DecoyTouchesRecorded` and `OnlyWaysToDecoyPaths` follow.
- **`CaseLaunchProofs`** — three theorems for every corpus, command line and number
  of edits. `UnmeteredOnlyAllowed` is not inductive: the permission has to be
  followed from where it is read to the run that uses it, so `Inv` says that a
  policy in use that lacks the rule was allowed to (`PolicyAllowed`), and the same
  of the policy a worker has loaded (`JobPermitted`). `held`, the history of the
  policy file, is what makes an edit unable to take a permission back.
  `SameCaseSameRules` needs `Tied`: while nobody has edited the files, the rules in
  force are those of the files and the command line (`RulesInForce`), each case of
  the batch is still where it was loaded from (`Origin`), and a worker follows its
  parent at each of its steps (`Follows`, `Obeys`). `ManifestHonoured` is about
  `LoadCorpus`, file by file in the order of their ranks.

Where an argument goes by induction on a number (the components of a path) or asks
for the first of some (the cases of a name) it is made by the least counterexample, with
the well-foundedness of `<` on the naturals: the induction theorems of the library
take an operator as a parameter, which none of the provers used here can
instantiate. Over texts, induction is stated for a set instead of an operator
(`NumberInduction`, `TextInduction`), which they can, and proved in the same way.

Only model-checked is liveness, because the prover handles neither fairness nor
ENABLED: `BatchDelivered`, `AlwaysReports`, and the fairness of `Interception` and
of `Supervisor` under the two refinements. The steps of both refinements are
proved, and so is every invariant the passing runs check.

## Not modelled

- Texts other than the worker's line, times, pids, report formats, the terminal
  UI, ANSI colours: formatting of finished values.
- The syntax of the command line, the policy file and `corpus.toml`, character by
  character: sequential parsers with unit tests of their own. What they accept
  and refuse, as far as a run depends on it, is in `CaseLaunch`.
  `Policy::is_path_allowed` is modelled as what it does, equality with a whole
  allowed string.
- `--emit-wasm-dir`, profiles, and the menu's pickers, help, history and charts:
  they select or show, and change nothing a run depends on.
- The built-in guests one by one: the model's guest does anything a guest can do
  with the imports and its memory, so each of them is one of its behaviours.
- `listen_tcp`, `bind_udp` and the like: they refuse and change nothing. Local
  ports, TTL and buffer sizes: stored or returned, never decided on.
- The root file system behind the decoys is a library's (external), and so is
  `mount`, which the WASI runtime calls and a guest cannot. `metadata`, `read_dir`
  and `readlink` change nothing and record nothing.
- `usize` overflow (64 bits on the supported hosts) and the two `MemoryRead`
  errors, which cannot happen once the range check has passed.
- The worker's exit status: `supervised_completion_report` does not look at it.
- `optimizer.rs`, `math.rs`: not used by the harness at run time.

## Plan

The modules were written in the order of importance: the ABI checks the rest
relies on, the runner, the scheduler with its abstract specification, the
supervisor, the honeypot, the session store, the startup that decides what all of
them are given; then the file system honeypot, the worker's line with the
composition of both sides of the pipe, and the sample guest on the honeypot. What
is left:

- a composition of `Supervisor` with the runner's outcomes, with the gates of the
  supervisor's reports.
