----------------------------- MODULE CaseRunner -----------------------------
(***************************************************************************)
(* runner.rs: one guest case from its Wasm bytes to its CaseReport, in one *)
(* process.  run_case_inner is a pipeline (load and compile, audit,        *)
(* instantiate, bind the memory, growth probe, run); in three of its       *)
(* stages guest code runs and may grow its memory, store into it and call  *)
(* the five host imports in any order: the module's start function inside  *)
(* Instance::new, the probe's grow_only, and run.  telemetry.rs is the     *)
(* events and ticks_seen of HostState.                                     *)
(*                                                                         *)
(* A report takes what was measured; times, names and texts are left out.  *)
(* made is a history variable: every decision an import took, in order.    *)
(***************************************************************************)
EXTENDS GuestAbi, Sequences, FiniteSets

CONSTANTS
  PageBytes,        \* bytes in a Wasm page
  GrowLimit,        \* bound of the model: pages the engine lets a memory have
  MaxMemoryPages,   \* policy.max_memory_pages
  RequireTick,      \* policy.require_tick_import
  InitialFuel,      \* policy.initial_fuel
  MaxPacketLen,     \* policy.max_packet_len
  MaxCapLen,        \* policy.max_cap_string_len
  MaxAlloc,         \* policy.max_alloc
  TickHead,         \* should_record_tick: the first ticks, all recorded (5)
  TickStride,       \* and every so-many-th after them (64)
  TickMax,          \* u32::MAX, where ticks_seen saturates
  Ptrs, Lens, Aligns, BodyLens, \* arguments the guest passes
  MaxCalls,         \* bound of the model: ticks in one case, of which any
  TicksPerCall      \* other import call takes the place of so many

ASSUME RunnerAssumption ==
  /\ {PageBytes, TickStride, TickMax} \subseteq Nat \ {0}
  /\ {GrowLimit, MaxMemoryPages, InitialFuel, MaxPacketLen, MaxCapLen,
      MaxAlloc, TickHead, MaxCalls, TicksPerCall} \subseteq Nat
  /\ InitialFuel <= TickMax  \* both are u32
  /\ Ptrs \subseteq U32 /\ Lens \subseteq U32 /\ BodyLens \subseteq U32
  /\ Aligns \subseteq Nat
  /\ RequireTick \in BOOLEAN

VARIABLES
  guest,       \* the case and what its module declares: never changes
  phase,       \* where run_case_inner is
  pages,       \* present size of the guest's memory
  hostByte,    \* address -> which marker byte the host wrote there last, or 0
  memoryBound, \* HostState.memory is Some
  fuel,        \* HostState.fuel_remaining
  ticksSeen,   \* HostState.telemetry.ticks_seen
  events,      \* HostState.telemetry.events
  before,      \* memory_before, in pages
  report,      \* the CaseReport, or NoReport
  made         \* history: every decision of an import, recorded or not

hostState == <<memoryBound, fuel, ticksSeen, events>>
vars == <<guest, phase, pages, hostByte, hostState, before, report, made>>

None == -1
NoReport == [actual |-> "pending", hostError |-> FALSE, events |-> <<>>,
             ticks |-> 0, before |-> 0, after |-> 0]

Addresses == 0 .. GrowLimit * PageBytes - 1

\* GuestCase and the module: its kind, where its memory is and how large that
\* starts, and whether it imports host.tick.
Guests ==
  [kind: {"run_export", "growth_probe", "static_audit", "forced_static"},
   memory: {"exported", "hidden", "imported"}, minPages: 0 .. GrowLimit,
   importsTick: BOOLEAN]

Event(import, ptr, len, memorySize, outcome) ==
  [import |-> import, ptr |-> ptr, len |-> len, memorySize |-> memorySize,
   code |-> Code(outcome.err), evidence |-> outcome.evidence]

Init ==
  /\ guest \in Guests
  /\ phase = "load"
  /\ pages = 0
  /\ hostByte = [a \in Addresses |-> 0]
  /\ memoryBound = FALSE
  /\ fuel = 0
  /\ ticksSeen = 0
  /\ events = <<>>
  /\ before = 0
  /\ report = NoReport
  /\ made = <<>>

-----------------------------------------------------------------------------
(* The ends of a case. *)

\* error_report: whatever happened before, the report holds the default
\* telemetry and the default snapshots.
ErrorReport ==
  /\ phase' = "done"
  /\ report' = [actual |-> "none", hostError |-> TRUE, events |-> <<>>,
                ticks |-> 0, before |-> 0, after |-> 0]
  /\ UNCHANGED <<guest, pages, hostByte, hostState, before, made>>

\* audit_denial_report: one synthetic event and nothing measured.
AuditDenialReport(code, evidence) ==
  /\ phase' = "done"
  /\ report' =
       [actual |-> code, hostError |-> FALSE, ticks |-> 0, before |-> 0,
        after |-> 0,
        events |-> <<[import |-> "host.audit.module", ptr |-> None, len |-> None,
                      memorySize |-> None, code |-> code,
                      evidence |-> evidence]>>]
  /\ UNCHANGED <<guest, pages, hostByte, hostState, before, made>>

-----------------------------------------------------------------------------
(* The pipeline. *)

\* The module's bytes are read and compiled, or the case ends in an error.
Load ==
  /\ phase = "load"
  /\ \/ ErrorReport
     \/ /\ phase' = "audit"
        /\ UNCHANGED <<guest, pages, hostByte, hostState, before, report, made>>

\* A static fixture, unless the caller executes static fixtures (the worker of
\* a supervised run does): that one is of kind "forced_static".
StaticFixture == guest.kind = "static_audit"

\* Faulty: audit_module not looking at exported memories.
TooManyPages_ImportedOnly ==
  guest.memory = "imported" /\ guest.minPages > MaxMemoryPages

\* audit_module's first two loops: a memory neither imported nor exported is
\* not looked at, and only the minimum is, not the size it may grow to.
TooManyPages ==
  guest.memory \in {"imported", "exported"} /\ guest.minPages > MaxMemoryPages

Unmetered == RequireTick /\ ~guest.importsTick

\* The static fixture is denied unexecuted whatever its imports; then
\* audit_module denies on memory before it looks for host.tick.
AuditDenies ==
  /\ phase = "audit"
  /\ \/ /\ StaticFixture
        /\ AuditDenialReport("ERR_TIMEOUT",
             [passed |-> {"module.memory_min_pages", "runner.no_execute"},
              failed |-> "module.tick_import"])
     \/ /\ ~StaticFixture /\ TooManyPages
        /\ AuditDenialReport("ERR_TOO_LARGE",
             [passed |-> {}, failed |-> "module.memory_min_pages"])
     \/ /\ ~StaticFixture /\ ~TooManyPages /\ Unmetered
        /\ AuditDenialReport("ERR_BUDGET",
             [passed |-> {"module.memory_min_pages"},
              failed |-> "module.tick_import"])

\* HostState::new, then Instance::new begins: memories exist at their minimum
\* and the start function, if there is one, is about to run.
Instantiate ==
  /\ phase = "audit"
  /\ ~StaticFixture /\ ~TooManyPages /\ ~Unmetered
  /\ phase' = "start"
  /\ pages' = guest.minPages
  /\ memoryBound' = FALSE
  /\ fuel' = InitialFuel
  /\ ticksSeen' = 0
  /\ events' = <<>>
  /\ UNCHANGED <<guest, hostByte, before, report, made>>

\* A link error (an imported memory is never provided) or a trap in start.
InstantiateFails == phase = "start" /\ ErrorReport

\* Instance::new returns; the memory is looked up by its name, "memory",
\* handed to the imports, and measured.  A memory may be exported under
\* another name.
BindMemory ==
  /\ phase = "start" /\ guest.memory # "imported"
  /\ \/ ErrorReport
     \/ /\ guest.memory = "exported"
        /\ memoryBound' = TRUE
        /\ before' = pages
        /\ phase' = IF guest.kind = "growth_probe" THEN "probe" ELSE "lookup"
        /\ UNCHANGED <<guest, pages, hostByte, fuel, ticksSeen, events, report,
                       made>>

\* run_growth_probe returns, with grow_only's answer or without (no such
\* export, or it trapped); either way the case goes on.
FinishProbe ==
  /\ phase = "probe"
  /\ \E code \in {"OK", "ERR_INTERNAL"} :
       events' = Append(events,
         [import |-> "host.runner.grow_probe", ptr |-> None, len |-> None,
          memorySize |-> pages * PageBytes, code |-> code,
          evidence |-> [passed |-> {"drop_stale_view", "reacquire_view"},
                        failed |-> "none"]])
  /\ phase' = "lookup"
  /\ UNCHANGED <<guest, pages, hostByte, memoryBound, fuel, ticksSeen, before,
                 report, made>>

\* The run export is looked up.
FindRun ==
  /\ phase = "lookup"
  /\ \/ ErrorReport
     \/ /\ phase' = "run"
        /\ UNCHANGED <<guest, pages, hostByte, hostState, before, report, made>>

\* run returns an i32, here one of the codes: memory and telemetry are read.
Return(code) ==
  /\ phase = "run"
  /\ phase' = "done"
  /\ report' = [actual |-> code, hostError |-> FALSE, events |-> events,
                ticks |-> ticksSeen, before |-> before, after |-> pages]
  /\ UNCHANGED <<guest, pages, hostByte, hostState, before, made>>

Trap == phase = "run" /\ ErrorReport

-----------------------------------------------------------------------------
(* Guest code at work: in start (if Instance::new gets that far), grow_only *)
(* or run.                                                                  *)

GuestRuns ==
  /\ phase \in {"start", "probe", "run"}
  /\ guest.memory # "imported"

\* memory.grow: nothing but the engine limits it.
GuestGrows ==
  /\ GuestRuns /\ pages < GrowLimit
  /\ pages' = pages + 1
  /\ UNCHANGED <<guest, phase, hostByte, hostState, before, report, made>>

\* A store of the guest over a byte the host wrote.
GuestStores ==
  /\ GuestRuns
  /\ \E a \in Addresses :
       hostByte[a] # 0 /\ hostByte' = [hostByte EXCEPT ![a] = 0]
  /\ UNCHANGED <<guest, phase, pages, hostState, before, report, made>>

\* How much of the model's bound the calls so far have taken.
CallsTaken ==
  LET Others == {i \in DOMAIN made : made[i].import # "host.tick"}
  IN Len(made) + (TicksPerCall - 1) * Cardinality(Others)

\* The guest calls an import.
CanCall(cost) == GuestRuns /\ CallsTaken + cost <= MaxCalls

\* Faulty: the size is that of the snapshot taken before the guest ran.
MemorySize_Snapshot ==
  IF memoryBound THEN before * PageBytes ELSE NoMemory

\* A fresh MemoryView's data_size, when HostState has the memory.
MemorySize == IF memoryBound THEN pages * PageBytes ELSE NoMemory

\* Every import ends by pushing its event and returning its code.
Decide(import, ptr, len, memorySize, outcome) ==
  /\ events' = Append(events, Event(import, ptr, len, memorySize, outcome))
  /\ made' = Append(made, [import |-> import, code |-> Code(outcome.err), tick |-> 0])
  /\ UNCHANGED <<guest, phase, pages, memoryBound, before, report>>

AcceptPacket(ptr, len, align, packet) ==
  /\ CanCall(TicksPerCall)
  /\ Decide("host.accept_packet", ptr, len, MemorySize,
       PacketOutcome(MemorySize, ptr, len, align, MaxPacketLen, packet))
  /\ UNCHANGED <<hostByte, fuel, ticksSeen>>

ReadCap(ptr, len, text) ==
  /\ CanCall(TicksPerCall)
  /\ Decide("host.read_cap", ptr, len, MemorySize,
       CapabilityOutcome(MemorySize, ptr, len, MaxCapLen, text))
  /\ UNCHANGED <<hostByte, fuel, ticksSeen>>

\* Faulty: the whole marker is stored whatever the slice's length.
MarkerSpan_Whole(ptr, len) == {a \in Addresses : a - ptr \in 0 .. MarkerLen - 1}

\* copy_from_slice: the addresses of the slice.
MarkerSpan(ptr, len) == {a \in Addresses : a - ptr \in 0 .. len - 1}

\* Faulty: the marker is stored before its length is looked at.
WriteMarker_StoreFirst(ptr, len, align) ==
  LET outcome == MarkerOutcome(MemorySize, ptr, len, align)
  IN /\ CanCall(TicksPerCall)
     /\ Decide("host.write_marker", ptr, len, MemorySize, outcome)
     /\ hostByte' = [a \in Addresses |->
                       IF /\ outcome.err \in {"Ok", "MarkerLength"}
                          /\ a \in MarkerSpan_Whole(ptr, len)
                       THEN a - ptr + 1 ELSE hostByte[a]]
     /\ UNCHANGED <<fuel, ticksSeen>>

WriteMarker(ptr, len, align) ==
  LET outcome == MarkerOutcome(MemorySize, ptr, len, align)
  IN /\ CanCall(TicksPerCall)
     /\ Decide("host.write_marker", ptr, len, MemorySize, outcome)
     /\ hostByte' = [a \in Addresses |->
                       IF outcome.err = "Ok" /\ a \in MarkerSpan(ptr, len)
                       THEN a - ptr + 1 ELSE hostByte[a]]
     /\ UNCHANGED <<fuel, ticksSeen>>

AllocCap(requested) ==
  LET ok == requested <= MaxAlloc
  IN /\ CanCall(TicksPerCall)
     /\ Decide("host.alloc_cap", None, requested, None,
          [err |-> IF ok THEN "Ok" ELSE "AllocationTooLarge",
           evidence |-> [passed |-> IF ok THEN {"alloc.cap"} ELSE {},
                         failed |-> IF ok THEN "none" ELSE "alloc.cap"]])
     /\ UNCHANGED <<hostByte, fuel, ticksSeen>>

\* Faulty: the last of the first ticks is not recorded.
ShouldRecordTick_Late(tick, code) ==
  code # "OK" \/ tick < TickHead \/ tick % TickStride = 0

\* Faulty: a denied tick is sampled like the others.
ShouldRecordTick_Sampled(tick, code) == tick <= TickHead \/ tick % TickStride = 0

ShouldRecordTick(tick, code) ==
  code # "OK" \/ tick <= TickHead \/ tick % TickStride = 0

\* saturating_add
NextTick == IF ticksSeen < TickMax THEN ticksSeen + 1 ELSE TickMax

FuelSpent == fuel = 0

\* Faulty: a denied tick takes the budget back to its start.
FuelAfterTick_Refill == IF FuelSpent THEN InitialFuel ELSE fuel - 1

\* Faulty: fuel is taken without looking whether any is left.
FuelAfterTick_Unguarded == fuel - 1

FuelAfterTick == IF FuelSpent THEN fuel ELSE fuel - 1

Tick ==
  LET ok == ~FuelSpent
      err == IF ok THEN "Ok" ELSE "BudgetExhausted"
      event == Event("host.tick", None, None, None,
                 [err |-> err,
                  evidence |-> [passed |-> IF ok THEN {"fuel"} ELSE {},
                                failed |-> IF ok THEN "none" ELSE "fuel"]])
  IN /\ CanCall(1) /\ guest.importsTick
     /\ ticksSeen' = NextTick
     /\ fuel' = FuelAfterTick
     /\ events' = IF ShouldRecordTick(NextTick, Code(err))
                  THEN Append(events, event) ELSE events
     /\ made' = Append(made, [import |-> "host.tick", code |-> Code(err),
                              tick |-> NextTick])
     /\ UNCHANGED <<guest, phase, pages, hostByte, memoryBound, before, report>>

Pipeline ==
  \/ Load \/ AuditDenies \/ Instantiate \/ InstantiateFails \/ BindMemory
  \/ FinishProbe \/ FindRun \/ Trap
  \/ \E code \in {"OK", "ERR_BUDGET"} : Return(code)

HostCall ==
  \/ \E ptr \in Ptrs, len \in Lens, align \in Aligns :
       \/ \E packet \in PacketContents(BodyLens) :
            AcceptPacket(ptr, len, align, packet)
       \/ WriteMarker(ptr, len, align)
  \/ \E ptr \in Ptrs, len \in Lens, text \in CapabilityTexts :
       ReadCap(ptr, len, text)
  \/ \E requested \in Lens : AllocCap(requested)
  \/ Tick

Next == Pipeline \/ GuestGrows \/ GuestStores \/ HostCall

Spec == Init /\ [][Next]_vars

-----------------------------------------------------------------------------
HostImports ==
  {"host.accept_packet", "host.read_cap", "host.write_marker",
   "host.alloc_cap", "host.tick"}
MemoryImports == {"host.accept_packet", "host.read_cap", "host.write_marker"}

GateNames ==
  {"max_len", "alignment", "checked_add", "bounds", "memory.export",
   "memory.read", "memory.write", "packet.header", "packet.checksum", "utf8",
   "capability", "marker.len", "marker.write", "alloc.cap", "fuel",
   "drop_stale_view", "reacquire_view", "module.memory_min_pages",
   "module.tick_import", "runner.no_execute"}

EventType ==
  [import: HostImports \cup {"host.runner.grow_probe", "host.audit.module"},
   ptr: U32 \cup {None}, len: U32 \cup {None}, memorySize: Nat \cup {None},
   code: Codes,
   evidence: [passed: SUBSET GateNames, failed: GateNames \cup {"none"}]]

ReportType ==
  [actual: Codes \cup {"pending", "none"}, hostError: BOOLEAN,
   events: Seq(EventType), ticks: 0 .. TickMax, before: 0 .. GrowLimit,
   after: 0 .. GrowLimit]

\* HostState exists and is in use.
EnvAlive == phase \in {"start", "probe", "lookup", "run"}

TypeOK ==
  /\ guest \in Guests
  /\ phase \in {"load", "audit", "start", "probe", "lookup", "run", "done"}
  /\ pages \in 0 .. GrowLimit
  /\ before \in 0 .. GrowLimit
  /\ hostByte \in [Addresses -> 0 .. MarkerLen]
  /\ memoryBound \in BOOLEAN
  /\ fuel \in 0 .. InitialFuel
  /\ ticksSeen \in 0 .. TickMax
  /\ events \in Seq(EventType)
  /\ report \in ReportType
  /\ made \in Seq([import: HostImports, code: Codes, tick: 0 .. TickMax])

\* No guest code runs and no import decides anything for a module the audit
\* should have stopped: no unexecutable fixture, no unmetered module where
\* the policy wants a tick, no visible memory above the policy's limit.
NothingRunsUnvetted ==
  EnvAlive \/ made # <<>> =>
    /\ guest.kind # "static_audit"
    /\ RequireTick => guest.importsTick
    /\ guest.memory # "hidden" => guest.minPages <= MaxMemoryPages

TickDecisions(code) ==
  {i \in DOMAIN made : made[i].import = "host.tick" /\ made[i].code = code}

\* Cooperative fuel, over start, grow_only and run together: every unit of
\* the policy's fuel is either left or was granted to exactly one tick, and
\* once a tick has been denied none is granted again.
FuelAccounting ==
  EnvAlive =>
    /\ Cardinality(TickDecisions("OK")) + fuel = InitialFuel
    /\ \A i \in TickDecisions("OK"), j \in TickDecisions("ERR_BUDGET") : i < j

DeniedTickEvents(evs) ==
  {i \in DOMAIN evs : evs[i].import = "host.tick" /\ evs[i].code # "OK"}

\* What a reader concludes from a report alone is right: it shows one denied
\* tick for each tick it counts beyond the policy's fuel, at least that many
\* once the counter saturates, although granted ticks are only sampled.
ReportAccountsForFuel ==
  LET denied == Cardinality(DeniedTickEvents(report.events))
      beyond == IF report.ticks > InitialFuel THEN report.ticks - InitialFuel ELSE 0
  IN denied >= beyond /\ (report.ticks < TickMax => denied = beyond)

\* A decision the telemetry owes its reader: all but a granted tick that is
\* neither one of the first nor a multiple of the stride.
Owed(d) ==
  \/ d.import # "host.tick" \/ d.code # "OK"
  \/ d.tick <= TickHead \/ d.tick % TickStride = 0

\* Of the positions in S, how many are before i.
Earlier(S, i) == Cardinality({k \in S : k < i})

OwedIn(decisions) == {i \in DOMAIN decisions : Owed(decisions[i])}
DecisionsIn(evs) == {j \in DOMAIN evs : evs[j].import \in HostImports}

\* The events show the decisions owed, in the order they were taken, and no
\* decision else.
ShowsOwed(decisions, evs) ==
  /\ Cardinality(DecisionsIn(evs)) = Cardinality(OwedIn(decisions))
  /\ \A i \in OwedIn(decisions), j \in DecisionsIn(evs) :
       Earlier(OwedIn(decisions), i) = Earlier(DecisionsIn(evs), j) =>
         /\ evs[j].import = decisions[i].import
         /\ evs[j].code = decisions[i].code

\* The report of a guest that ran to its end holds every decision the imports
\* took and owed the reader, in the order they took them and no other: those
\* of start and of the growth probe with those of run.
CompletedReportIsComplete ==
  report # NoReport /\ ~report.hostError => ShowsOwed(made, report.events)

\* README.md: the harness "records every guest-host ABI decision".  Not so of
\* a guest that traps: error_report starts from an empty telemetry.
EveryDecisionReported ==
  report # NoReport => ShowsOwed(made, report.events)

\* Every byte of the host's in the guest's memory is explained by the
\* telemetry: an allowed write_marker covers it, with the right marker byte,
\* and it lies in the memory the guest has.
HostBytesExplained ==
  EnvAlive =>
    \A a \in Addresses : hostByte[a] # 0 =>
      /\ a < pages * PageBytes
      /\ \E i \in DOMAIN events :
           /\ events[i].import = "host.write_marker" /\ events[i].code = "OK"
           /\ a = events[i].ptr + hostByte[a] - 1
           /\ hostByte[a] <= events[i].len

\* A range is judged against the memory as it is at the call, however it grew
\* since the case began: what is allowed lies inside, and what is refused as
\* out of bounds lies outside or ends at 2^32 or beyond.
JudgedOnPresentMemory ==
  [][events' # events =>
       LET e == events'[Len(events')]
       IN e.import \in MemoryImports =>
            /\ e.memorySize = NoMemory <=> ~memoryBound
            /\ e.code = "OK" => e.ptr + e.len <= pages * PageBytes
            /\ e.code = "ERR_BOUNDS" =>
                 \/ e.ptr + e.len > pages * PageBytes
                 \/ e.ptr + e.len > U32Max]_<<events, report>>

\* An import's verdict and the gates shown for it agree: allowed exactly when
\* no gate failed, and no gate both passed and failed.
VerdictMatchesGates ==
  \A i \in DOMAIN events : events[i].import \in HostImports =>
    /\ events[i].code = "OK" <=> events[i].evidence.failed = "none"
    /\ events[i].evidence.failed \notin events[i].evidence.passed
=============================================================================
