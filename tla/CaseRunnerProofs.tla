-------------------------- MODULE CaseRunnerProofs --------------------------
(***************************************************************************)
(* Proofs about CaseRunner for every policy, memory and argument.  The     *)
(* lemmas about outcomes come first and say what each import decides; the  *)
(* invariants follow in the order in which they use one another: types,    *)
(* what the audit lets run, the state of a case before its environment     *)
(* exists, fuel, the host's bytes in the guest's memory, what a completed  *)
(* report shows of the decisions, and what its counters say of the fuel.   *)
(***************************************************************************)
EXTENDS CaseRunner, FiniteSetTheorems, TLAPS

LEMMA ConstantTypes ==
  /\ PageBytes \in Nat \ {0} /\ TickStride \in Nat \ {0} /\ TickMax \in Nat \ {0}
  /\ GrowLimit \in Nat /\ MaxMemoryPages \in Nat /\ InitialFuel \in Nat
  /\ TickHead \in Nat /\ MarkerLen \in Nat \ {0} /\ U32Max \in Nat
  BY RunnerAssumption, AbiAssumption

LEMMA ProductNat == \A m, n \in Nat : m * n \in Nat
  OBVIOUS

LEMMA MemorySizeType ==
  ASSUME pages \in Nat PROVE MemorySize \in Nat \cup {NoMemory}
<1>1. pages * PageBytes \in Nat
  BY ConstantTypes
<1> QED
  BY <1>1 DEF MemorySize

-----------------------------------------------------------------------------
(* The outcome of an import that touches memory. *)

SliceGates == {"memory.read", "memory.write"}
RangeGates == {"max_len", "alignment", "checked_add", "bounds"}

\* The errors and the gates of the closures run on a slice.
BodyErrors ==
  {"PacketTooShort", "BadMagic", "BadVersion", "PacketLengthMismatch",
   "BadChecksum", "InvalidUtf8", "CapabilityDenied", "MarkerLength"}
BodyGates ==
  {"packet.header", "packet.checksum", "utf8", "capability", "marker.write",
   "marker.len"}

OutcomeType ==
  [err: RangeErrors \cup BodyErrors \cup {"Ok", "MissingMemory"},
   evidence: [passed: SUBSET (RangeGates \cup SliceGates \cup BodyGates),
              failed: RangeGates \cup BodyGates \cup {"none", "memory.export"}]]

\* What an import may conclude from the outcome of a request for
\* [ptr, ptr + len): the verdict and the gates agree, an accepted range lies
\* in the memory, and one refused by its bounds does not.
OutcomeSound(o, memorySize, ptr, len) ==
  /\ o \in OutcomeType
  /\ o.err = "Ok" <=> o.evidence.failed = "none"
  /\ o.evidence.failed \notin o.evidence.passed
  /\ o.err = "Ok" => memorySize # NoMemory /\ ptr + len <= memorySize
  /\ o.err \in {"OutOfBounds", "PtrLenOverflow"} =>
       /\ memorySize # NoMemory
       /\ ptr + len > memorySize \/ ptr + len > U32Max

\* A verdict of checked_guest_range: an accepted range lies in the memory, and
\* one refused by its bounds does not, or does not fit u32.
LEMMA RangeVerdict ==
  ASSUME NEW ptr \in U32, NEW len \in U32, NEW align \in Nat,
         NEW memorySize \in Nat, NEW maxLen \in Nat,
         NEW verdict,
         verdict = CheckedGuestRange(ptr, len, align, memorySize, maxLen)
  PROVE  /\ verdict \in RangeErrors \cup {"Ok"}
         /\ verdict = "Ok" => ptr + len <= memorySize
         /\ verdict \in {"OutOfBounds", "PtrLenOverflow"} =>
              ptr + len > memorySize \/ ptr + len > U32Max
  BY AbiAssumption DEF CheckedGuestRange, RangeErrors, U32

\* with_guest_bytes and with_guest_bytes_mut answer soundly.
LEMMA GuestBytesSound ==
  ASSUME NEW memorySize \in Nat \cup {NoMemory}, NEW ptr \in U32,
         NEW len \in U32, NEW align \in Nat, NEW maxLen \in Nat,
         NEW access \in SliceGates
  PROVE  LET o == GuestBytes(memorySize, ptr, len, align, maxLen, access)
         IN /\ OutcomeSound(o, memorySize, ptr, len)
            /\ o.evidence.passed \subseteq RangeGates \cup SliceGates
<1> DEFINE o == GuestBytes(memorySize, ptr, len, align, maxLen, access)
           v == CheckedGuestRange(ptr, len, align, memorySize, maxLen)
<1>1. CASE memorySize = NoMemory
  <2>1. o = [err |-> "MissingMemory",
             evidence |-> [passed |-> {}, failed |-> "memory.export"]]
    BY <1>1 DEF GuestBytes
  <2> QED
    BY <1>1, <2>1 DEF OutcomeSound, OutcomeType
<1>2. CASE memorySize # NoMemory /\ v = "Ok"
  <2>1. o = [err |-> "Ok",
             evidence |-> [passed |-> RangeGates \cup {access},
                           failed |-> "none"]]
    BY <1>2 DEF GuestBytes, RangeEvidence, RangeGates
  <2>2. ptr + len <= memorySize
    BY <1>2, RangeVerdict
  <2> QED
    BY <1>2, <2>1, <2>2
       DEF OutcomeSound, OutcomeType, RangeGates, SliceGates, BodyGates
<1>3. CASE memorySize # NoMemory /\ v # "Ok"
  <2>1. o = [err |-> v, evidence |-> RangeEvidence(v)]
    BY <1>3 DEF GuestBytes
  <2>2. v \in RangeErrors
    BY <1>3, RangeVerdict
  <2>3. /\ RangeEvidence(v).failed = GateOf(v)
        /\ RangeEvidence(v).failed \in RangeGates
        /\ RangeEvidence(v).passed \subseteq RangeGates
        /\ RangeEvidence(v).failed \notin RangeEvidence(v).passed
        /\ RangeEvidence(v) = [failed |-> RangeEvidence(v).failed,
                               passed |-> RangeEvidence(v).passed]
    BY <2>2 DEF RangeErrors, RangeEvidence, GateOf, RangeGates
  <2>4. v \in {"OutOfBounds", "PtrLenOverflow"} =>
          ptr + len > memorySize \/ ptr + len > U32Max
    BY <1>3, RangeVerdict
  <2>5. o \in OutcomeType
    BY <2>1, <2>2, <2>3 DEF OutcomeType
  <2>6. /\ o.err = v /\ o.evidence.failed # "none"
        /\ o.evidence.failed \notin o.evidence.passed
        /\ o.evidence.passed \subseteq RangeGates
    BY <2>1, <2>3 DEF RangeGates
  <2> QED
    BY <1>3, <2>4, <2>5, <2>6 DEF OutcomeSound
<1> QED
  BY <1>1, <1>2, <1>3

\* What a closure answers on the slice leaves the outcome sound.
LEMMA JudgeSound ==
  ASSUME NEW range, NEW memorySize, NEW ptr, NEW len,
         OutcomeSound(range, memorySize, ptr, len),
         range.evidence.passed \subseteq RangeGates \cup SliceGates,
         NEW err \in BodyErrors \cup {"Ok"}, NEW passed \in SUBSET BodyGates,
         err # "Ok" => GateOf(err) \notin passed
  PROVE  OutcomeSound(Judge(range, err, passed), memorySize, ptr, len)
<1>1. CASE range.err # "Ok"
  BY <1>1 DEF Judge
<1>2. CASE range.err = "Ok"
  <2> DEFINE failed == IF err = "Ok" THEN "none" ELSE GateOf(err)
  <2>1. Judge(range, err, passed) =
          [err |-> err, evidence |-> [passed |-> range.evidence.passed \cup passed,
                                      failed |-> failed]]
    BY <1>2 DEF Judge
  <2>2. /\ failed \in BodyGates \cup {"none"}
        /\ failed = "none" <=> err = "Ok"
        /\ failed \notin passed
    BY DEF BodyErrors, BodyGates, GateOf
  <2>3. failed \notin range.evidence.passed
    BY <2>2 DEF RangeGates, SliceGates, BodyGates
  <2>4. range.evidence.passed \cup passed
          \in SUBSET (RangeGates \cup SliceGates \cup BodyGates)
    OBVIOUS
  <2>5. Judge(range, err, passed) \in OutcomeType
    BY <2>1, <2>2, <2>4 DEF OutcomeType
  <2>6. memorySize # NoMemory /\ ptr + len <= memorySize
    BY <1>2 DEF OutcomeSound
  <2> QED
    BY <2>1, <2>2, <2>3, <2>5, <2>6 DEF OutcomeSound, BodyErrors
<1> QED
  BY <1>1, <1>2

\* The three imports that touch memory decide soundly, whatever their arguments.
LEMMA PacketSound ==
  ASSUME NEW m \in Nat \cup {NoMemory}, NEW ptr \in U32, NEW len \in U32,
         NEW align \in Nat, NEW packet \in PacketContents(BodyLens)
  PROVE  OutcomeSound(PacketOutcome(m, ptr, len, align, MaxPacketLen, packet),
                      m, ptr, len)
<1> DEFINE range == GuestBytes(m, ptr, len, align, MaxPacketLen, "memory.read")
           err == ParsePacket(packet, len)
           passed == IF err = "Ok" THEN {"packet.header", "packet.checksum"} ELSE {}
<1>1. /\ OutcomeSound(range, m, ptr, len)
      /\ range.evidence.passed \subseteq RangeGates \cup SliceGates
  BY GuestBytesSound, RunnerAssumption DEF SliceGates
<1>2. err \in BodyErrors \cup {"Ok"}
  BY DEF ParsePacket, BodyErrors
<1>3. passed \in SUBSET BodyGates /\ (err # "Ok" => GateOf(err) \notin passed)
  BY DEF BodyGates
<1>4. OutcomeSound(Judge(range, err, passed), m, ptr, len)
  BY <1>1, <1>2, <1>3, JudgeSound
<1> QED
  BY <1>4 DEF PacketOutcome

LEMMA CapabilitySound ==
  ASSUME NEW m \in Nat \cup {NoMemory}, NEW ptr \in U32, NEW len \in U32,
         NEW text \in CapabilityTexts
  PROVE  OutcomeSound(CapabilityOutcome(m, ptr, len, MaxCapLen, text),
                      m, ptr, len)
<1> DEFINE range == GuestBytes(m, ptr, len, 1, MaxCapLen, "memory.read")
           err == CASE text = "allowed" -> "Ok"
                    [] text = "not_allowed" -> "CapabilityDenied"
                    [] text = "not_utf8" -> "InvalidUtf8"
           passed == CASE text = "allowed" -> {"utf8", "capability"}
                       [] text = "not_allowed" -> {"utf8"}
                       [] text = "not_utf8" -> {}
<1>1. /\ OutcomeSound(range, m, ptr, len)
      /\ range.evidence.passed \subseteq RangeGates \cup SliceGates
  BY GuestBytesSound, RunnerAssumption DEF SliceGates
<1>2. /\ err \in BodyErrors \cup {"Ok"} /\ passed \in SUBSET BodyGates
      /\ err # "Ok" => GateOf(err) \notin passed
  BY DEF CapabilityTexts, BodyErrors, BodyGates, GateOf
<1>3. OutcomeSound(Judge(range, err, passed), m, ptr, len)
  BY <1>1, <1>2, JudgeSound
<1> QED
  BY <1>3 DEF CapabilityOutcome

LEMMA MarkerSound ==
  ASSUME NEW m \in Nat \cup {NoMemory}, NEW ptr \in U32, NEW len \in U32,
         NEW align \in Nat
  PROVE  /\ OutcomeSound(MarkerOutcome(m, ptr, len, align), m, ptr, len)
         /\ MarkerOutcome(m, ptr, len, align).err = "Ok" => len = MarkerLen
<1> DEFINE range == GuestBytes(m, ptr, len, align, MarkerLen, "memory.write")
           err == IF len = MarkerLen THEN "Ok" ELSE "MarkerLength"
           passed == IF len = MarkerLen THEN {"marker.write"} ELSE {}
<1>1. /\ OutcomeSound(range, m, ptr, len)
      /\ range.evidence.passed \subseteq RangeGates \cup SliceGates
  BY GuestBytesSound, AbiAssumption DEF SliceGates
<1>2. /\ err \in BodyErrors \cup {"Ok"} /\ passed \in SUBSET BodyGates
      /\ err # "Ok" => GateOf(err) \notin passed
  BY DEF BodyErrors, BodyGates, GateOf
<1>3. OutcomeSound(Judge(range, err, passed), m, ptr, len)
  BY <1>1, <1>2, JudgeSound
<1>4. MarkerOutcome(m, ptr, len, align) = Judge(range, err, passed)
  BY DEF MarkerOutcome
<1> QED
  BY <1>3, <1>4 DEF Judge

\* The code and the evidence of a sound outcome, as an event shows them.
LEMMA SoundEvent ==
  ASSUME NEW o, NEW m, NEW ptr, NEW len, OutcomeSound(o, m, ptr, len)
  PROVE  /\ Code(o.err) \in Codes
         /\ o.evidence \in [passed: SUBSET GateNames,
                            failed: GateNames \cup {"none"}]
         /\ Code(o.err) = "OK" <=> o.err = "Ok"
         /\ Code(o.err) = "ERR_BOUNDS" => o.err \in {"OutOfBounds", "PtrLenOverflow"}
<1>1. o.err \in RangeErrors \cup BodyErrors \cup {"Ok", "MissingMemory"}
  BY DEF OutcomeSound, OutcomeType
<1>2. o.evidence \in [passed: SUBSET (RangeGates \cup SliceGates \cup BodyGates),
                      failed: RangeGates \cup BodyGates \cup {"none", "memory.export"}]
  BY DEF OutcomeSound, OutcomeType
<1>3. /\ RangeGates \cup SliceGates \cup BodyGates \subseteq GateNames
      /\ "memory.export" \in GateNames
  BY DEF RangeGates, SliceGates, BodyGates, GateNames
<1>4. o.evidence \in [passed: SUBSET GateNames, failed: GateNames \cup {"none"}]
  BY <1>2, <1>3
<1> QED
  BY <1>1, <1>4 DEF RangeErrors, BodyErrors, Code, Codes

\* An event of one of the imports that touch memory.
LEMMA EventOfSound ==
  ASSUME NEW import \in MemoryImports, NEW o, NEW m \in Nat \cup {NoMemory},
         NEW ptr \in U32, NEW len \in U32, OutcomeSound(o, m, ptr, len)
  PROVE  Event(import, ptr, len, m, o) \in EventType
<1>1. /\ Code(o.err) \in Codes
      /\ o.evidence \in [passed: SUBSET GateNames, failed: GateNames \cup {"none"}]
  BY SoundEvent
<1>2. import \in HostImports /\ m \in Nat \cup {None}
  BY DEF MemoryImports, HostImports, NoMemory, None
<1> QED
  BY <1>1, <1>2 DEF Event, EventType

\* What one decision of an import adds to the events and to the history.
LEMMA DecideType ==
  ASSUME TypeOK, NEW import \in HostImports, NEW ptr, NEW len, NEW m, NEW o,
         Event(import, ptr, len, m, o) \in EventType,
         Decide(import, ptr, len, m, o)
  PROVE  /\ events' \in Seq(EventType)
         /\ made' \in Seq([import: HostImports, code: Codes, tick: 0 .. TickMax])
<1>1. Code(o.err) \in Codes
  BY DEF Event, EventType
<1>2. 0 \in 0 .. TickMax
  BY RunnerAssumption
<1>3. [import |-> import, code |-> Code(o.err), tick |-> 0]
        \in [import: HostImports, code: Codes, tick: 0 .. TickMax]
  BY <1>1, <1>2
<1> QED
  BY <1>3 DEF Decide, TypeOK

\* CaseRunner's state stays well-typed: in particular the fuel never wraps, a
\* report's numbers stay in their ranges, and every event has its form.
THEOREM TypeInvariant == Spec => []TypeOK
<1> USE RunnerAssumption, AbiAssumption
<1>1. Init => TypeOK
  <2> SUFFICES ASSUME Init PROVE TypeOK
    OBVIOUS
  <2>1. NoReport \in ReportType
    BY DEF NoReport, ReportType
  <2>2. hostByte \in [Addresses -> 0 .. MarkerLen]
    BY ConstantTypes DEF Init
  <2>3. /\ pages \in 0 .. GrowLimit /\ before \in 0 .. GrowLimit
        /\ fuel \in 0 .. InitialFuel /\ ticksSeen \in 0 .. TickMax
    BY ConstantTypes DEF Init
  <2>4. events \in Seq(EventType)
    BY DEF Init
  <2>5. made \in Seq([import: HostImports, code: Codes, tick: 0 .. TickMax])
    BY DEF Init
  <2> QED
    BY <2>1, <2>2, <2>3, <2>4, <2>5 DEF Init, TypeOK
<1>2. TypeOK /\ [Next]_vars => TypeOK'
  <2> SUFFICES ASSUME TypeOK, [Next]_vars PROVE TypeOK'
    OBVIOUS
  <2>1. ASSUME ErrorReport PROVE TypeOK'
    <3>1. report' \in ReportType
      BY <2>1 DEF ErrorReport, ReportType, TypeOK
    <3> QED
      BY <2>1, <3>1 DEF ErrorReport, TypeOK, hostState
  <2>2. ASSUME NEW code \in Codes, NEW evidence \in
                 [passed: SUBSET GateNames, failed: GateNames \cup {"none"}],
               AuditDenialReport(code, evidence)
        PROVE  TypeOK'
    <3>1. report' \in ReportType
      BY <2>2 DEF AuditDenialReport, ReportType, EventType, TypeOK
    <3> QED
      BY <2>2, <3>1 DEF AuditDenialReport, TypeOK, hostState
  <2>3. CASE Load
    BY <2>1, <2>3 DEF Load, TypeOK, hostState
  <2>4. CASE AuditDenies
    <3>1. {"ERR_TIMEOUT", "ERR_TOO_LARGE", "ERR_BUDGET"} \subseteq Codes
      BY DEF Codes
    <3>2. \A passed \in SUBSET {"module.memory_min_pages", "runner.no_execute"},
             failed \in {"module.memory_min_pages", "module.tick_import"} :
            [passed |-> passed, failed |-> failed] \in
              [passed: SUBSET GateNames, failed: GateNames \cup {"none"}]
      BY DEF GateNames
    <3> QED
      BY <2>2, <2>4, <3>1, <3>2 DEF AuditDenies
  <2>5. CASE Instantiate
    <3>1. /\ pages' \in 0 .. GrowLimit /\ fuel' \in 0 .. InitialFuel
          /\ ticksSeen' \in 0 .. TickMax
      BY <2>5, ConstantTypes DEF Instantiate, TypeOK, Guests
    <3>2. events' \in Seq(EventType)
      BY <2>5 DEF Instantiate
    <3> QED
      BY <2>5, <3>1, <3>2 DEF Instantiate, TypeOK
  <2>6. CASE InstantiateFails
    BY <2>1, <2>6 DEF InstantiateFails
  <2>7. CASE BindMemory
    BY <2>1, <2>7 DEF BindMemory, TypeOK
  <2>8. CASE FinishProbe
    <3>1. pages * PageBytes \in Nat
      BY DEF TypeOK
    <3>2. PICK e \in EventType : events' = Append(events, e)
      BY <2>8, <3>1 DEF FinishProbe, EventType, GateNames, Codes
    <3>3. events' \in Seq(EventType)
      BY <3>2 DEF TypeOK
    <3> QED
      BY <2>8, <3>3 DEF FinishProbe, TypeOK
  <2>9. CASE FindRun
    BY <2>1, <2>9 DEF FindRun, TypeOK, hostState
  <2>10. CASE Trap
    BY <2>1, <2>10 DEF Trap
  <2>11. ASSUME NEW code \in {"OK", "ERR_BUDGET"}, Return(code) PROVE TypeOK'
    <3>1. report' \in ReportType
      BY <2>11 DEF Return, ReportType, TypeOK, Codes
    <3> QED
      BY <2>11, <3>1 DEF Return, TypeOK, hostState
  <2>12. CASE GuestGrows
    BY <2>12 DEF GuestGrows, TypeOK, hostState
  <2>13. CASE GuestStores
    BY <2>13 DEF GuestStores, TypeOK, hostState
  <2>14. MemorySize \in Nat \cup {NoMemory}
    BY MemorySizeType DEF TypeOK
  <2>15. ASSUME NEW ptr \in Ptrs, NEW len \in Lens, NEW align \in Aligns,
                NEW packet \in PacketContents(BodyLens),
                AcceptPacket(ptr, len, align, packet)
         PROVE  TypeOK'
    <3>1. /\ events' \in Seq(EventType)
          /\ made' \in Seq([import: HostImports, code: Codes, tick: 0 .. TickMax])
      BY <2>14, <2>15, PacketSound, EventOfSound, DecideType
         DEF AcceptPacket, MemoryImports, HostImports
    <3> QED
      BY <2>15, <3>1 DEF AcceptPacket, Decide, TypeOK
  <2>16. ASSUME NEW ptr \in Ptrs, NEW len \in Lens, NEW text \in CapabilityTexts,
                ReadCap(ptr, len, text)
         PROVE  TypeOK'
    <3>1. /\ events' \in Seq(EventType)
          /\ made' \in Seq([import: HostImports, code: Codes, tick: 0 .. TickMax])
      BY <2>14, <2>16, CapabilitySound, EventOfSound, DecideType
         DEF ReadCap, MemoryImports, HostImports
    <3> QED
      BY <2>16, <3>1 DEF ReadCap, Decide, TypeOK
  <2>17. ASSUME NEW ptr \in Ptrs, NEW len \in Lens, NEW align \in Aligns,
                WriteMarker(ptr, len, align)
         PROVE  TypeOK'
    <3>1. ptr \in U32 /\ len \in U32 /\ align \in Nat
      OBVIOUS
    <3>2. /\ events' \in Seq(EventType)
          /\ made' \in Seq([import: HostImports, code: Codes, tick: 0 .. TickMax])
      BY <2>14, <2>17, <3>1, MarkerSound, EventOfSound, DecideType
         DEF WriteMarker, MemoryImports, HostImports
    <3>3. hostByte' \in [Addresses -> 0 .. MarkerLen]
      <4>1. MarkerOutcome(MemorySize, ptr, len, align).err = "Ok" => len = MarkerLen
        BY <2>14, <3>1, MarkerSound
      <4>2. \A a \in MarkerSpan(ptr, MarkerLen) : a - ptr + 1 \in 0 .. MarkerLen
        BY <3>1, ConstantTypes DEF MarkerSpan, Addresses, U32
      <4> QED
        BY <2>17, <4>1, <4>2 DEF WriteMarker, TypeOK
    <3> QED
      BY <2>17, <3>2, <3>3 DEF WriteMarker, Decide, TypeOK
  <2>18. ASSUME NEW requested \in Lens, AllocCap(requested) PROVE TypeOK'
    <3>1. \A err \in {"Ok", "AllocationTooLarge"}, passed \in SUBSET {"alloc.cap"},
             failed \in {"none", "alloc.cap"} :
            Event("host.alloc_cap", None, requested, None,
                  [err |-> err, evidence |-> [passed |-> passed, failed |-> failed]])
              \in EventType
      BY DEF Event, EventType, HostImports, Code, Codes, GateNames
    <3>2. /\ events' \in Seq(EventType)
          /\ made' \in Seq([import: HostImports, code: Codes, tick: 0 .. TickMax])
      BY <2>18, <3>1, DecideType DEF AllocCap, HostImports
    <3> QED
      BY <2>18, <3>2 DEF AllocCap, Decide, TypeOK
  <2>19. CASE Tick
    <3> DEFINE err == IF ~FuelSpent THEN "Ok" ELSE "BudgetExhausted"
               event == Event("host.tick", None, None, None,
                 [err |-> err,
                  evidence |-> [passed |-> IF ~FuelSpent THEN {"fuel"} ELSE {},
                                failed |-> IF ~FuelSpent THEN "none" ELSE "fuel"]])
    <3>1. Code(err) \in Codes /\ event \in EventType
      BY DEF Event, EventType, HostImports, Code, Codes, GateNames
    <3>2. NextTick \in 0 .. TickMax /\ FuelAfterTick \in 0 .. InitialFuel
      BY DEF NextTick, FuelAfterTick, FuelSpent, TypeOK
    <3>3. /\ ticksSeen' = NextTick /\ fuel' = FuelAfterTick
          /\ events' \in {events, Append(events, event)}
          /\ made' = Append(made, [import |-> "host.tick", code |-> Code(err),
                                   tick |-> NextTick])
      BY <2>19 DEF Tick
    <3> HIDE DEF err, event
    <3>4. events' \in Seq(EventType)
      <4>1. events \in Seq(EventType)
        BY DEF TypeOK
      <4>2. Append(events, event) \in Seq(EventType)
        BY <3>1, <4>1
      <4> QED
        BY <3>3, <4>1, <4>2
    <3>5. [import |-> "host.tick", code |-> Code(err), tick |-> NextTick]
            \in [import: HostImports, code: Codes, tick: 0 .. TickMax]
      BY <3>1, <3>2 DEF HostImports
    <3>6. made' \in Seq([import: HostImports, code: Codes, tick: 0 .. TickMax])
      BY <3>3, <3>5 DEF TypeOK
    <3> QED
      BY <2>19, <3>2, <3>3, <3>4, <3>6 DEF Tick, TypeOK
  <2>20. CASE UNCHANGED vars
    BY <2>20 DEF vars, hostState, TypeOK
  <2> QED
    BY <2>3, <2>4, <2>5, <2>6, <2>7, <2>8, <2>9, <2>10, <2>11, <2>12, <2>13,
       <2>15, <2>16, <2>17, <2>18, <2>19, <2>20
       DEF Next, Pipeline, HostCall
<1> QED
  BY <1>1, <1>2, PTL DEF Spec

-----------------------------------------------------------------------------
\* The environment exists only past the audit; until then nothing was decided
\* and the host has written nothing.
Vetted ==
  /\ guest.kind # "static_audit"
  /\ RequireTick => guest.importsTick
  /\ guest.memory # "hidden" => guest.minPages <= MaxMemoryPages

BeforeRun ==
  /\ EnvAlive \/ made # <<>> => Vetted
  /\ phase \in {"load", "audit"} =>
       made = <<>> /\ events = <<>> /\ hostByte = [a \in Addresses |-> 0]

LEMMA BeforeRunInvariant == Spec => []BeforeRun
<1>1. Init => BeforeRun
  BY DEF Init, BeforeRun, EnvAlive
<1>2. TypeOK /\ BeforeRun /\ [Next]_vars => BeforeRun'
  <2> SUFFICES ASSUME TypeOK, BeforeRun, [Next]_vars PROVE BeforeRun'
    OBVIOUS
  <2> USE DEF BeforeRun, EnvAlive, Vetted
  <2>1. ASSUME ErrorReport PROVE BeforeRun'
    BY <2>1 DEF ErrorReport
  <2>2. CASE Load
    BY <2>1, <2>2 DEF Load, hostState
  <2>3. CASE AuditDenies
    BY <2>3 DEF AuditDenies, AuditDenialReport
  <2>4. CASE Instantiate
    <3>1. Vetted
      BY <2>4, ConstantTypes
         DEF Instantiate, StaticFixture, TooManyPages, Unmetered, TypeOK, Guests
    <3> QED
      BY <2>4, <3>1 DEF Instantiate
  <2>5. CASE InstantiateFails
    BY <2>1, <2>5 DEF InstantiateFails
  <2>6. CASE BindMemory
    BY <2>1, <2>6 DEF BindMemory
  <2>7. CASE FinishProbe
    BY <2>7 DEF FinishProbe
  <2>8. CASE FindRun
    BY <2>1, <2>8 DEF FindRun
  <2>9. CASE Trap
    BY <2>1, <2>9 DEF Trap
  <2>10. ASSUME NEW code, Return(code) PROVE BeforeRun'
    BY <2>10 DEF Return
  <2>11. CASE GuestGrows
    BY <2>11 DEF GuestGrows, GuestRuns
  <2>12. CASE GuestStores
    BY <2>12 DEF GuestStores, GuestRuns
  <2>13. CASE HostCall
    <3>1. GuestRuns /\ UNCHANGED <<guest, phase>>
      BY <2>13 DEF HostCall, AcceptPacket, ReadCap, WriteMarker, AllocCap, Tick,
                   CanCall, Decide
    <3> QED
      BY <3>1 DEF GuestRuns
  <2>14. CASE UNCHANGED vars
    BY <2>14 DEF vars, hostState
  <2> QED
    BY <2>2, <2>3, <2>4, <2>5, <2>6, <2>7, <2>8, <2>9, <2>10, <2>11, <2>12,
       <2>13, <2>14 DEF Next, Pipeline
<1> QED
  BY <1>1, <1>2, TypeInvariant, PTL DEF Spec

\* Nothing of a module runs before the audit has let it (run_case_inner,
\* audit_module): no static fixture, no module without the tick the policy
\* wants, no visible memory above the limit.
THEOREM NothingEverRunsUnvetted == Spec => []NothingRunsUnvetted
<1>1. BeforeRun => NothingRunsUnvetted
  BY DEF BeforeRun, NothingRunsUnvetted, Vetted
<1> QED
  BY <1>1, BeforeRunInvariant, PTL

-----------------------------------------------------------------------------
(* Fuel. *)

Decisions == [import: HostImports, code: Codes, tick: 0 .. TickMax]

\* A tick is denied only once the fuel is gone, and then it stays gone.
FuelInv ==
  EnvAlive =>
    /\ Cardinality(TickDecisions("OK")) + fuel = InitialFuel
    /\ TickDecisions("ERR_BUDGET") # {} => fuel = 0
    /\ \A i \in TickDecisions("OK"), j \in TickDecisions("ERR_BUDGET") : i < j

LEMMA TickDecisionsFinite ==
  ASSUME NEW code, made \in Seq(Decisions)
  PROVE  /\ IsFiniteSet(TickDecisions(code))
         /\ TickDecisions(code) \subseteq 1 .. Len(made)
         /\ Cardinality(TickDecisions(code)) \in Nat
<1>1. TickDecisions(code) \subseteq 1 .. Len(made)
  BY DEF TickDecisions
<1>2. Len(made) \in Nat
  OBVIOUS
<1>3. IsFiniteSet(1 .. Len(made))
  BY <1>2, FS_Interval
<1>4. IsFiniteSet(TickDecisions(code))
  BY <1>1, <1>3, FS_Subset
<1> QED
  BY <1>1, <1>4, FS_CardinalityType

\* A decision joins the ticks of its code, or none.
LEMMA TickDecisionsAppend ==
  ASSUME NEW code, made \in Seq(Decisions), NEW d \in Decisions,
         made' = Append(made, d)
  PROVE  TickDecisions(code)' =
           IF d.import = "host.tick" /\ d.code = code
           THEN TickDecisions(code) \cup {Len(made) + 1} ELSE TickDecisions(code)
<1>1. /\ DOMAIN made = 1 .. Len(made) /\ Len(made) \in Nat
      /\ DOMAIN made' = 1 .. (Len(made) + 1)
      /\ made'[Len(made) + 1] = d
      /\ \A i \in 1 .. Len(made) : made'[i] = made[i]
  OBVIOUS
<1> QED
  BY <1>1 DEF TickDecisions

\* Every step but a tick leaves the fuel and the ticks of a live environment
\* alone, or makes or ends the environment.
LEMMA OtherStepsKeepFuel ==
  ASSUME TypeOK, BeforeRun, FuelInv, Pipeline \/ GuestGrows \/ GuestStores
  PROVE  FuelInv'
<1>1. ASSUME UNCHANGED <<made, fuel>>, EnvAlive' => EnvAlive PROVE FuelInv'
  BY <1>1 DEF FuelInv, TickDecisions
<1>2. ASSUME phase' = "done" PROVE FuelInv'
  BY <1>2 DEF FuelInv, EnvAlive
<1>3. CASE Load
  BY <1>2, <1>3 DEF Load, ErrorReport, FuelInv, EnvAlive
<1>4. CASE AuditDenies
  BY <1>2, <1>4 DEF AuditDenies, AuditDenialReport
<1>5. CASE Instantiate
  <2>1. made = <<>> /\ made' = <<>> /\ fuel' = InitialFuel
    BY <1>5 DEF Instantiate, BeforeRun
  <2>2. \A code : TickDecisions(code)' = {}
    BY <2>1 DEF TickDecisions
  <2> QED
    BY <2>1, <2>2, FS_EmptySet, ConstantTypes DEF FuelInv
<1>6. CASE InstantiateFails \/ Trap
  BY <1>2, <1>6 DEF InstantiateFails, Trap, ErrorReport
<1>7. CASE BindMemory
  BY <1>1, <1>2, <1>7 DEF BindMemory, ErrorReport, EnvAlive
<1>8. CASE FinishProbe
  BY <1>1, <1>8 DEF FinishProbe, EnvAlive
<1>9. CASE FindRun
  BY <1>1, <1>2, <1>9 DEF FindRun, ErrorReport, EnvAlive, hostState
<1>10. ASSUME NEW code, Return(code) PROVE FuelInv'
  BY <1>2, <1>10 DEF Return
<1>11. CASE GuestGrows \/ GuestStores
  BY <1>1, <1>11 DEF GuestGrows, GuestStores, EnvAlive, hostState
<1> QED
  BY <1>3, <1>4, <1>5, <1>6, <1>7, <1>8, <1>9, <1>10, <1>11 DEF Pipeline

LEMMA FuelInvariant == Spec => []FuelInv
<1>1. Init => FuelInv
  BY DEF Init, FuelInv, EnvAlive
<1>2. TypeOK /\ TypeOK' /\ BeforeRun /\ FuelInv /\ [Next]_vars => FuelInv'
  <2> SUFFICES ASSUME TypeOK, TypeOK', BeforeRun, FuelInv, [Next]_vars
               PROVE  FuelInv'
    OBVIOUS
  <2>1. made \in Seq(Decisions) /\ made' \in Seq(Decisions)
    BY DEF TypeOK, Decisions
  <2>2. ASSUME NEW import \in HostImports \ {"host.tick"}, NEW ptr, NEW len,
               NEW m, NEW o, Decide(import, ptr, len, m, o), UNCHANGED fuel
        PROVE  FuelInv'
    <3> DEFINE d == [import |-> import, code |-> Code(o.err), tick |-> 0]
    <3>1. made' = Append(made, d) /\ UNCHANGED phase
      BY <2>2 DEF Decide
    <3>2. d = made'[Len(made) + 1] /\ Len(made) + 1 \in DOMAIN made'
      BY <2>1, <3>1
    <3>3. d \in Decisions
      BY <2>1, <3>2
    <3>4. \A code : TickDecisions(code)' = TickDecisions(code)
      BY <2>1, <3>1, <3>3, TickDecisionsAppend
    <3> QED
      BY <2>2, <3>1, <3>4 DEF FuelInv, EnvAlive
  <2>3. CASE HostCall /\ ~Tick
    BY <2>2, <2>3 DEF HostCall, AcceptPacket, ReadCap, WriteMarker, AllocCap,
                      HostImports
  <2>4. CASE Tick
    <3> DEFINE err == IF ~FuelSpent THEN "Ok" ELSE "BudgetExhausted"
               d == [import |-> "host.tick", code |-> Code(err), tick |-> NextTick]
    <3>1. /\ made' = Append(made, d) /\ fuel' = FuelAfterTick
          /\ UNCHANGED phase
          /\ EnvAlive
      BY <2>4 DEF Tick, CanCall, GuestRuns, EnvAlive
    <3>2. d.code = IF fuel = 0 THEN "ERR_BUDGET" ELSE "OK"
      BY DEF Code, FuelSpent
    <3>3. d \in Decisions
      <4>1. d = made'[Len(made) + 1] /\ Len(made) + 1 \in DOMAIN made'
        BY <2>1, <3>1
      <4> QED
        BY <2>1, <4>1
    <3>4. fuel \in Nat
      BY ConstantTypes DEF TypeOK
    <3>5. /\ TickDecisions("OK") \subseteq 1 .. Len(made)
          /\ TickDecisions("ERR_BUDGET") \subseteq 1 .. Len(made)
          /\ IsFiniteSet(TickDecisions("OK"))
          /\ Cardinality(TickDecisions("OK")) \in Nat
          /\ Len(made) \in Nat
      BY <2>1, TickDecisionsFinite
    <3> HIDE DEF d
    <3>6. CASE fuel = 0
      <4>1. /\ TickDecisions("OK")' = TickDecisions("OK")
            /\ TickDecisions("ERR_BUDGET")' =
                 TickDecisions("ERR_BUDGET") \cup {Len(made) + 1}
        BY <2>1, <3>1, <3>2, <3>3, <3>6, TickDecisionsAppend DEF d
      <4>2. fuel' = 0
        BY <3>1, <3>6 DEF FuelAfterTick, FuelSpent
      <4> QED
        BY <3>1, <3>5, <3>6, <4>1, <4>2 DEF FuelInv
    <3>7. CASE fuel # 0
      <4>1. /\ TickDecisions("OK")' = TickDecisions("OK") \cup {Len(made) + 1}
            /\ TickDecisions("ERR_BUDGET")' = TickDecisions("ERR_BUDGET")
        BY <2>1, <3>1, <3>2, <3>3, <3>7, TickDecisionsAppend DEF d
      <4>2. fuel' = fuel - 1
        BY <3>1, <3>7 DEF FuelAfterTick, FuelSpent
      <4>3. Len(made) + 1 \notin TickDecisions("OK")
        BY <3>5
      <4>4. Cardinality(TickDecisions("OK")') = Cardinality(TickDecisions("OK")) + 1
        BY <3>5, <4>1, <4>3, FS_AddElement
      <4>5. TickDecisions("ERR_BUDGET") = {}
        BY <3>1, <3>7 DEF FuelInv
      <4> QED
        BY <3>1, <3>4, <3>5, <4>1, <4>2, <4>4, <4>5, ConstantTypes DEF FuelInv
    <3> QED
      BY <3>6, <3>7
  <2>5. CASE UNCHANGED vars
    BY <2>5 DEF vars, hostState, FuelInv, EnvAlive, TickDecisions
  <2> QED
    BY <2>3, <2>4, <2>5, OtherStepsKeepFuel DEF Next
<1> QED
  BY <1>1, <1>2, TypeInvariant, BeforeRunInvariant, PTL DEF Spec

\* The policy's fuel is granted once, unit by unit, over all the guest code of
\* a case, and never again after the first denied tick (host_tick).
THEOREM FuelAlwaysAccounted == Spec => []FuelAccounting
<1>1. FuelInv => FuelAccounting
  BY DEF FuelInv, FuelAccounting
<1> QED
  BY <1>1, FuelInvariant, PTL

-----------------------------------------------------------------------------
(* What the imports record. *)

\* An event that says what was decided, on the memory as it is now.
TrueEvent(e) ==
  /\ e \in EventType /\ e.import \in HostImports
  /\ e.code = "OK" <=> e.evidence.failed = "none"
  /\ e.evidence.failed \notin e.evidence.passed
  /\ e.import \in MemoryImports =>
       /\ e.ptr \in U32 /\ e.len \in U32 /\ e.memorySize = MemorySize
       /\ e.code = "OK" => MemorySize # NoMemory /\ e.ptr + e.len <= MemorySize
       /\ e.code = "ERR_BOUNDS" =>
            /\ MemorySize # NoMemory
            /\ e.ptr + e.len > MemorySize \/ e.ptr + e.len > U32Max

LEMMA SoundEventIsTrue ==
  ASSUME TypeOK, NEW import \in MemoryImports, NEW ptr \in U32, NEW len \in U32,
         NEW o, OutcomeSound(o, MemorySize, ptr, len)
  PROVE  TrueEvent(Event(import, ptr, len, MemorySize, o))
<1> DEFINE e == Event(import, ptr, len, MemorySize, o)
<1>1. MemorySize \in Nat \cup {NoMemory}
  BY MemorySizeType, ConstantTypes DEF TypeOK
<1>2. e \in EventType
  BY <1>1, EventOfSound
<1>3. /\ e.import = import /\ e.ptr = ptr /\ e.len = len
      /\ e.memorySize = MemorySize /\ e.code = Code(o.err)
      /\ e.evidence = o.evidence
  BY DEF Event
<1>4. /\ Code(o.err) = "OK" <=> o.err = "Ok"
      /\ Code(o.err) = "ERR_BOUNDS" => o.err \in {"OutOfBounds", "PtrLenOverflow"}
  BY SoundEvent
<1>5. import \in HostImports
  BY DEF MemoryImports, HostImports
<1> HIDE DEF e
<1>6. TrueEvent(e)
  BY <1>2, <1>3, <1>4, <1>5 DEF TrueEvent, OutcomeSound
<1> QED
  BY <1>6 DEF e

\* Each call of an import records a true event, but for the ticks left out.
LEMMA HostCallEvent ==
  ASSUME TypeOK, HostCall
  PROVE  \E e : /\ TrueEvent(e)
                /\ \/ events' = Append(events, e)
                   \/ events' = events /\ UNCHANGED hostByte
<1> DEFINE Goal == \E e : /\ TrueEvent(e)
                          /\ \/ events' = Append(events, e)
                             \/ events' = events /\ UNCHANGED hostByte
<1>1. MemorySize \in Nat \cup {NoMemory}
  BY MemorySizeType, ConstantTypes DEF TypeOK
<1>2. ASSUME NEW ptr \in Ptrs, NEW len \in Lens, NEW align \in Aligns,
             NEW packet \in PacketContents(BodyLens),
             AcceptPacket(ptr, len, align, packet)
      PROVE  Goal
  <2>1. ptr \in U32 /\ len \in U32 /\ align \in Nat
    BY RunnerAssumption
  <2>2. OutcomeSound(PacketOutcome(MemorySize, ptr, len, align, MaxPacketLen,
                                   packet), MemorySize, ptr, len)
    BY <1>1, <2>1, PacketSound
  <2> QED
    BY <1>2, <2>1, <2>2, SoundEventIsTrue DEF AcceptPacket, Decide, MemoryImports
<1>3. ASSUME NEW ptr \in Ptrs, NEW len \in Lens, NEW text \in CapabilityTexts,
             ReadCap(ptr, len, text)
      PROVE  Goal
  <2>1. ptr \in U32 /\ len \in U32
    BY RunnerAssumption
  <2>2. OutcomeSound(CapabilityOutcome(MemorySize, ptr, len, MaxCapLen, text),
                     MemorySize, ptr, len)
    BY <1>1, <2>1, CapabilitySound
  <2> QED
    BY <1>3, <2>1, <2>2, SoundEventIsTrue DEF ReadCap, Decide, MemoryImports
<1>4. ASSUME NEW ptr \in Ptrs, NEW len \in Lens, NEW align \in Aligns,
             WriteMarker(ptr, len, align)
      PROVE  Goal
  <2>1. ptr \in U32 /\ len \in U32 /\ align \in Nat
    BY RunnerAssumption
  <2>2. OutcomeSound(MarkerOutcome(MemorySize, ptr, len, align), MemorySize, ptr, len)
    BY <1>1, <2>1, MarkerSound
  <2> QED
    BY <1>4, <2>1, <2>2, SoundEventIsTrue DEF WriteMarker, Decide, MemoryImports
<1>5. ASSUME NEW requested \in Lens, AllocCap(requested) PROVE Goal
  <2>1. PICK e : /\ events' = Append(events, e)
                 /\ e \in {Event("host.alloc_cap", None, requested, None, o) :
                      o \in {[err |-> "Ok", evidence |->
                               [passed |-> {"alloc.cap"}, failed |-> "none"]],
                             [err |-> "AllocationTooLarge", evidence |->
                               [passed |-> {}, failed |-> "alloc.cap"]]}}
    BY <1>5 DEF AllocCap, Decide
  <2>2. requested \in U32
    BY RunnerAssumption
  <2>3. TrueEvent(e)
    BY <2>1, <2>2 DEF TrueEvent, Event, EventType, HostImports, MemoryImports,
                      Code, Codes, GateNames
  <2> QED
    BY <2>1, <2>3
<1>6. CASE Tick
  <2>1. PICK e : /\ events' = Append(events, e) \/ events' = events
                 /\ UNCHANGED hostByte
                 /\ e \in {Event("host.tick", None, None, None, o) :
                      o \in {[err |-> "Ok", evidence |->
                               [passed |-> {"fuel"}, failed |-> "none"]],
                             [err |-> "BudgetExhausted", evidence |->
                               [passed |-> {}, failed |-> "fuel"]]}}
    BY <1>6 DEF Tick
  <2>2. TrueEvent(e)
    BY <2>1 DEF TrueEvent, Event, EventType, HostImports, MemoryImports, Code,
                Codes, GateNames
  <2> QED
    BY <2>1, <2>2
<1> QED
  BY <1>2, <1>3, <1>4, <1>5, <1>6 DEF HostCall

\* The verdict an import returns and the gates its event shows never disagree.
THEOREM VerdictsAlwaysMatchGates == Spec => []VerdictMatchesGates
<1>1. Init => VerdictMatchesGates
  BY DEF Init, VerdictMatchesGates
<1>2. TypeOK /\ VerdictMatchesGates /\ [Next]_vars => VerdictMatchesGates'
  <2> SUFFICES ASSUME TypeOK, VerdictMatchesGates, [Next]_vars
               PROVE  VerdictMatchesGates'
    OBVIOUS
  <2>1. events \in Seq(EventType)
    BY DEF TypeOK
  <2>2. CASE UNCHANGED events
    BY <2>2 DEF VerdictMatchesGates
  <2>3. CASE events' = <<>>
    BY <2>3 DEF VerdictMatchesGates
  <2>4. ASSUME NEW e, events' = Append(events, e), e \in EventType,
               e.import \in HostImports =>
                 /\ e.code = "OK" <=> e.evidence.failed = "none"
                 /\ e.evidence.failed \notin e.evidence.passed
        PROVE  VerdictMatchesGates'
    <3>1. \A i \in DOMAIN events' : events'[i] = e \/
                                    (i \in DOMAIN events /\ events'[i] = events[i])
      BY <2>1, <2>4
    <3> QED
      BY <2>4, <3>1 DEF VerdictMatchesGates
  <2>5. CASE HostCall
    <3>1. PICK e : TrueEvent(e) /\ (events' = Append(events, e) \/ events' = events)
      BY <2>5, HostCallEvent
    <3> QED
      BY <2>2, <2>4, <3>1 DEF TrueEvent
  <2>6. CASE FinishProbe
    <3>1. pages * PageBytes \in Nat
      BY ConstantTypes DEF TypeOK
    <3>2. PICK e \in EventType : /\ events' = Append(events, e)
                                 /\ e.import = "host.runner.grow_probe"
      BY <2>6, <3>1 DEF FinishProbe, EventType, GateNames, Codes
    <3> QED
      BY <2>4, <3>2 DEF HostImports
  <2>7. CASE (Pipeline /\ ~FinishProbe) \/ GuestGrows \/ GuestStores
    BY <2>2, <2>3, <2>7 DEF Pipeline, Load, AuditDenies, Instantiate,
         InstantiateFails, BindMemory, FindRun, Trap, Return, ErrorReport,
         AuditDenialReport, GuestGrows, GuestStores, hostState
  <2>8. CASE UNCHANGED vars
    BY <2>2, <2>8 DEF vars, hostState
  <2> QED
    BY <2>5, <2>6, <2>7, <2>8 DEF Next
<1> QED
  BY <1>1, <1>2, TypeInvariant, PTL DEF Spec

\* A range is always judged against the memory of that very moment
\* (validate_range takes a fresh view), so a memory that grew between two
\* calls is never judged by its old size.
THEOREM AlwaysJudgedOnPresentMemory == Spec => JudgedOnPresentMemory
<1> DEFINE last == events'[Len(events')]
           Step == events' # events =>
                     (last.import \in MemoryImports =>
                        /\ last.memorySize = NoMemory <=> ~memoryBound
                        /\ last.code = "OK" =>
                             last.ptr + last.len <= pages * PageBytes
                        /\ last.code = "ERR_BOUNDS" =>
                             \/ last.ptr + last.len > pages * PageBytes
                             \/ last.ptr + last.len > U32Max)
<1>1. TypeOK /\ BeforeRun /\ [Next]_vars => [Step]_<<events, report>>
  <2> SUFFICES ASSUME TypeOK, BeforeRun, [Next]_vars PROVE Step
    OBVIOUS
  <2>1. events \in Seq(EventType)
    BY DEF TypeOK
  <2>2. CASE UNCHANGED events
    BY <2>2
  <2>3. CASE HostCall
    <3>1. PICK e : TrueEvent(e) /\ (events' = Append(events, e) \/ events' = events)
      BY <2>3, HostCallEvent
    <3>2. CASE events' = Append(events, e)
      <4>1. last = e
        BY <2>1, <3>2
      <4>2. pages * PageBytes \in Nat
        BY ConstantTypes DEF TypeOK
      <4>3. MemorySize = NoMemory <=> ~memoryBound
        BY <4>2 DEF MemorySize, NoMemory
      <4>4. MemorySize # NoMemory => MemorySize = pages * PageBytes
        BY DEF MemorySize
      <4> HIDE DEF last
      <4> QED
        BY <3>1, <4>1, <4>3, <4>4 DEF TrueEvent
    <3> QED
      BY <2>2, <3>1, <3>2
  <2>4. CASE FinishProbe
    <3>1. PICK code : events' = Append(events,
            [import |-> "host.runner.grow_probe", ptr |-> None, len |-> None,
             memorySize |-> pages * PageBytes, code |-> code,
             evidence |-> [passed |-> {"drop_stale_view", "reacquire_view"},
                           failed |-> "none"]])
      BY <2>4 DEF FinishProbe
    <3>2. last.import = "host.runner.grow_probe"
      BY <2>1, <3>1
    <3> QED
      BY <3>2 DEF MemoryImports
  <2>5. CASE Instantiate
    BY <2>2, <2>5 DEF Instantiate, BeforeRun
  <2>6. CASE (Pipeline /\ ~FinishProbe /\ ~Instantiate) \/ GuestGrows \/ GuestStores
    BY <2>2, <2>6 DEF Pipeline, Load, AuditDenies, InstantiateFails, BindMemory,
         FindRun, Trap, Return, ErrorReport, AuditDenialReport, GuestGrows,
         GuestStores, hostState
  <2>7. CASE UNCHANGED vars
    BY <2>2, <2>7 DEF vars, hostState
  <2> QED
    BY <2>3, <2>4, <2>5, <2>6, <2>7 DEF Next
<1>2. Step => (events' # events =>
       LET e == events'[Len(events')]
       IN e.import \in MemoryImports =>
            /\ e.memorySize = NoMemory <=> ~memoryBound
            /\ e.code = "OK" => e.ptr + e.len <= pages * PageBytes
            /\ e.code = "ERR_BOUNDS" =>
                 \/ e.ptr + e.len > pages * PageBytes
                 \/ e.ptr + e.len > U32Max)
  OBVIOUS
<1> HIDE DEF Step
<1> QED
  BY <1>1, <1>2, TypeInvariant, BeforeRunInvariant, PTL
     DEF Spec, JudgedOnPresentMemory

-----------------------------------------------------------------------------
(* The host's bytes in the guest's memory. *)

\* A byte of the host's at a is within the memory and an event accounts for it.
Explained(a) ==
  /\ a < pages * PageBytes
  /\ \E i \in DOMAIN events :
       /\ events[i].import = "host.write_marker" /\ events[i].code = "OK"
       /\ a = events[i].ptr + hostByte[a] - 1
       /\ hostByte[a] <= events[i].len

HostBytes == EnvAlive => \A a \in Addresses : hostByte[a] # 0 => Explained(a)

\* Events are only added, so what they account for stays accounted for.
LEMMA ExplainedStays ==
  ASSUME TypeOK, NEW a \in Addresses, Explained(a), hostByte'[a] = hostByte[a],
         pages * PageBytes <= pages' * PageBytes, pages' * PageBytes \in Nat,
         \/ events' = events \/ \E e : events' = Append(events, e)
  PROVE  Explained(a)'
<1>1. PICK i \in DOMAIN events :
        /\ events[i].import = "host.write_marker" /\ events[i].code = "OK"
        /\ a = events[i].ptr + hostByte[a] - 1
        /\ hostByte[a] <= events[i].len
  BY DEF Explained
<1>2. i \in DOMAIN events' /\ events'[i] = events[i]
  <2>1. CASE events' = events
    BY <2>1
  <2>2. ASSUME NEW e, events' = Append(events, e)
        PROVE  i \in DOMAIN events' /\ events'[i] = events[i]
    <3>1. events \in Seq(EventType)
      BY DEF TypeOK
    <3>2. i \in 1 .. Len(events) /\ Len(events) \in Nat
      BY <3>1
    <3> QED
      BY <2>2, <3>1, <3>2
  <2> QED
    BY <2>1, <2>2
<1>3. a < pages' * PageBytes
  <2>1. pages * PageBytes \in Nat /\ a \in Nat
    BY ConstantTypes DEF TypeOK, Addresses
  <2> QED
    BY <2>1 DEF Explained
<1> QED
  BY <1>1, <1>2, <1>3 DEF Explained

\* What write_marker stores is accounted for by the event it records.
LEMMA MarkerExplained ==
  ASSUME TypeOK, HostBytes, NEW ptr \in Ptrs, NEW len \in Lens,
         NEW align \in Aligns, WriteMarker(ptr, len, align)
  PROVE  HostBytes'
<1> DEFINE o == MarkerOutcome(MemorySize, ptr, len, align)
           e == Event("host.write_marker", ptr, len, MemorySize, o)
<1>1. /\ events' = Append(events, e)
      /\ UNCHANGED <<phase, pages>>
      /\ EnvAlive
      /\ hostByte' = [a \in Addresses |->
                        IF o.err = "Ok" /\ a \in MarkerSpan(ptr, len)
                        THEN a - ptr + 1 ELSE hostByte[a]]
  BY DEF WriteMarker, Decide, CanCall, GuestRuns, EnvAlive
<1>2. /\ ptr \in U32 /\ len \in U32 /\ align \in Nat
      /\ MemorySize \in Nat \cup {NoMemory} /\ pages * PageBytes \in Nat
      /\ MemorySize # NoMemory => MemorySize = pages * PageBytes
  BY RunnerAssumption, ConstantTypes, MemorySizeType DEF TypeOK, MemorySize
<1>3. OutcomeSound(o, MemorySize, ptr, len)
  BY <1>2, MarkerSound
<1> HIDE DEF o
<1>4. /\ Len(events) + 1 \in DOMAIN events' /\ events'[Len(events) + 1] = e
  BY <1>1 DEF TypeOK
<1>5. ASSUME NEW a \in Addresses, hostByte'[a] # 0 PROVE Explained(a)'
  <2>1. CASE o.err = "Ok" /\ a \in MarkerSpan(ptr, len)
    <3>1. ptr + len <= pages * PageBytes
      BY <1>2, <1>3, <2>1 DEF OutcomeSound
    <3>2. a - ptr \in 0 .. len - 1 /\ a \in Nat /\ ptr \in Nat /\ len \in Nat
      BY <1>2, <2>1, ConstantTypes DEF MarkerSpan, Addresses, U32
    <3>3. hostByte'[a] = a - ptr + 1
      BY <1>1, <2>1
    <3>4. /\ a < pages' * PageBytes
          /\ a = ptr + hostByte'[a] - 1 /\ hostByte'[a] <= len
      BY <1>1, <1>2, <3>1, <3>2, <3>3
    <3>5. /\ e.import = "host.write_marker" /\ e.code = "OK"
          /\ e.ptr = ptr /\ e.len = len
      BY <2>1 DEF Event, Code
    <3> QED
      BY <1>4, <3>4, <3>5 DEF Explained
  <2>2. CASE ~(o.err = "Ok" /\ a \in MarkerSpan(ptr, len))
    <3>1. hostByte'[a] = hostByte[a] /\ Explained(a)
      BY <1>1, <1>5, <2>2 DEF HostBytes
    <3> QED
      BY <1>1, <1>2, <3>1, ExplainedStays
  <2> QED
    BY <2>1, <2>2
<1> QED
  BY <1>5 DEF HostBytes

LEMMA HostBytesInvariant == Spec => []HostBytes
<1>1. Init => HostBytes
  BY DEF Init, HostBytes, EnvAlive
<1>2. TypeOK /\ TypeOK' /\ BeforeRun /\ HostBytes /\ [Next]_vars => HostBytes'
  <2> SUFFICES ASSUME TypeOK, TypeOK', BeforeRun, HostBytes, [Next]_vars
               PROVE  HostBytes'
    OBVIOUS
  <2>1. pages * PageBytes \in Nat /\ pages' * PageBytes \in Nat
    <3>1. pages \in Nat /\ pages' \in Nat
      BY ConstantTypes DEF TypeOK
    <3> QED
      BY <3>1, ConstantTypes, ProductNat
  <2>2. ASSUME phase' = "done" PROVE HostBytes'
    BY <2>2 DEF HostBytes, EnvAlive
  <2>3. ASSUME UNCHANGED <<pages, hostByte>>, EnvAlive' => EnvAlive,
               events' = events \/ \E e : events' = Append(events, e)
        PROVE  HostBytes'
    BY <2>1, <2>3, ExplainedStays DEF HostBytes
  <2>4. CASE Load
    BY <2>2, <2>4 DEF Load, ErrorReport, HostBytes, EnvAlive
  <2>5. CASE AuditDenies
    BY <2>2, <2>5 DEF AuditDenies, AuditDenialReport
  <2>6. CASE Instantiate
    BY <2>6 DEF Instantiate, BeforeRun, HostBytes
  <2>7. CASE InstantiateFails \/ Trap
    BY <2>2, <2>7 DEF InstantiateFails, Trap, ErrorReport
  <2>8. CASE BindMemory
    BY <2>2, <2>3, <2>8 DEF BindMemory, ErrorReport, EnvAlive
  <2>9. CASE FinishProbe
    BY <2>3, <2>9 DEF FinishProbe, EnvAlive
  <2>10. CASE FindRun
    BY <2>2, <2>3, <2>10 DEF FindRun, ErrorReport, EnvAlive, hostState
  <2>11. ASSUME NEW code, Return(code) PROVE HostBytes'
    BY <2>2, <2>11 DEF Return
  <2>12. CASE GuestGrows
    <3>1. pages' = pages + 1 /\ UNCHANGED <<phase, hostByte, events>>
      BY <2>12 DEF GuestGrows, hostState
    <3>2. pages * PageBytes <= pages' * PageBytes
      <4>1. (pages + 1) * PageBytes = pages * PageBytes + PageBytes
        BY ConstantTypes DEF TypeOK
      <4> QED
        BY <2>1, <3>1, <4>1, ConstantTypes
    <3> QED
      BY <2>1, <3>1, <3>2, ExplainedStays DEF HostBytes, EnvAlive
  <2>13. CASE GuestStores
    <3>1. /\ UNCHANGED <<phase, pages, events>>
          /\ \A a \in Addresses : hostByte'[a] \in {hostByte[a], 0}
      BY <2>13 DEF GuestStores, hostState, TypeOK
    <3> QED
      BY <2>1, <3>1, ExplainedStays DEF HostBytes, EnvAlive
  <2>14. CASE HostCall
    <3>1. ASSUME UNCHANGED hostByte PROVE HostBytes'
      <4>1. UNCHANGED <<phase, pages>>
        BY <2>14 DEF HostCall, AcceptPacket, ReadCap, WriteMarker, AllocCap,
                     Tick, Decide
      <4>2. events' = events \/ \E e : events' = Append(events, e)
        BY <2>14, HostCallEvent
      <4> QED
        BY <2>3, <3>1, <4>1, <4>2 DEF EnvAlive
    <3>2. ASSUME NEW ptr \in Ptrs, NEW len \in Lens, NEW align \in Aligns,
                 WriteMarker(ptr, len, align)
          PROVE  HostBytes'
      BY <3>2, MarkerExplained
    <3> QED
      BY <2>14, <3>1, <3>2 DEF HostCall, AcceptPacket, ReadCap, AllocCap, Tick
  <2>15. CASE UNCHANGED vars
    BY <2>3, <2>15 DEF vars, hostState, EnvAlive
  <2> QED
    BY <2>4, <2>5, <2>6, <2>7, <2>8, <2>9, <2>10, <2>11, <2>12, <2>13, <2>14,
       <2>15 DEF Next, Pipeline
<1> QED
  BY <1>1, <1>2, TypeInvariant, BeforeRunInvariant, PTL DEF Spec

\* The host writes into the guest's memory only where an allowed write_marker
\* says it did, and only inside the memory (write_marker_to_guest).
THEOREM HostBytesAlwaysExplained == Spec => []HostBytesExplained
<1>1. HostBytes => HostBytesExplained
  BY DEF HostBytes, Explained, HostBytesExplained
<1> QED
  BY <1>1, HostBytesInvariant, PTL
-----------------------------------------------------------------------------
(* What the report shows. *)

\* The positions a condition selects in a sequence are finitely many, and as
\* many of them precede one of them as a number below their total.
LEMMA EarlierBelow ==
  ASSUME NEW n \in Nat, NEW S \in SUBSET (1 .. n)
  PROVE  /\ IsFiniteSet(S) /\ Cardinality(S) \in Nat
         /\ \A i \in S : Earlier(S, i) \in Nat /\ Earlier(S, i) < Cardinality(S)
<1>1. IsFiniteSet(S) /\ Cardinality(S) \in Nat
  <2>1. IsFiniteSet(1 .. n)
    BY FS_Interval
  <2>2. IsFiniteSet(S)
    BY <2>1, FS_Subset
  <2> QED
    BY <2>2, FS_CardinalityType
<1>2. ASSUME NEW i \in S
      PROVE  Earlier(S, i) \in Nat /\ Earlier(S, i) < Cardinality(S)
  <2> DEFINE T == {k \in S : k < i}
  <2>1. T \in SUBSET S /\ i \in S \ T
    OBVIOUS
  <2>2. IsFiniteSet(T) /\ Cardinality(T) \in Nat
    BY <1>1, <2>1, FS_Subset, FS_CardinalityType
  <2>3. Cardinality(T) <= Cardinality(S) /\ Cardinality(T) # Cardinality(S)
    BY <1>1, <2>1, FS_Subset
  <2> QED
    BY <1>1, <2>2, <2>3 DEF Earlier
<1> QED
  BY <1>1, <1>2

\* A position added after all others is preceded by all of them, and they by
\* as many as before.
LEMMA EarlierGrows ==
  ASSUME NEW n \in Nat, NEW S \in SUBSET (1 .. n)
  PROVE  /\ Cardinality(S \cup {n + 1}) = Cardinality(S) + 1
         /\ Earlier(S \cup {n + 1}, n + 1) = Cardinality(S)
         /\ \A i \in S : Earlier(S \cup {n + 1}, i) = Earlier(S, i)
<1>1. IsFiniteSet(S)
  BY EarlierBelow
<1>2. \A k \in S : k \in 1 .. n /\ k < n + 1 /\ ~(n + 1 < k)
  OBVIOUS
<1>3. {k \in S \cup {n + 1} : k < n + 1} = S
  <2>1. ~(n + 1 < n + 1)
    OBVIOUS
  <2> QED
    BY <1>2, <2>1
<1>4. Cardinality(S \cup {n + 1}) = Cardinality(S) + 1
  <2>1. n + 1 \notin S
    BY <1>2
  <2> QED
    BY <1>1, <2>1, FS_AddElement
<1>5. \A i \in S : {k \in S \cup {n + 1} : k < i} = {k \in S : k < i}
  BY <1>2
<1> QED
  BY <1>3, <1>4, <1>5 DEF Earlier

\* What one more entry does to the decisions owed and to those shown.
LEMMA OwedAppend ==
  ASSUME NEW ds \in Seq(Decisions), NEW d \in Decisions
  PROVE  OwedIn(Append(ds, d)) =
           IF Owed(d) THEN OwedIn(ds) \cup {Len(ds) + 1} ELSE OwedIn(ds)
<1>1. /\ DOMAIN ds = 1 .. Len(ds) /\ Len(ds) \in Nat
      /\ DOMAIN Append(ds, d) = 1 .. (Len(ds) + 1)
      /\ Append(ds, d)[Len(ds) + 1] = d
      /\ \A i \in 1 .. Len(ds) : Append(ds, d)[i] = ds[i]
  OBVIOUS
<1> QED
  BY <1>1 DEF OwedIn

LEMMA DecisionsAppend ==
  ASSUME NEW evs \in Seq(EventType), NEW e \in EventType
  PROVE  DecisionsIn(Append(evs, e)) =
           IF e.import \in HostImports
           THEN DecisionsIn(evs) \cup {Len(evs) + 1} ELSE DecisionsIn(evs)
<1>1. /\ DOMAIN evs = 1 .. Len(evs) /\ Len(evs) \in Nat
      /\ DOMAIN Append(evs, e) = 1 .. (Len(evs) + 1)
      /\ Append(evs, e)[Len(evs) + 1] = e
      /\ \A i \in 1 .. Len(evs) : Append(evs, e)[i] = evs[i]
  OBVIOUS
<1> QED
  BY <1>1 DEF DecisionsIn

\* A decision owed and its event come together.
LEMMA ShowsDecision ==
  ASSUME NEW ds \in Seq(Decisions), NEW evs \in Seq(EventType),
         NEW d \in Decisions, NEW e \in EventType,
         Owed(d), e.import = d.import, e.code = d.code, ShowsOwed(ds, evs)
  PROVE  ShowsOwed(Append(ds, d), Append(evs, e))
<1> DEFINE O == OwedIn(ds)
           P == DecisionsIn(evs)
           m == Len(ds)
           n == Len(evs)
<1>1. /\ m \in Nat /\ n \in Nat
      /\ O \in SUBSET (1 .. m) /\ P \in SUBSET (1 .. n)
  BY DEF OwedIn, DecisionsIn
<1>2. e.import \in HostImports
  BY DEF Decisions
<1>3. /\ OwedIn(Append(ds, d)) = O \cup {m + 1}
      /\ DecisionsIn(Append(evs, e)) = P \cup {n + 1}
  BY <1>2, OwedAppend, DecisionsAppend
<1>4. /\ Append(ds, d)[m + 1] = d /\ Append(evs, e)[n + 1] = e
      /\ \A i \in 1 .. m : Append(ds, d)[i] = ds[i]
      /\ \A j \in 1 .. n : Append(evs, e)[j] = evs[j]
  OBVIOUS
<1>5. /\ Cardinality(P) = Cardinality(O)
      /\ \A i \in O, j \in P : Earlier(O, i) = Earlier(P, j) =>
           evs[j].import = ds[i].import /\ evs[j].code = ds[i].code
  BY DEF ShowsOwed
<1> HIDE DEF O, P, m, n
<1>6. /\ Cardinality(O) \in Nat
      /\ \A i \in O : Earlier(O, i) \in Nat /\ Earlier(O, i) < Cardinality(O)
      /\ \A j \in P : Earlier(P, j) \in Nat /\ Earlier(P, j) < Cardinality(P)
  BY <1>1, EarlierBelow
<1>7. /\ Cardinality(O \cup {m + 1}) = Cardinality(O) + 1
      /\ Earlier(O \cup {m + 1}, m + 1) = Cardinality(O)
      /\ \A i \in O : Earlier(O \cup {m + 1}, i) = Earlier(O, i)
  BY <1>1, EarlierGrows
<1>8. /\ Cardinality(P \cup {n + 1}) = Cardinality(P) + 1
      /\ Earlier(P \cup {n + 1}, n + 1) = Cardinality(P)
      /\ \A j \in P : Earlier(P \cup {n + 1}, j) = Earlier(P, j)
  BY <1>1, EarlierGrows
<1>9. ASSUME NEW i \in O \cup {m + 1}, NEW j \in P \cup {n + 1},
             Earlier(O \cup {m + 1}, i) = Earlier(P \cup {n + 1}, j)
      PROVE  /\ Append(evs, e)[j].import = Append(ds, d)[i].import
             /\ Append(evs, e)[j].code = Append(ds, d)[i].code
  <2>1. CASE i = m + 1 /\ j = n + 1
    BY <1>4, <2>1
  <2>2. CASE i \in O /\ j \in P
    <3>1. Earlier(O, i) = Earlier(P, j)
      BY <1>7, <1>8, <1>9, <2>2
    <3>2. i \in 1 .. m /\ j \in 1 .. n
      BY <1>1, <2>2
    <3> QED
      BY <1>4, <1>5, <2>2, <3>1, <3>2
  <2>3. CASE i = m + 1 /\ j \in P
    <3>1. Cardinality(O) = Earlier(P, j)
      BY <1>7, <1>8, <1>9, <2>3
    <3>2. Earlier(P, j) \in Nat /\ Earlier(P, j) < Cardinality(P)
      BY <1>6, <2>3
    <3> QED
      BY <1>5, <1>6, <3>1, <3>2
  <2>4. CASE i \in O /\ j = n + 1
    <3>1. Earlier(O, i) = Cardinality(P)
      BY <1>7, <1>8, <1>9, <2>4
    <3>2. Earlier(O, i) \in Nat /\ Earlier(O, i) < Cardinality(O)
      BY <1>6, <2>4
    <3> QED
      BY <1>5, <1>6, <3>1, <3>2
  <2> QED
    BY <2>1, <2>2, <2>3, <2>4
<1> QED
  BY <1>3, <1>5, <1>7, <1>8, <1>9 DEF ShowsOwed

\* A tick that is not owed changes nothing of what is to be shown.
LEMMA ShowsWithoutUnowed ==
  ASSUME NEW ds \in Seq(Decisions), NEW evs \in Seq(EventType),
         NEW d \in Decisions, ~Owed(d), ShowsOwed(ds, evs)
  PROVE  ShowsOwed(Append(ds, d), evs)
<1>1. OwedIn(Append(ds, d)) = OwedIn(ds)
  BY OwedAppend
<1>2. \A i \in OwedIn(ds) : Append(ds, d)[i] = ds[i]
  BY DEF OwedIn
<1> QED
  BY <1>1, <1>2 DEF ShowsOwed

\* Nor does an event of the runner's own.
LEMMA ShowsWithRunnerEvent ==
  ASSUME NEW ds, NEW evs \in Seq(EventType), NEW e \in EventType,
         e.import \notin HostImports, ShowsOwed(ds, evs)
  PROVE  ShowsOwed(ds, Append(evs, e))
<1>1. DecisionsIn(Append(evs, e)) = DecisionsIn(evs)
  BY DecisionsAppend
<1>2. \A j \in DecisionsIn(evs) : Append(evs, e)[j] = evs[j]
  BY DEF DecisionsIn
<1> QED
  BY <1>1, <1>2 DEF ShowsOwed

\* A case in which nothing was decided owes nothing.
LEMMA ShowsNothing ==
  ASSUME NEW evs, \A j \in DOMAIN evs : evs[j].import \notin HostImports
  PROVE  ShowsOwed(<<>>, evs)
<1>1. OwedIn(<<>>) = {} /\ DecisionsIn(evs) = {}
  BY DEF OwedIn, DecisionsIn
<1> QED
  BY <1>1 DEF ShowsOwed

\* While the environment lives, its events show what the imports decided and
\* owed; the report of a case that ended by itself took them over.
ShownInv ==
  /\ EnvAlive => ShowsOwed(made, events)
  /\ CompletedReportIsComplete
  /\ phase # "done" => report = NoReport

\* How the end of a case leaves the report.
LEMMA ErrorEnds ==
  ASSUME ErrorReport
  PROVE  ShownInv'
  BY DEF ErrorReport, ShownInv, EnvAlive, CompletedReportIsComplete

LEMMA ShownInvariant == Spec => []ShownInv
<1>1. Init => ShownInv
  BY DEF Init, ShownInv, EnvAlive, CompletedReportIsComplete
<1>2. TypeOK /\ TypeOK' /\ BeforeRun /\ ShownInv /\ [Next]_vars => ShownInv'
  <2> SUFFICES ASSUME TypeOK, TypeOK', BeforeRun, ShownInv, [Next]_vars
               PROVE  ShownInv'
    OBVIOUS
  <2>1. /\ made \in Seq(Decisions) /\ made' \in Seq(Decisions)
        /\ events \in Seq(EventType) /\ events' \in Seq(EventType)
    BY DEF TypeOK, Decisions
  <2>2. ASSUME UNCHANGED <<made, events, report>>,
               EnvAlive' => EnvAlive, phase # "done", phase' # "done"
        PROVE  ShownInv'
    BY <2>2 DEF ShownInv, CompletedReportIsComplete
  <2>3. ASSUME EnvAlive, UNCHANGED <<phase, report>>,
               ShowsOwed(made', events')
        PROVE  ShownInv'
    BY <2>3 DEF ShownInv, CompletedReportIsComplete, EnvAlive
  <2>4. CASE Load
    BY <2>2, <2>4, ErrorEnds DEF Load, EnvAlive, hostState
  <2>5. CASE AuditDenies
    <3>1. PICK code, evidence : AuditDenialReport(code, evidence)
      BY <2>5 DEF AuditDenies
    <3>2. made' = <<>> /\ phase' = "done"
      BY <2>5, <3>1 DEF AuditDenies, AuditDenialReport, BeforeRun
    <3>3. /\ DOMAIN report'.events = {1}
          /\ report'.events[1].import = "host.audit.module"
      BY <3>1 DEF AuditDenialReport
    <3>4. ShowsOwed(<<>>, report'.events)
      BY <3>3, ShowsNothing DEF HostImports
    <3> QED
      BY <3>2, <3>4 DEF ShownInv, EnvAlive, CompletedReportIsComplete
  <2>6. CASE Instantiate
    <3>1. made' = <<>> /\ events' = <<>> /\ UNCHANGED report /\ phase' = "start"
          /\ phase = "audit"
      BY <2>6 DEF Instantiate, BeforeRun
    <3>2. ShowsOwed(<<>>, <<>>)
      BY ShowsNothing
    <3>3. ShowsOwed(made', events')
      BY <3>1, <3>2
    <3> QED
      BY <3>1, <3>3 DEF ShownInv, CompletedReportIsComplete
  <2>7. CASE InstantiateFails \/ Trap
    BY <2>7, ErrorEnds DEF InstantiateFails, Trap
  <2>8. CASE BindMemory
    BY <2>2, <2>8, ErrorEnds DEF BindMemory, EnvAlive
  <2>9. CASE FinishProbe
    <3>1. pages * PageBytes \in Nat
      BY ConstantTypes DEF TypeOK
    <3>2. PICK e \in EventType : /\ events' = Append(events, e)
                                 /\ e.import = "host.runner.grow_probe"
      BY <2>9, <3>1 DEF FinishProbe, EventType, GateNames, Codes
    <3>3. EnvAlive /\ ShowsOwed(made, events)
      BY <2>9 DEF FinishProbe, EnvAlive, ShownInv
    <3>4. ShowsOwed(made, Append(events, e))
      BY <2>1, <3>2, <3>3, ShowsWithRunnerEvent DEF HostImports
    <3>5. /\ ShowsOwed(made', events') /\ UNCHANGED report
          /\ phase' = "lookup" /\ phase = "probe"
      BY <2>9, <3>2, <3>4 DEF FinishProbe
    <3> QED
      BY <3>5 DEF ShownInv, CompletedReportIsComplete
  <2>10. CASE FindRun
    BY <2>2, <2>10, ErrorEnds DEF FindRun, EnvAlive, hostState
  <2>11. ASSUME NEW code, Return(code) PROVE ShownInv'
    <3>1. ShowsOwed(made, events)
      BY <2>11 DEF Return, ShownInv, EnvAlive
    <3>2. report'.events = events /\ made' = made /\ phase' = "done"
      BY <2>11 DEF Return
    <3> QED
      BY <3>1, <3>2 DEF ShownInv, EnvAlive, CompletedReportIsComplete
  <2>12. CASE GuestGrows \/ GuestStores
    BY <2>2, <2>12 DEF GuestGrows, GuestStores, GuestRuns, EnvAlive, hostState
  <2>13. CASE HostCall /\ ~Tick
    <3>1. PICK import, ptr, len, m, o :
            /\ import \in HostImports \ {"host.tick"}
            /\ Decide(import, ptr, len, m, o)
      BY <2>13 DEF HostCall, AcceptPacket, ReadCap, WriteMarker, AllocCap,
                   HostImports
    <3> DEFINE d == [import |-> import, code |-> Code(o.err), tick |-> 0]
               e == Event(import, ptr, len, m, o)
    <3>2. /\ made' = Append(made, d) /\ events' = Append(events, e)
          /\ UNCHANGED <<phase, report>>
      BY <3>1 DEF Decide
    <3>3. d \in Decisions
      <4>1. d = made'[Len(made) + 1] /\ Len(made) + 1 \in DOMAIN made'
        BY <2>1, <3>2
      <4> QED
        BY <2>1, <4>1
    <3>4. e \in EventType
      <4>1. e = events'[Len(events) + 1] /\ Len(events) + 1 \in DOMAIN events'
        BY <2>1, <3>2
      <4> QED
        BY <2>1, <4>1
    <3>5. Owed(d) /\ e.import = d.import /\ e.code = d.code
      BY <3>1 DEF Owed, Event
    <3>6. EnvAlive
      BY <2>13 DEF HostCall, AcceptPacket, ReadCap, WriteMarker, AllocCap,
                   CanCall, GuestRuns, EnvAlive
    <3> HIDE DEF d, e
    <3>7. ShowsOwed(Append(made, d), Append(events, e))
      BY <2>1, <3>3, <3>4, <3>5, <3>6, ShowsDecision DEF ShownInv
    <3> QED
      BY <2>3, <3>2, <3>6, <3>7
  <2>14. CASE Tick
    <3> DEFINE err == IF ~FuelSpent THEN "Ok" ELSE "BudgetExhausted"
               d == [import |-> "host.tick", code |-> Code(err), tick |-> NextTick]
               e == Event("host.tick", None, None, None,
                 [err |-> err,
                  evidence |-> [passed |-> IF ~FuelSpent THEN {"fuel"} ELSE {},
                                failed |-> IF ~FuelSpent THEN "none" ELSE "fuel"]])
    <3>1. /\ made' = Append(made, d) /\ UNCHANGED <<phase, report>> /\ EnvAlive
          /\ events' = IF ShouldRecordTick(NextTick, Code(err))
                       THEN Append(events, e) ELSE events
      BY <2>14 DEF Tick, CanCall, GuestRuns, EnvAlive
    <3>2. d \in Decisions
      <4>1. d = made'[Len(made) + 1] /\ Len(made) + 1 \in DOMAIN made'
        BY <2>1, <3>1
      <4> QED
        BY <2>1, <4>1
    <3>3. e \in EventType
      BY DEF Event, EventType, HostImports, Code, Codes, GateNames
    <3>4. /\ d.import = "host.tick" /\ e.import = d.import /\ e.code = d.code
          /\ Owed(d) <=> ShouldRecordTick(NextTick, Code(err))
      BY DEF Owed, Event, ShouldRecordTick
    <3>5. ShowsOwed(made, events)
      BY <3>1 DEF ShownInv
    <3> HIDE DEF d, e, err
    <3>6. CASE Owed(d)
      <4>1. ShowsOwed(Append(made, d), Append(events, e))
        BY <2>1, <3>2, <3>3, <3>4, <3>5, <3>6, ShowsDecision
      <4> QED
        BY <2>3, <3>1, <3>4, <3>6, <4>1
    <3>7. CASE ~Owed(d)
      <4>1. ShowsOwed(Append(made, d), events)
        BY <2>1, <3>2, <3>5, <3>7, ShowsWithoutUnowed
      <4> QED
        BY <2>3, <3>1, <3>4, <3>7, <4>1
    <3> QED
      BY <3>6, <3>7
  <2>15. CASE UNCHANGED vars
    BY <2>15 DEF vars, hostState, ShownInv, EnvAlive, CompletedReportIsComplete
  <2> QED
    BY <2>4, <2>5, <2>6, <2>7, <2>8, <2>9, <2>10, <2>11, <2>12, <2>13, <2>14,
       <2>15 DEF Next, Pipeline
<1> QED
  BY <1>1, <1>2, TypeInvariant, BeforeRunInvariant, PTL DEF Spec

\* The report of a guest that ran to its end shows every decision its imports
\* took and owed the reader, in order and no other (HostState.record_event,
\* should_record_tick, run_case_inner's last step): for every policy, stride
\* and number of calls in start, grow_only and run.
THEOREM CompletedReportsComplete == Spec => []CompletedReportIsComplete
<1>1. ShownInv => CompletedReportIsComplete
  BY DEF ShownInv
<1> QED
  BY <1>1, ShownInvariant, PTL

-----------------------------------------------------------------------------
(* What the report's counter and its denied ticks say of the fuel. *)

\* Every tick spent a unit of the fuel or is on record as denied, so the
\* counter is their sum, as far as it goes.
TicksInv ==
  /\ EnvAlive =>
       LET denied == Cardinality(DeniedTickEvents(events))
           asked == InitialFuel - fuel + denied
       IN /\ fuel > 0 => denied = 0
          /\ ticksSeen = IF asked < TickMax THEN asked ELSE TickMax
  /\ ReportAccountsForFuel

LEMMA DeniedFinite ==
  ASSUME NEW evs \in Seq(EventType)
  PROVE  /\ IsFiniteSet(DeniedTickEvents(evs))
         /\ DeniedTickEvents(evs) \in SUBSET (1 .. Len(evs))
         /\ Cardinality(DeniedTickEvents(evs)) \in Nat
<1>1. DeniedTickEvents(evs) \in SUBSET (1 .. Len(evs)) /\ Len(evs) \in Nat
  BY DEF DeniedTickEvents
<1> QED
  BY <1>1, EarlierBelow

LEMMA DeniedAppend ==
  ASSUME NEW evs \in Seq(EventType), NEW e \in EventType
  PROVE  Cardinality(DeniedTickEvents(Append(evs, e))) =
           IF e.import = "host.tick" /\ e.code # "OK"
           THEN Cardinality(DeniedTickEvents(evs)) + 1
           ELSE Cardinality(DeniedTickEvents(evs))
<1>1. /\ DOMAIN evs = 1 .. Len(evs) /\ Len(evs) \in Nat
      /\ DOMAIN Append(evs, e) = 1 .. (Len(evs) + 1)
      /\ Append(evs, e)[Len(evs) + 1] = e
      /\ \A i \in 1 .. Len(evs) : Append(evs, e)[i] = evs[i]
  OBVIOUS
<1>2. DeniedTickEvents(Append(evs, e)) =
        IF e.import = "host.tick" /\ e.code # "OK"
        THEN DeniedTickEvents(evs) \cup {Len(evs) + 1} ELSE DeniedTickEvents(evs)
  BY <1>1 DEF DeniedTickEvents
<1>3. DeniedTickEvents(evs) \in SUBSET (1 .. Len(evs))
  BY DeniedFinite
<1>4. Cardinality(DeniedTickEvents(evs) \cup {Len(evs) + 1}) =
        Cardinality(DeniedTickEvents(evs)) + 1
  BY <1>1, <1>3, EarlierGrows
<1> QED
  BY <1>2, <1>4

\* A report without ticks accounts for all there is.
LEMMA NoTicksReported ==
  ASSUME NEW r, r.ticks = 0,
         \A i \in DOMAIN r.events : r.events[i].import # "host.tick"
  PROVE  LET denied == Cardinality(DeniedTickEvents(r.events))
             beyond == IF r.ticks > InitialFuel THEN r.ticks - InitialFuel ELSE 0
         IN denied >= beyond /\ (r.ticks < TickMax => denied = beyond)
<1>1. DeniedTickEvents(r.events) = {}
  BY DEF DeniedTickEvents
<1>2. Cardinality(DeniedTickEvents(r.events)) = 0
  BY <1>1, FS_EmptySet
<1> QED
  BY <1>2, ConstantTypes

LEMMA ErrorAccounts ==
  ASSUME ErrorReport
  PROVE  TicksInv'
<1>1. report'.ticks = 0 /\ report'.events = <<>> /\ phase' = "done"
  BY DEF ErrorReport
<1>2. ReportAccountsForFuel'
  BY <1>1, NoTicksReported DEF ReportAccountsForFuel
<1> QED
  BY <1>1, <1>2 DEF TicksInv, EnvAlive

LEMMA TicksInvariant == Spec => []TicksInv
<1>1. Init => TicksInv
  <2> SUFFICES ASSUME Init PROVE TicksInv
    OBVIOUS
  <2>1. report.ticks = 0 /\ report.events = <<>> /\ phase = "load"
    BY DEF Init, NoReport
  <2>2. ReportAccountsForFuel
    BY <2>1, NoTicksReported DEF ReportAccountsForFuel
  <2> QED
    BY <2>1, <2>2 DEF TicksInv, EnvAlive
<1>2. TypeOK /\ TypeOK' /\ BeforeRun /\ TicksInv /\ [Next]_vars => TicksInv'
  <2> SUFFICES ASSUME TypeOK, TypeOK', BeforeRun, TicksInv, [Next]_vars
               PROVE  TicksInv'
    OBVIOUS
  <2>1. /\ events \in Seq(EventType) /\ events' \in Seq(EventType)
        /\ fuel \in 0 .. InitialFuel /\ fuel' \in 0 .. InitialFuel
        /\ ticksSeen \in 0 .. TickMax
    BY DEF TypeOK
  <2>2. ASSUME UNCHANGED <<events, fuel, ticksSeen, report>>, EnvAlive' => EnvAlive
        PROVE  TicksInv'
    BY <2>2 DEF TicksInv, ReportAccountsForFuel
  <2>3. ASSUME NEW e \in EventType, events' = Append(events, e),
               e.import # "host.tick",
               EnvAlive, UNCHANGED <<fuel, ticksSeen, report>>
        PROVE  TicksInv'
    <3>1. Cardinality(DeniedTickEvents(events')) = Cardinality(DeniedTickEvents(events))
      BY <2>1, <2>3, DeniedAppend
    <3> QED
      BY <2>3, <3>1 DEF TicksInv, ReportAccountsForFuel
  <2>4. CASE Load
    BY <2>2, <2>4, ErrorAccounts DEF Load, EnvAlive, hostState
  <2>5. CASE AuditDenies
    <3>1. PICK code, evidence : AuditDenialReport(code, evidence)
      BY <2>5 DEF AuditDenies
    <3>2. /\ report'.ticks = 0 /\ phase' = "done"
          /\ DOMAIN report'.events = {1}
          /\ report'.events[1].import = "host.audit.module"
      BY <3>1 DEF AuditDenialReport
    <3>3. ReportAccountsForFuel'
      BY <3>2, NoTicksReported DEF ReportAccountsForFuel
    <3> QED
      BY <3>2, <3>3 DEF TicksInv, EnvAlive
  <2>6. CASE Instantiate
    <3>1. events' = <<>> /\ fuel' = InitialFuel /\ ticksSeen' = 0 /\ UNCHANGED report
      BY <2>6 DEF Instantiate
    <3>2. DeniedTickEvents(<<>>) = {}
      BY DEF DeniedTickEvents
    <3>3. Cardinality(DeniedTickEvents(events')) = 0
      BY <3>1, <3>2, FS_EmptySet
    <3> QED
      BY <3>1, <3>3, ConstantTypes DEF TicksInv, ReportAccountsForFuel
  <2>7. CASE InstantiateFails \/ Trap
    BY <2>7, ErrorAccounts DEF InstantiateFails, Trap
  <2>8. CASE BindMemory
    BY <2>2, <2>8, ErrorAccounts DEF BindMemory, EnvAlive
  <2>9. CASE FinishProbe
    <3>1. pages * PageBytes \in Nat
      BY ConstantTypes DEF TypeOK
    <3>2. PICK e \in EventType : /\ events' = Append(events, e)
                                 /\ e.import = "host.runner.grow_probe"
      BY <2>9, <3>1 DEF FinishProbe, EventType, GateNames, Codes
    <3>3. EnvAlive /\ UNCHANGED <<fuel, ticksSeen, report>>
      BY <2>9 DEF FinishProbe, EnvAlive
    <3> QED
      BY <2>3, <3>2, <3>3
  <2>10. CASE FindRun
    BY <2>2, <2>10, ErrorAccounts DEF FindRun, EnvAlive, hostState
  <2>11. ASSUME NEW code, Return(code) PROVE TicksInv'
    <3> DEFINE denied == Cardinality(DeniedTickEvents(events))
    <3>1. /\ report'.events = events /\ report'.ticks = ticksSeen /\ phase' = "done"
          /\ EnvAlive
      BY <2>11 DEF Return, EnvAlive
    <3>2. /\ fuel > 0 => denied = 0
          /\ ticksSeen = IF InitialFuel - fuel + denied < TickMax
                         THEN InitialFuel - fuel + denied ELSE TickMax
      BY <3>1 DEF TicksInv
    <3>3. denied \in Nat
      BY <2>1, DeniedFinite
    <3>4. Cardinality(DeniedTickEvents(report'.events)) = denied
      BY <3>1
    <3> HIDE DEF denied
    <3>5. InitialFuel \in Nat /\ TickMax \in Nat /\ InitialFuel <= TickMax
      BY ConstantTypes, RunnerAssumption
    <3>6. LET beyond == IF ticksSeen > InitialFuel THEN ticksSeen - InitialFuel ELSE 0
          IN denied >= beyond /\ (ticksSeen < TickMax => denied = beyond)
      BY <2>1, <3>2, <3>3, <3>5
    <3> QED
      BY <3>1, <3>4, <3>6 DEF TicksInv, ReportAccountsForFuel, EnvAlive
  <2>12. CASE GuestGrows \/ GuestStores
    BY <2>2, <2>12 DEF GuestGrows, GuestStores, EnvAlive, hostState
  <2>13. CASE HostCall /\ ~Tick
    <3>1. PICK import, ptr, len, m, o :
            /\ import \in HostImports \ {"host.tick"}
            /\ Decide(import, ptr, len, m, o)
      BY <2>13 DEF HostCall, AcceptPacket, ReadCap, WriteMarker, AllocCap,
                   HostImports
    <3> DEFINE e == Event(import, ptr, len, m, o)
    <3>2. /\ events' = Append(events, e) /\ e.import # "host.tick"
          /\ UNCHANGED <<fuel, ticksSeen, report>>
      BY <2>13, <3>1 DEF Decide, Event, HostCall, AcceptPacket, ReadCap,
                         WriteMarker, AllocCap
    <3>3. e \in EventType
      <4>1. e = events'[Len(events) + 1] /\ Len(events) + 1 \in DOMAIN events'
        BY <2>1, <3>2
      <4> QED
        BY <2>1, <4>1
    <3>4. EnvAlive
      BY <2>13 DEF HostCall, AcceptPacket, ReadCap, WriteMarker, AllocCap,
                   CanCall, GuestRuns, EnvAlive
    <3> HIDE DEF e
    <3> QED
      BY <2>3, <3>2, <3>3, <3>4
  <2>14. CASE Tick
    <3> DEFINE denied == Cardinality(DeniedTickEvents(events))
               err == IF ~FuelSpent THEN "Ok" ELSE "BudgetExhausted"
               e == Event("host.tick", None, None, None,
                 [err |-> err,
                  evidence |-> [passed |-> IF ~FuelSpent THEN {"fuel"} ELSE {},
                                failed |-> IF ~FuelSpent THEN "none" ELSE "fuel"]])
    <3>1. /\ UNCHANGED <<phase, report>> /\ EnvAlive
          /\ ticksSeen' = NextTick /\ fuel' = FuelAfterTick
          /\ events' = IF ShouldRecordTick(NextTick, Code(err))
                       THEN Append(events, e) ELSE events
      BY <2>14 DEF Tick, CanCall, GuestRuns, EnvAlive
    <3>2. e \in EventType
      BY DEF Event, EventType, HostImports, Code, Codes, GateNames
    <3>3. /\ e.import = "host.tick" /\ e.code = Code(err)
          /\ Code(err) # "OK" <=> fuel = 0
      BY DEF Event, Code, FuelSpent
    <3>4. /\ fuel > 0 => denied = 0
          /\ ticksSeen = IF InitialFuel - fuel + denied < TickMax
                         THEN InitialFuel - fuel + denied ELSE TickMax
          /\ denied \in Nat
      BY <2>1, <3>1, DeniedFinite DEF TicksInv
    <3> HIDE DEF e, err
    <3>5. Cardinality(DeniedTickEvents(events')) = IF fuel = 0 THEN denied + 1 ELSE denied
      <4>1. Cardinality(DeniedTickEvents(Append(events, e))) =
              IF fuel = 0 THEN denied + 1 ELSE denied
        BY <2>1, <3>2, <3>3, DeniedAppend
      <4>2. fuel = 0 => ShouldRecordTick(NextTick, Code(err))
        BY <3>3 DEF ShouldRecordTick
      <4> QED
        BY <3>1, <4>1, <4>2
    <3> HIDE DEF denied
    <3>6. /\ ticksSeen' = IF ticksSeen < TickMax THEN ticksSeen + 1 ELSE TickMax
          /\ fuel' = IF fuel = 0 THEN fuel ELSE fuel - 1
      BY <3>1 DEF NextTick, FuelAfterTick, FuelSpent
    <3>7. LET new == IF fuel = 0 THEN denied + 1 ELSE denied
              asked == InitialFuel - fuel' + new
          IN /\ fuel' > 0 => new = 0
             /\ ticksSeen' = IF asked < TickMax THEN asked ELSE TickMax
      BY <2>1, <3>4, <3>6, ConstantTypes
    <3> QED
      BY <3>1, <3>5, <3>7 DEF TicksInv, ReportAccountsForFuel
  <2>15. CASE UNCHANGED vars
    BY <2>2, <2>15 DEF vars, hostState, EnvAlive
  <2> QED
    BY <2>4, <2>5, <2>6, <2>7, <2>8, <2>9, <2>10, <2>11, <2>12, <2>13, <2>14,
       <2>15 DEF Next, Pipeline
<1> QED
  BY <1>1, <1>2, TypeInvariant, BeforeRunInvariant, PTL DEF Spec

\* A report alone tells how far a guest went beyond its fuel: ticks past the
\* fuel are each on record as denied, exactly so until the counter saturates
\* (host_tick, note_tick, should_record_tick).
THEOREM ReportsAccountForFuel == Spec => []ReportAccountsForFuel
<1>1. TicksInv => ReportAccountsForFuel
  BY DEF TicksInv
<1> QED
  BY <1>1, TicksInvariant, PTL

=============================================================================
