--------------------------- MODULE GuestAbiProofs ---------------------------
(***************************************************************************)
(* Proofs about GuestAbiCheck, for every size of the address space, of the *)
(* memory and of the policy's limits.  They rest on what the verdicts of   *)
(* checked_guest_range mean; the inductive invariant, Judged, only says    *)
(* that a judged request holds the outcome of the request it was asked     *)
(* about.                                                                  *)
(***************************************************************************)
EXTENDS GuestAbiCheck, TLAPS

RangeGates == {"max_len", "alignment", "checked_add", "bounds"}

\* checked_guest_range accepts only a range inside the memory, held to the
\* policy's limit, that fits u32 and starts at a multiple of its alignment.
LEMMA RangeSound ==
  ASSUME NEW ptr \in U32, NEW len \in U32, NEW align \in Nat,
         NEW memorySize \in Nat, NEW maxLen \in Nat,
         CheckedGuestRange(ptr, len, align, memorySize, maxLen) = "Ok"
  PROVE  /\ align \in Alignments /\ ptr % align = 0
         /\ len <= maxLen
         /\ ptr + len <= U32Max
         /\ ptr + len <= memorySize
<1>1. /\ align \in Alignments
      /\ align > 1 => ptr % align = 0
      /\ len <= maxLen /\ ptr + len <= U32Max /\ ptr + len <= memorySize
  BY AbiAssumption DEF CheckedGuestRange, U32
<1>2. ptr % align = 0
  BY <1>1 DEF Alignments, U32
<1> QED
  BY <1>1, <1>2

\* The errors of checked_guest_range, and what each says about the request.
LEMMA RangeRefusal ==
  ASSUME NEW ptr \in U32, NEW len \in U32, NEW align \in Nat,
         NEW memorySize \in Nat, NEW maxLen \in Nat,
         NEW verdict,
         verdict = CheckedGuestRange(ptr, len, align, memorySize, maxLen)
  PROVE  /\ verdict \in RangeErrors \cup {"Ok"}
         /\ verdict = "InvalidAlignment" => align \notin Alignments
         /\ verdict # "InvalidAlignment" => align \in Alignments
         /\ verdict = "TooLarge" => len > maxLen
         /\ verdict \notin {"InvalidAlignment", "TooLarge"} => len <= maxLen
         /\ verdict = "Misaligned" => ptr % align # 0
         /\ verdict = "PtrLenOverflow" => ptr + len > U32Max
         /\ verdict = "OutOfBounds" =>
              ptr + len > memorySize /\ ptr + len <= U32Max
         /\ verdict \in {"PtrLenOverflow", "OutOfBounds"} => ptr % align = 0
<1>1. CASE align \notin Alignments
  BY <1>1, AbiAssumption DEF CheckedGuestRange, RangeErrors, U32
<1>2. CASE align \in Alignments /\ len > maxLen
  BY <1>2, AbiAssumption DEF CheckedGuestRange, RangeErrors, U32
<1>3. CASE align \in Alignments /\ ~(len > maxLen) /\ align > 1 /\ ptr % align # 0
  BY <1>3, AbiAssumption DEF CheckedGuestRange, RangeErrors, U32
<1>4. CASE /\ align \in Alignments /\ ~(len > maxLen)
           /\ ~(align > 1 /\ ptr % align # 0)
  <2>1. ptr % align = 0
    BY <1>4 DEF Alignments, U32
  <2> QED
    BY <1>4, <2>1, AbiAssumption DEF CheckedGuestRange, RangeErrors, U32
<1> QED
  BY <1>1, <1>2, <1>3, <1>4

-----------------------------------------------------------------------------
\* The outcome of a request, as the check judges it.
Outcome(r) ==
  PacketOutcome(r.memorySize, r.ptr, r.len, r.align, r.maxLen, r.packet)

Verdict(r) == CheckedGuestRange(r.ptr, r.len, r.align, r.memorySize, r.maxLen)

Judged ==
  /\ request \in Requests
  /\ \/ err = "pending" /\ evidence = NoEvidence
     \/ err = Outcome(request).err /\ evidence = Outcome(request).evidence

\* The fields of a request are in the ranges the lemmas above ask for.
LEMMA RequestFields ==
  ASSUME NEW r \in Requests
  PROVE  /\ r.ptr \in U32 /\ r.len \in U32 /\ r.align \in Nat
         /\ r.maxLen \in Nat
         /\ r.memorySize = NoMemory \/ r.memorySize \in Nat
         /\ r.packet.bodyLen \in Nat
         /\ r.packet.magic \in BOOLEAN /\ r.packet.version \in BOOLEAN
         /\ r.packet.checksum \in BOOLEAN
<1>1. r.packet \in PacketContents(BodyLens)
  BY DEF Requests
<1>2. /\ r.packet.bodyLen \in BodyLens
      /\ r.packet.magic \in BOOLEAN /\ r.packet.version \in BOOLEAN
      /\ r.packet.checksum \in BOOLEAN
  BY <1>1 DEF PacketContents
<1>3. /\ r.ptr \in U32 /\ r.len \in U32 /\ r.align \in Aligns
      /\ r.memorySize \in MemorySizes \cup {NoMemory} /\ r.maxLen \in MaxLens
  BY DEF Requests
<1>4. /\ r.align \in Nat
      /\ r.memorySize = NoMemory \/ r.memorySize \in 0 .. (U32Max + 1)
      /\ r.maxLen \in 0 .. U32Max
      /\ r.packet.bodyLen \in 0 .. U32Max
  BY <1>2, <1>3, CheckAssumption DEF U32
<1> QED
  BY <1>2, <1>3, <1>4, AbiAssumption

\* What parse_packet can answer, and what it takes to be accepted.
LEMMA ParseSound ==
  ASSUME NEW r \in Requests
  PROVE  LET v == ParsePacket(r.packet, r.len)
         IN /\ v \in {"Ok", "PacketTooShort", "BadMagic", "BadVersion",
                      "PacketLengthMismatch", "BadChecksum"}
            /\ v = "Ok" =>
                 /\ r.len = HeaderLen + r.packet.bodyLen
                 /\ r.packet.magic /\ r.packet.version /\ r.packet.checksum
  BY RequestFields, AbiAssumption DEF ParsePacket, U32

\* A request passes the gate of the slice exactly when the range check, made
\* against a memory that is there, accepts it.
LEMMA ReachedMeansAccepted ==
  ASSUME NEW r \in Requests, "memory.read" \in Outcome(r).evidence.passed
  PROVE  r.memorySize # NoMemory /\ Verdict(r) = "Ok"
<1> DEFINE range == GuestBytes(r.memorySize, r.ptr, r.len, r.align, r.maxLen,
                               "memory.read")
<1>1. "memory.read" \in range.evidence.passed
  BY DEF Outcome, PacketOutcome, Judge
<1>2. r.memorySize # NoMemory
  BY <1>1 DEF GuestBytes
<1>3. Verdict(r) \in RangeErrors \cup {"Ok"}
  BY <1>2, RequestFields, RangeRefusal DEF Verdict
<1>4. "memory.read" \notin RangeEvidence(Verdict(r)).passed
  BY <1>3 DEF RangeEvidence, RangeErrors, GateOf
<1>5. Verdict(r) = "Ok"
  BY <1>1, <1>2, <1>4 DEF GuestBytes, Verdict
<1> QED
  BY <1>2, <1>5

\* The request's error is the range's, or the parser's on an accepted range.
LEMMA OutcomeError ==
  ASSUME NEW r \in Requests
  PROVE  Outcome(r).err =
           IF r.memorySize = NoMemory THEN "MissingMemory"
           ELSE IF Verdict(r) # "Ok" THEN Verdict(r)
           ELSE ParsePacket(r.packet, r.len)
  BY DEF Outcome, PacketOutcome, Judge, GuestBytes, Verdict

THEOREM JudgedInvariant == Spec => []Judged
<1>1. Init => Judged
  BY DEF Init, Judged
<1>2. Judged /\ [Next]_vars => Judged'
  BY DEF Judged, Next, AcceptPacket, Outcome, vars
<1> QED
  BY <1>1, <1>2, PTL DEF Spec

-----------------------------------------------------------------------------
\* Whatever a guest asks for, the host takes a slice only of bytes inside the
\* guest's memory (checked_guest_range, with_guest_bytes).
THEOREM SliceAlwaysInMemory == Spec => []SliceInMemory
<1>1. Judged => SliceInMemory
  <2> SUFFICES ASSUME Judged, ReachedBytes PROVE
                 /\ request.align \in Alignments
                 /\ request.ptr % request.align = 0
                 /\ request.len <= request.maxLen
                 /\ Addresses \subseteq U32
                 /\ \A a \in Addresses : a < request.memorySize
    BY DEF SliceInMemory
  <2>1. request \in Requests /\ "memory.read" \in Outcome(request).evidence.passed
    BY DEF Judged, ReachedBytes, NoEvidence
  <2>2. request.memorySize # NoMemory /\ Verdict(request) = "Ok"
    BY <2>1, ReachedMeansAccepted
  <2>3. /\ request.align \in Alignments /\ request.ptr % request.align = 0
        /\ request.len <= request.maxLen
        /\ request.ptr + request.len <= U32Max
        /\ request.ptr + request.len <= request.memorySize
    BY <2>1, <2>2, RequestFields, RangeSound DEF Verdict
  <2>4. Addresses \subseteq U32 /\ \A a \in Addresses : a < request.memorySize
    BY <2>1, <2>2, <2>3, RequestFields, AbiAssumption DEF Addresses, U32
  <2> QED
    BY <2>3, <2>4
<1> QED
  BY <1>1, JudgedInvariant, PTL

\* A request that lies in the memory and keeps the rules is never refused by
\* the range check, but for the range that ends at 2^32.
THEOREM RangeNeverFalselyRefused == Spec => []NoFalseRangeError
<1>1. Judged => NoFalseRangeError
  <2> SUFFICES ASSUME Judged, err \in RangeErrors,
                      request.align \in Alignments,
                      request.ptr % request.align = 0,
                      request.len \in 1 .. request.maxLen,
                      \A a \in Addresses : a < request.memorySize
               PROVE  request.ptr + request.len = U32Max + 1
    BY DEF NoFalseRangeError
  <2>1. request \in Requests /\ err = Outcome(request).err
    BY DEF Judged, RangeErrors
  <2>2. /\ request.ptr \in U32 /\ request.len \in U32 /\ request.align \in Nat
        /\ request.maxLen \in Nat
        /\ request.memorySize = NoMemory \/ request.memorySize \in Nat
    BY <2>1, RequestFields
  <2>3. request.memorySize # NoMemory /\ err = Verdict(request)
    BY <2>1, OutcomeError, ParseSound DEF RangeErrors
  <2>4. request.memorySize \in 0 .. (U32Max + 1)
    BY <2>1, <2>3, CheckAssumption DEF Requests
  <2>5. request.ptr + request.len - 1 < request.memorySize
    BY <2>2 DEF Addresses, U32
  <2>6. request.ptr + request.len <= request.memorySize
    BY <2>2, <2>4, <2>5, AbiAssumption DEF U32
  <2>7. err = "PtrLenOverflow"
    <3>1. /\ err = "InvalidAlignment" => request.align \notin Alignments
          /\ err = "TooLarge" => request.len > request.maxLen
          /\ err = "Misaligned" => request.ptr % request.align # 0
          /\ err = "OutOfBounds" =>
               request.ptr + request.len > request.memorySize
      BY <2>2, <2>3, RangeRefusal DEF Verdict
    <3>2. err # "TooLarge" /\ err # "OutOfBounds"
      BY <2>2, <2>4, <2>6, <3>1 DEF U32
    <3> QED
      BY <3>1, <3>2 DEF RangeErrors
  <2>8. request.ptr + request.len > U32Max
    BY <2>2, <2>3, <2>7, RangeRefusal DEF Verdict
  <2> QED
    BY <2>2, <2>4, <2>6, <2>8, AbiAssumption DEF U32
<1> QED
  BY <1>1, JudgedInvariant, PTL

\* An accepted packet ends where its range ends, inside the memory
\* (validate_packet_from_guest, parse_packet).
THEOREM AcceptedBodyFillsSlice == Spec => []BodyFillsSlice
<1>1. Judged => BodyFillsSlice
  <2> SUFFICES ASSUME Judged, err = "Ok" PROVE
                 /\ request.ptr + HeaderLen + request.packet.bodyLen
                      = request.ptr + request.len
                 /\ request.ptr + HeaderLen + request.packet.bodyLen
                      <= request.memorySize
                 /\ request.packet.magic /\ request.packet.version
                 /\ request.packet.checksum
    BY DEF BodyFillsSlice
  <2>1. request \in Requests /\ Outcome(request).err = "Ok"
    BY DEF Judged
  <2>2. /\ request.memorySize # NoMemory
        /\ Verdict(request) = "Ok"
        /\ ParsePacket(request.packet, request.len) = "Ok"
    BY <2>1, OutcomeError
  <2>3. request.ptr + request.len <= request.memorySize
    BY <2>1, <2>2, RequestFields, RangeSound DEF Verdict
  <2>4. /\ request.len = HeaderLen + request.packet.bodyLen
        /\ request.packet.magic /\ request.packet.version
        /\ request.packet.checksum
    BY <2>1, <2>2, ParseSound
  <2> QED
    BY <2>1, <2>3, <2>4, RequestFields, AbiAssumption DEF U32
<1> QED
  BY <1>1, JudgedInvariant, PTL

\* The range gates of an import's evidence are those validate_range recorded
\* for its verdict, whatever the parser answers afterwards.
LEMMA RangeGatesOfOutcome ==
  ASSUME NEW r \in Requests, NEW g \in RangeGates
  PROVE  /\ g \in Outcome(r).evidence.passed =>
              r.memorySize # NoMemory /\ g \in RangeEvidence(Verdict(r)).passed
         /\ g = Outcome(r).evidence.failed =>
              /\ r.memorySize # NoMemory /\ Verdict(r) # "Ok"
              /\ g = GateOf(Verdict(r))
<1> DEFINE range == GuestBytes(r.memorySize, r.ptr, r.len, r.align, r.maxLen,
                               "memory.read")
           parsed == ParsePacket(r.packet, r.len)
<1>1. CASE r.memorySize = NoMemory
  <2>1. /\ range.err = "MissingMemory"
        /\ range.evidence.passed = {} /\ range.evidence.failed = "memory.export"
    BY <1>1 DEF GuestBytes
  <2> QED
    BY <2>1 DEF Outcome, PacketOutcome, Judge, RangeGates
<1>2. CASE r.memorySize # NoMemory /\ Verdict(r) # "Ok"
  <2>1. /\ range.err = Verdict(r)
        /\ range.evidence = RangeEvidence(Verdict(r))
    BY <1>2 DEF GuestBytes, Verdict
  <2>2. Outcome(r) = range
    BY <1>2, <2>1 DEF Outcome, PacketOutcome, Judge
  <2>3. RangeEvidence(Verdict(r)).failed = GateOf(Verdict(r))
    BY <1>2 DEF RangeEvidence
  <2> QED
    BY <1>2, <2>1, <2>2, <2>3
<1>3. CASE r.memorySize # NoMemory /\ Verdict(r) = "Ok"
  <2>1. RangeEvidence("Ok").passed = RangeGates
    BY DEF RangeEvidence, RangeGates
  <2>2. range.err = "Ok"
    BY <1>3 DEF GuestBytes, Verdict
  <2>3. Outcome(r).evidence.failed =
          IF parsed = "Ok" THEN "none" ELSE GateOf(parsed)
    BY <2>2 DEF Outcome, PacketOutcome, Judge
  <2>4. Outcome(r).evidence.failed \in {"none", "packet.header", "packet.checksum"}
    BY <2>3, ParseSound DEF GateOf
  <2> QED
    BY <1>3, <2>1, <2>4 DEF RangeGates
<1> QED
  BY <1>1, <1>2, <1>3

\* The gates the report shows are true of the request, but for an invalid
\* alignment (validate_range, which reconstructs them from the error).
THEOREM EvidenceAlwaysTrue == Spec => []EvidenceTrue
<1>1. Judged => EvidenceTrue
  <2> SUFFICES ASSUME Judged, err # "InvalidAlignment", evidence # NoEvidence
               PROVE
                 /\ \A g \in evidence.passed : GateHolds(g)
                 /\ evidence.failed \in RangeGates => ~GateHolds(evidence.failed)
    BY DEF EvidenceTrue, NoEvidence, RangeGates
  <2>1. /\ request \in Requests
        /\ err = Outcome(request).err /\ evidence = Outcome(request).evidence
    BY DEF Judged
  <2>2. /\ request.ptr \in U32 /\ request.len \in U32 /\ request.align \in Nat
        /\ request.maxLen \in Nat
        /\ request.memorySize = NoMemory \/ request.memorySize \in Nat
    BY <2>1, RequestFields
  <2> DEFINE v == Verdict(request)
  <2>3. ASSUME request.memorySize # NoMemory
        PROVE  /\ v \in RangeErrors \cup {"Ok"}
               /\ v # "InvalidAlignment" /\ request.align \in Alignments
               /\ v = "TooLarge" => request.len > request.maxLen
               /\ v # "TooLarge" => request.len <= request.maxLen
               /\ v = "Misaligned" => request.ptr % request.align # 0
               /\ v \notin {"TooLarge", "Misaligned"} =>
                    request.ptr % request.align = 0
               /\ v = "PtrLenOverflow" => request.ptr + request.len > U32Max
               /\ v \in {"OutOfBounds", "Ok"} =>
                    request.ptr + request.len <= U32Max
               /\ v = "OutOfBounds" =>
                    request.ptr + request.len > request.memorySize
               /\ v = "Ok" => request.ptr + request.len <= request.memorySize
    <3>1. v # "InvalidAlignment"
      BY <2>1, <2>3, OutcomeError
    <3>2. v = "Ok" =>
            /\ request.ptr % request.align = 0
            /\ request.ptr + request.len <= U32Max
            /\ request.ptr + request.len <= request.memorySize
      BY <2>2, <2>3, RangeSound DEF Verdict
    <3>3. /\ v \in RangeErrors \cup {"Ok"}
          /\ v # "InvalidAlignment" => request.align \in Alignments
          /\ v = "TooLarge" => request.len > request.maxLen
          /\ v \notin {"InvalidAlignment", "TooLarge"} =>
               request.len <= request.maxLen
          /\ v = "Misaligned" => request.ptr % request.align # 0
          /\ v = "PtrLenOverflow" => request.ptr + request.len > U32Max
          /\ v = "OutOfBounds" => /\ request.ptr + request.len > request.memorySize
                                  /\ request.ptr + request.len <= U32Max
          /\ v \in {"PtrLenOverflow", "OutOfBounds"} =>
               request.ptr % request.align = 0
      BY <2>2, <2>3, RangeRefusal DEF Verdict
    <3> QED
      BY <3>1, <3>2, <3>3 DEF RangeErrors
  <2>4. ASSUME NEW g \in evidence.passed PROVE GateHolds(g)
    <3>1. CASE g \notin RangeGates
      BY <3>1 DEF GateHolds, RangeGates
    <3>2. CASE g \in RangeGates
      <4>1. request.memorySize # NoMemory /\ g \in RangeEvidence(v).passed
        BY <2>1, <2>4, <3>2, RangeGatesOfOutcome
      <4> QED
        BY <2>3, <3>2, <4>1
           DEF GateHolds, RangeGates, RangeEvidence, RangeErrors, GateOf
    <3> QED
      BY <3>1, <3>2
  <2>5. ASSUME evidence.failed \in RangeGates PROVE ~GateHolds(evidence.failed)
    <3>1. /\ request.memorySize # NoMemory /\ v # "Ok"
          /\ evidence.failed = GateOf(v)
      BY <2>1, <2>5, RangeGatesOfOutcome
    <3>2. v \in {"TooLarge", "Misaligned", "PtrLenOverflow", "OutOfBounds"}
      BY <2>3, <3>1 DEF RangeErrors
    <3>3. CASE v = "Misaligned"
      BY <2>3, <3>1, <3>3 DEF GateHolds, GateOf
    <3>4. CASE v = "TooLarge"
      BY <2>2, <2>3, <3>1, <3>4 DEF GateHolds, GateOf, U32
    <3>5. CASE v = "PtrLenOverflow"
      BY <2>2, <2>3, <3>1, <3>5, AbiAssumption DEF GateHolds, GateOf, U32
    <3>6. CASE v = "OutOfBounds"
      BY <2>2, <2>3, <3>1, <3>6 DEF GateHolds, GateOf, U32
    <3> QED
      BY <3>2, <3>3, <3>4, <3>5, <3>6
  <2> QED
    BY <2>4, <2>5
<1> QED
  BY <1>1, JudgedInvariant, PTL
=============================================================================
