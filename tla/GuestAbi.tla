------------------------------ MODULE GuestAbi ------------------------------
(***************************************************************************)
(* The checks the host makes before it touches guest memory.  abi.rs       *)
(* decides whether a guest's (ptr, len, align) names a range the host may  *)
(* use, and whether the bytes in it are a packet; memory.rs runs the range *)
(* check against the memory's present size and keeps, for the report, the  *)
(* gates the request passed and the one it failed.                         *)
(*                                                                         *)
(* Evidence is [passed |-> set of gate names, failed |-> a gate or "none"].*)
(* An AbiError is its variant's name, and "Ok" where the code returns Ok.  *)
(***************************************************************************)
EXTENDS Integers

CONSTANTS U32Max,     \* u32::MAX: pointers and lengths are 0..U32Max
          HeaderLen,  \* PACKET_HEADER_LEN: 16 bytes
          MarkerLen   \* HOST_WRITE_MARKER.len(): 4 bytes

ASSUME AbiAssumption ==
  /\ U32Max \in Nat \ {0}
  /\ HeaderLen \in Nat
  /\ MarkerLen \in Nat \ {0}

U32 == 0 .. U32Max

\* The size of a memory the host has not been given yet (Option::None).
NoMemory == -1

Alignments == {1, 2, 4, 8, 16}

RangeErrors ==
  {"InvalidAlignment", "TooLarge", "Misaligned", "PtrLenOverflow", "OutOfBounds"}

Codes == {"OK", "ERR_BOUNDS", "ERR_ALIGN", "ERR_HEADER", "ERR_CAPABILITY",
          "ERR_ALLOC", "ERR_BUDGET", "ERR_INTERNAL", "ERR_TOO_LARGE",
          "ERR_UTF8", "ERR_TIMEOUT"}

\* AbiError::code: what the import returns to the guest.  MarkerLength is not
\* an AbiError: write_marker_to_guest returns ERR_HEADER and its gate itself.
Code(err) ==
  CASE err = "Ok" -> "OK"
    [] err \in {"InvalidAlignment", "Misaligned"} -> "ERR_ALIGN"
    [] err \in {"PtrLenOverflow", "OutOfBounds"} -> "ERR_BOUNDS"
    [] err = "TooLarge" -> "ERR_TOO_LARGE"
    [] err \in {"MissingMemory", "MemoryRead"} -> "ERR_INTERNAL"
    [] err \in {"PacketTooShort", "BadMagic", "BadVersion",
                "PacketLengthMismatch", "BadChecksum", "MarkerLength"} -> "ERR_HEADER"
    [] err = "InvalidUtf8" -> "ERR_UTF8"
    [] err = "CapabilityDenied" -> "ERR_CAPABILITY"
    [] err = "AllocationTooLarge" -> "ERR_ALLOC"
    [] err = "BudgetExhausted" -> "ERR_BUDGET"

\* AbiError::gate: the gate the report shows as failed.
GateOf(err) ==
  CASE err \in {"InvalidAlignment", "Misaligned"} -> "alignment"
    [] err = "PtrLenOverflow" -> "checked_add"
    [] err = "OutOfBounds" -> "bounds"
    [] err = "TooLarge" -> "max_len"
    [] err = "MissingMemory" -> "memory.export"
    [] err = "MemoryRead" -> "memory.read"
    [] err \in {"PacketTooShort", "BadMagic", "BadVersion",
                "PacketLengthMismatch"} -> "packet.header"
    [] err = "BadChecksum" -> "packet.checksum"
    [] err = "InvalidUtf8" -> "utf8"
    [] err = "CapabilityDenied" -> "capability"
    [] err = "AllocationTooLarge" -> "alloc.cap"
    [] err = "BudgetExhausted" -> "fuel"
    [] err = "MarkerLength" -> "marker.len"

-----------------------------------------------------------------------------
\* Faulty: checked_guest_range with a 32-bit addition that wraps instead of failing.
CheckedGuestRange_Wrapping(ptr, len, align, memorySize, maxLen) ==
  IF align \notin Alignments THEN "InvalidAlignment"
  ELSE IF len > maxLen THEN "TooLarge"
  ELSE IF align > 1 /\ ptr % align # 0 THEN "Misaligned"
  ELSE IF (ptr + len) % (U32Max + 1) > memorySize THEN "OutOfBounds"
  ELSE "Ok"

\* Faulty: a range that ends where the memory ends is out of bounds.
CheckedGuestRange_Strict(ptr, len, align, memorySize, maxLen) ==
  IF align \notin Alignments THEN "InvalidAlignment"
  ELSE IF len > maxLen THEN "TooLarge"
  ELSE IF align > 1 /\ ptr % align # 0 THEN "Misaligned"
  ELSE IF ptr + len > U32Max THEN "PtrLenOverflow"
  ELSE IF ptr + len >= memorySize THEN "OutOfBounds"
  ELSE "Ok"

\* checked_guest_range, in the order of its early returns.  ptr.checked_add
\* overflows when the sum leaves u32, so a range that ends at 2^32 itself is
\* refused whatever the memory's size.
CheckedGuestRange(ptr, len, align, memorySize, maxLen) ==
  IF align \notin Alignments THEN "InvalidAlignment"
  ELSE IF len > maxLen THEN "TooLarge"
  ELSE IF align > 1 /\ ptr % align # 0 THEN "Misaligned"
  ELSE IF ptr + len > U32Max THEN "PtrLenOverflow"
  ELSE IF ptr + len > memorySize THEN "OutOfBounds"
  ELSE "Ok"

\* Faulty: validate_range recording an overflow failure as past checked_add.
RangeEvidence_Overflow(err) ==
  LET failed == IF err = "Ok" THEN "none" ELSE GateOf(err)
  IN [failed |-> failed,
      passed |->
        CASE failed = "none" -> {"max_len", "alignment", "checked_add", "bounds"}
          [] failed \in {"bounds", "checked_add"} ->
               {"max_len", "alignment", "checked_add"}
          [] failed = "alignment" -> {"max_len"}
          [] failed = "max_len" -> {}]

\* validate_range: which gates go into the evidence for each verdict.  The
\* gates passed before a failure are reconstructed from the failed gate.
RangeEvidence(err) ==
  LET failed == IF err = "Ok" THEN "none" ELSE GateOf(err)
  IN [failed |-> failed,
      passed |->
        CASE failed = "none" -> {"max_len", "alignment", "checked_add", "bounds"}
          [] failed = "bounds" -> {"max_len", "alignment", "checked_add"}
          [] failed = "checked_add" -> {"max_len", "alignment"}
          [] failed = "alignment" -> {"max_len"}
          [] failed = "max_len" -> {}]

\* with_guest_bytes and with_guest_bytes_mut up to the closure: the view is
\* taken afresh, so memorySize is the size at this call.  access is the gate
\* of the slice, "memory.read" or "memory.write".  The slice of a validated
\* range always exists and usize holds 64 bits, so the two MemoryRead errors
\* of the code cannot happen.
GuestBytes(memorySize, ptr, len, align, maxLen, access) ==
  IF memorySize = NoMemory
  THEN [err |-> "MissingMemory",
        evidence |-> [passed |-> {}, failed |-> "memory.export"]]
  ELSE LET err == CheckedGuestRange(ptr, len, align, memorySize, maxLen)
           evidence == RangeEvidence(err)
       IN [err |-> err,
           evidence |-> IF err = "Ok"
                        THEN [evidence EXCEPT !.passed = @ \cup {access}]
                        ELSE evidence]

-----------------------------------------------------------------------------
\* What the bytes of a packet say: whether magic, version and checksum are
\* those parse_packet wants, and the body length the header declares.
PacketContents(bodyLens) ==
  [magic: BOOLEAN, version: BOOLEAN, checksum: BOOLEAN, bodyLen: bodyLens]

\* Faulty: parse_packet accepting a body shorter than the slice.
ParsePacket_ShortBody(packet, len) ==
  IF len < HeaderLen THEN "PacketTooShort"
  ELSE IF ~packet.magic THEN "BadMagic"
  ELSE IF ~packet.version THEN "BadVersion"
  ELSE IF packet.bodyLen < len - HeaderLen THEN "PacketLengthMismatch"
  ELSE IF ~packet.checksum THEN "BadChecksum"
  ELSE "Ok"

\* parse_packet on a slice of len bytes.
ParsePacket(packet, len) ==
  IF len < HeaderLen THEN "PacketTooShort"
  ELSE IF ~packet.magic THEN "BadMagic"
  ELSE IF ~packet.version THEN "BadVersion"
  ELSE IF len - HeaderLen # packet.bodyLen THEN "PacketLengthMismatch"
  ELSE IF ~packet.checksum THEN "BadChecksum"
  ELSE "Ok"

-----------------------------------------------------------------------------
\* The rest of an import that touches memory, once the range is settled: on a
\* bad range the import answers with the range's error and evidence; else the
\* closure answers err, having passed the gates in passed.
Judge(range, err, passed) ==
  IF range.err # "Ok" THEN range
  ELSE [err |-> err,
        evidence |-> [passed |-> range.evidence.passed \cup passed,
                      failed |-> IF err = "Ok" THEN "none" ELSE GateOf(err)]]

\* host_accept_packet with validate_packet_from_guest.
PacketOutcome(memorySize, ptr, len, align, maxLen, packet) ==
  LET err == ParsePacket(packet, len)
  IN Judge(GuestBytes(memorySize, ptr, len, align, maxLen, "memory.read"), err,
           IF err = "Ok" THEN {"packet.header", "packet.checksum"} ELSE {})

\* What a capability string is to the policy: its bytes may not be UTF-8, and
\* policy.is_path_allowed compares the whole string with the allowed paths.
CapabilityTexts == {"allowed", "not_allowed", "not_utf8"}

\* host_read_cap with validate_capability_from_guest; the alignment is 1.
CapabilityOutcome(memorySize, ptr, len, maxLen, text) ==
  Judge(GuestBytes(memorySize, ptr, len, 1, maxLen, "memory.read"),
        CASE text = "allowed" -> "Ok"
          [] text = "not_allowed" -> "CapabilityDenied"
          [] text = "not_utf8" -> "InvalidUtf8",
        CASE text = "allowed" -> {"utf8", "capability"}
          [] text = "not_allowed" -> {"utf8"}
          [] text = "not_utf8" -> {})

\* host_write_marker with write_marker_to_guest: the range check allows any
\* length up to the marker's, the closure only the marker's own.
MarkerOutcome(memorySize, ptr, len, align) ==
  Judge(GuestBytes(memorySize, ptr, len, align, MarkerLen, "memory.write"),
        IF len = MarkerLen THEN "Ok" ELSE "MarkerLength",
        IF len = MarkerLen THEN {"marker.write"} ELSE {})
=============================================================================
