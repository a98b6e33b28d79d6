--------------------------- MODULE GuestAbiCheck ----------------------------
(***************************************************************************)
(* One packet request through the checks of GuestAbi, for every request a  *)
(* guest can make: the range check, the evidence it leaves, then the       *)
(* packet parser on the accepted slice, as in host_accept_packet.  The     *)
(* properties compare the answer with what the range and the packet mean.  *)
(***************************************************************************)
EXTENDS GuestAbi

CONSTANTS Aligns,       \* alignments a guest passes, valid or not
          MemorySizes,  \* sizes of the guest's memory, in bytes
          MaxLens,      \* values of policy.max_packet_len
          BodyLens      \* body lengths a packet header declares

ASSUME CheckAssumption ==
  /\ Aligns \subseteq Nat
  /\ MemorySizes \subseteq 0 .. (U32Max + 1)
  /\ MaxLens \subseteq U32
  /\ BodyLens \subseteq U32

VARIABLES request,  \* the guest's arguments and the host's present state
          err,      \* "pending", then the error of the request or "Ok"
          evidence  \* the gates recorded for it

vars == <<request, err, evidence>>

Requests ==
  [ptr: U32, len: U32, align: Aligns, memorySize: MemorySizes \cup {NoMemory},
   maxLen: MaxLens, packet: PacketContents(BodyLens)]

NoEvidence == [passed |-> {}, failed |-> "none"]

Init ==
  /\ request \in Requests
  /\ err = "pending"
  /\ evidence = NoEvidence

\* host_accept_packet up to its telemetry.
AcceptPacket ==
  /\ err = "pending"
  /\ LET outcome == PacketOutcome(request.memorySize, request.ptr, request.len,
                                  request.align, request.maxLen, request.packet)
     IN err' = outcome.err /\ evidence' = outcome.evidence
  /\ UNCHANGED request

Next == AcceptPacket

Spec == Init /\ [][Next]_vars

-----------------------------------------------------------------------------
\* The addresses a request names, as integers: never wrapped.
Addresses == request.ptr .. (request.ptr + request.len - 1)

ReachedBytes == "memory.read" \in evidence.passed

\* Soundness of checked_guest_range: when the host goes on to take the slice,
\* every address of it lies in the memory, fits u32 and the pointer is aligned.
SliceInMemory ==
  ReachedBytes =>
    /\ request.align \in Alignments /\ request.ptr % request.align = 0
    /\ request.len <= request.maxLen
    /\ Addresses \subseteq U32
    /\ \A a \in Addresses : a < request.memorySize

\* Completeness: a well-formed non-empty request inside the memory is refused
\* only at the very top of a full 4 GiB memory, where the code's end overflows.
NoFalseRangeError ==
  (/\ err \in RangeErrors
   /\ request.align \in Alignments /\ request.ptr % request.align = 0
   /\ request.len \in 1 .. request.maxLen
   /\ \A a \in Addresses : a < request.memorySize)
  => request.ptr + request.len = U32Max + 1

\* An accepted packet's body ends exactly where the accepted range ends, inside
\* the memory: the parser never looks past what the range check covered, and
\* nothing trails the body unseen.
BodyFillsSlice ==
  err = "Ok" =>
    /\ request.ptr + HeaderLen + request.packet.bodyLen
         = request.ptr + request.len
    /\ request.ptr + HeaderLen + request.packet.bodyLen <= request.memorySize
    /\ request.packet.magic /\ request.packet.version /\ request.packet.checksum

\* What each range gate claims when the report shows it as passed.
GateHolds(g) ==
  CASE g = "max_len" -> request.len <= request.maxLen
    [] g = "alignment" ->
         request.align \in Alignments /\ request.ptr % request.align = 0
    [] g = "checked_add" -> request.ptr + request.len <= U32Max
    [] g = "bounds" -> request.ptr + request.len <= request.memorySize
    [] OTHER -> TRUE

\* The evidence of memory.rs is true: a gate shown as passed holds of the
\* request, and a range gate shown as failed does not.  memory.rs reconstructs
\* the passed gates from the failed one, and that reconstruction is right for
\* every alignment but an invalid one, where max_len has not been checked yet
\* and is recorded as passed all the same.
EvidenceTrue ==
  err # "InvalidAlignment" =>
    /\ \A g \in evidence.passed : GateHolds(g)
    /\ evidence.failed \in {"max_len", "alignment", "checked_add", "bounds"} =>
         ~GateHolds(evidence.failed)
=============================================================================
