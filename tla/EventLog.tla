------------------------------ MODULE EventLog ------------------------------
(* wasi_sandbox.rs: the bounded event list both honeypots keep. *)
EXTENDS Integers, Sequences

CONSTANT EventCap  \* HONEYPOT_EVENT_CAPACITY

ASSUME EventCapAssumption == EventCap \in Nat \ {0}

\* Faulty: enforce_capacity makes room only once the list is over capacity.
EnforceCapacity_Over(evs) ==
  IF Len(evs) > EventCap
  THEN SubSeq(evs, Len(evs) + 1 - EventCap, Len(evs)) ELSE evs

\* enforce_capacity: room for one more, taken from the front.
EnforceCapacity(evs) ==
  IF Len(evs) >= EventCap
  THEN SubSeq(evs, Len(evs) + 2 - EventCap, Len(evs)) ELSE evs

\* record: what the list holds after one more event.
Recorded(evs, event) == Append(EnforceCapacity(evs), event)

\* What the list ought to hold: the latest events of all there were.
Latest(log) ==
  SubSeq(log, IF Len(log) > EventCap THEN Len(log) - EventCap + 1 ELSE 1, Len(log))
=============================================================================
