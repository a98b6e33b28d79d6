---------------------------- MODULE Interception ----------------------------
(***************************************************************************)
(* What the network honeypot promises of one exchange of a guest with a    *)
(* public host: nothing of it leaves unseen.  The name asked for, the      *)
(* connection, the whole request and the mock response go on record in     *)
(* this order, the guest has its response only then, and it does get it.   *)
(***************************************************************************)
EXTENDS Naturals, Sequences

VARIABLES
  recorded, \* the stages of the exchange that are on record
  delivered \* what the guest has got in the end

exchange == <<recorded, delivered>>

Stages == <<"Resolve", "Connect", "Payload", "Mock">>

Init == recorded = {} /\ delivered = "nothing"

Record(i) ==
  /\ Stages[i] \notin recorded
  /\ \A j \in 1 .. i - 1 : Stages[j] \in recorded
  /\ recorded' = recorded \cup {Stages[i]}
  /\ UNCHANGED delivered

Deliver ==
  /\ recorded = {Stages[i] : i \in DOMAIN Stages}
  /\ delivered = "nothing" /\ delivered' = "response"
  /\ UNCHANGED recorded

Next == Deliver \/ \E i \in DOMAIN Stages : Record(i)

Spec == Init /\ [][Next]_exchange /\ WF_exchange(Next)
=============================================================================
