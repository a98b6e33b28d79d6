------------------------------ MODULE CaseBatch -----------------------------
(***************************************************************************)
(* What a batch of cases promises, however it is scheduled: every run of a *)
(* case settles once, and the reports come out together, in the order the  *)
(* cases were given, one for each run.  A run whose task was lost has no   *)
(* report of its own; a join error stands for it, after all the others.    *)
(***************************************************************************)
EXTENDS Naturals, Sequences, FiniteSets

CONSTANTS Total,   \* repeat * cases.len(): runs of a case in the batch, in Nat
          Losable  \* runs whose task the scheduler may lose, in 1 .. Total

Runs == 1 .. Total

\* What became of a run: a report that passed() or did not, the report made
\* for a panic, or nothing but a join error.
Outcomes == {"passed", "failed", "panicked", "lost"}

VARIABLES outcome,   \* run -> "pending" or one of Outcomes
          delivered  \* the reports handed to the caller, or NotYet

NotYet == <<"not yet">>

Init ==
  /\ outcome = [i \in Runs |-> "pending"]
  /\ delivered = NotYet

Settle(i) ==
  /\ outcome[i] = "pending"
  /\ \E result \in Outcomes :
       /\ result = "lost" => i \in Losable
       /\ outcome' = [outcome EXCEPT ![i] = result]
  /\ UNCHANGED delivered

KeptRuns == {i \in Runs : outcome[i] # "lost"}
Place(i) == Cardinality({j \in KeptRuns : j <= i})

\* The outcomes in the order of the runs, join errors last.
InOrder ==
  [k \in Runs |-> IF k <= Cardinality(KeptRuns)
                  THEN outcome[CHOOSE i \in KeptRuns : Place(i) = k]
                  ELSE "lost"]

Deliver ==
  /\ delivered = NotYet
  /\ \A i \in Runs : outcome[i] # "pending"
  /\ delivered' = InOrder
  /\ UNCHANGED outcome

Next == Deliver \/ \E i \in Runs : Settle(i)

Spec == Init /\ [][Next]_<<outcome, delivered>>

Delivers == <>(delivered # NotYet)
=============================================================================
