------------------------- MODULE AsyncRunnerProofs --------------------------
(***************************************************************************)
(* Proofs about AsyncRunner for any number of cases, repeats and threads.  *)
(* First what the stable sort of Collate does to any sequence of reports;  *)
(* then the inductive invariant, part by part; then the three invariants   *)
(* the batch run checks and the safety refinement of CaseBatch.            *)
(***************************************************************************)
EXTENDS AsyncRunner, FiniteSetTheorems, TLAPS

-----------------------------------------------------------------------------
(* The sort. *)

\* The pairs sorted before a pair do not include it, so its rank is a position.
LEMMA RankInDomain ==
  ASSUME NEW V, NEW rs \in Seq(Nat \X V), NEW a \in DOMAIN rs
  PROVE  Rank(rs, a) \in DOMAIN rs
<1> DEFINE D == DOMAIN rs
           before == {b \in D : Before(rs, b, a)}
<1>1. D = 1 .. Len(rs) /\ Len(rs) \in Nat
  OBVIOUS
<1>2. IsFiniteSet(D) /\ Cardinality(D) = Len(rs)
  <2>1. /\ IsFiniteSet(1 .. Len(rs))
        /\ Cardinality(1 .. Len(rs)) =
             IF 1 > Len(rs) THEN 0 ELSE Len(rs) - 1 + 1
    BY <1>1, FS_Interval
  <2> QED
    BY <1>1, <2>1
<1>3. IsFiniteSet(D \ {a}) /\ Cardinality(D \ {a}) = Len(rs) - 1
  BY <1>2, FS_RemoveElement
<1>4. rs[a][1] \in Nat
  BY <1>1
<1>5. before \in SUBSET (D \ {a})
  BY <1>1, <1>4 DEF Before
<1>6. IsFiniteSet(before) /\ Cardinality(before) <= Len(rs) - 1
  BY <1>3, <1>5, FS_Subset
<1>7. Cardinality(before) \in Nat
  BY <1>6, FS_CardinalityType
<1> QED
  BY <1>1, <1>6, <1>7 DEF Rank

\* A pair that sorts before another has the smaller rank.
LEMMA RankMonotone ==
  ASSUME NEW V, NEW rs \in Seq(Nat \X V),
         NEW a \in DOMAIN rs, NEW b \in DOMAIN rs, Before(rs, a, b)
  PROVE  Rank(rs, a) < Rank(rs, b)
<1> DEFINE D == DOMAIN rs
           beforeA == {c \in D : Before(rs, c, a)}
           beforeB == {c \in D : Before(rs, c, b)}
<1>1. D = 1 .. Len(rs) /\ Len(rs) \in Nat /\ IsFiniteSet(D)
  BY FS_Interval
<1>2. \A c \in D : rs[c][1] \in Nat
  BY <1>1
<1>3. beforeA \in SUBSET beforeB
  BY <1>1, <1>2 DEF Before
<1>4. a \in beforeB /\ a \notin beforeA
  BY <1>1, <1>2 DEF Before
<1>5. IsFiniteSet(beforeB) /\ beforeB \in SUBSET D
  BY <1>1, FS_Subset
<1>6. IsFiniteSet(beforeA) /\ Cardinality(beforeA) <= Cardinality(beforeB)
      /\ Cardinality(beforeA) # Cardinality(beforeB)
  BY <1>3, <1>4, <1>5, FS_Subset
<1>7. Cardinality(beforeA) \in Nat /\ Cardinality(beforeB) \in Nat
  BY <1>5, <1>6, FS_CardinalityType
<1> QED
  BY <1>6, <1>7 DEF Rank

\* The ranks are a permutation of the positions: no report is dropped by the
\* sort and none appears twice.
LEMMA RankBijective ==
  ASSUME NEW V, NEW rs \in Seq(Nat \X V)
  PROVE  /\ \A a, b \in DOMAIN rs : Rank(rs, a) = Rank(rs, b) => a = b
         /\ \A k \in DOMAIN rs : \E a \in DOMAIN rs : Rank(rs, a) = k
<1> DEFINE D == DOMAIN rs
           rank == [a \in D |-> Rank(rs, a)]
<1>1. D = 1 .. Len(rs) /\ Len(rs) \in Nat /\ IsFiniteSet(D)
  BY FS_Interval
<1>2. ASSUME NEW a \in D, NEW b \in D, a # b
      PROVE  Rank(rs, a) # Rank(rs, b)
  <2>1. rs[a][1] \in Nat /\ rs[b][1] \in Nat /\ a \in Nat /\ b \in Nat
    BY <1>1
  <2>2. Before(rs, a, b) \/ Before(rs, b, a)
    BY <1>2, <2>1 DEF Before
  <2>3. Rank(rs, a) < Rank(rs, b) \/ Rank(rs, b) < Rank(rs, a)
    BY <2>2, RankMonotone
  <2>4. Rank(rs, a) \in D /\ Rank(rs, b) \in D
    BY RankInDomain
  <2> QED
    BY <1>1, <2>3, <2>4
<1>3. rank \in [D -> D]
  BY RankInDomain
<1>4. rank \in Injection(D, D)
  BY <1>2, <1>3 DEF Injection, IsInjective
<1>5. rank \in Surjection(D, D)
  BY <1>1, <1>4, FS_Injection
<1> QED
  BY <1>2, <1>5 DEF Surjection

\* What Collate puts at a pair's rank is that pair's report, and every place
\* is some pair's rank.
LEMMA CollateRanked ==
  ASSUME NEW V, NEW rs \in Seq(Nat \X V)
  PROVE  /\ DOMAIN Collate(rs) = DOMAIN rs
         /\ \A a \in DOMAIN rs : /\ Rank(rs, a) \in DOMAIN rs
                                 /\ Collate(rs)[Rank(rs, a)] = rs[a][2]
         /\ \A k \in DOMAIN rs : \E a \in DOMAIN rs :
              Rank(rs, a) = k /\ Collate(rs)[k] = rs[a][2]
<1>1. ASSUME NEW a \in DOMAIN rs
      PROVE  Collate(rs)[Rank(rs, a)] = rs[a][2]
  <2>1. Rank(rs, a) \in DOMAIN rs
    BY RankInDomain
  <2>2. (CHOOSE b \in DOMAIN rs : Rank(rs, b) = Rank(rs, a)) = a
    BY RankBijective
  <2> QED
    BY <2>1, <2>2 DEF Collate
<1> QED
  BY <1>1, RankInDomain, RankBijective DEF Collate

-----------------------------------------------------------------------------
(* The inductive invariant. *)

Joined == {i \in Tasks : task[i] = "joined"}

\* What join_next hands over for a task.
Reported(i) == IF outcome[i] = "lost" THEN <<LastIndex, "lost">>
                                      ELSE <<i, outcome[i]>>

\* Tasks are spawned in order, and have an outcome once they finish.
TaskInv ==
  \A i \in Tasks :
    /\ task[i] = "none" <=> i > spawned
    /\ task[i] \in {"none", "running", "panicked"} <=> outcome[i] = "pending"

\* The caller spawns only when there is room and joins only when there is a
\* task; it leaves the drain loop only when none is left.
PoolInv ==
  /\ Cardinality(InFlight) <= MaxInFlight
  /\ pc = "spawn" => Cardinality(InFlight) < MaxInFlight
  /\ pc = "join" => InFlight # {}
  /\ pc \in {"drain", "emit", "exit"} => spawned = Total
  /\ pc \in {"emit", "exit"} => InFlight = {}

\* The reports held are those of the joined tasks, one each; only the reports
\* of lost tasks share an index.
ReportsInv ==
  /\ Len(reports) = Cardinality(Joined)
  /\ \A i \in Joined : \E a \in DOMAIN reports : reports[a] = Reported(i)
  /\ \A a \in DOMAIN reports : \E i \in Joined : reports[a] = Reported(i)
  /\ \A a, b \in DOMAIN reports :
       a # b /\ reports[a][1] = reports[b][1] => reports[a][1] = LastIndex

\* What was delivered is what the caller sorted, and an exit code of 0 was
\* computed from it.
DeliveredInv ==
  /\ pc \in {"spawn", "join", "drain"} => delivered = NotYet
  /\ pc \in {"emit", "exit"} => delivered = Collate(reports)
  /\ exitCode = 0 => pc = "exit" /\ \A k \in DOMAIN delivered : ~ Bad(delivered[k])

Inv == TypeOK /\ TaskInv /\ PoolInv /\ ReportsInv /\ DeliveredInv

LEMMA ConstantTypes ==
  /\ Total \in Nat /\ Tasks = 1 .. Total
  /\ LastIndex \in Nat /\ LastIndex \notin Tasks /\ Losable \subseteq Tasks
  /\ MaxInFlight \in Nat \ {0}
  /\ IsFiniteSet(Tasks) /\ Cardinality(Tasks) = Total
<1>1. Total \in Nat
  <2>1. \A m, n \in Nat : m * n \in Nat
    OBVIOUS
  <2> QED
    BY <2>1, AsyncAssumption DEF Total
<1>2. IsFiniteSet(Tasks) /\ Cardinality(Tasks) = Total
  <2>1. /\ IsFiniteSet(1 .. Total)
        /\ Cardinality(1 .. Total) = IF 1 > Total THEN 0 ELSE Total - 1 + 1
    BY <1>1, FS_Interval
  <2> QED
    BY <1>1, <2>1 DEF Tasks
<1>3. MaxInFlight \in Nat \ {0}
  <2>1. Parallelism \in Nat /\ MaxInFlightCases \in Nat \ {0}
    BY AsyncAssumption
  <2> QED
    BY <2>1 DEF MaxInFlight
<1> QED
  BY <1>1, <1>2, <1>3, AsyncAssumption DEF Tasks, LastIndex

LEMMA ReportedType ==
  ASSUME NEW i \in Tasks, outcome[i] \in Batch!Outcomes
  PROVE  Reported(i) \in (1 .. LastIndex) \X Batch!Outcomes
BY ConstantTypes DEF Reported, LastIndex, Batch!Outcomes

\* The actions of the tasks, which leave the caller alone.
TaskStep == \E i \in Tasks : CaseEnds(i) \/ ReportPanic(i)

\* One task ends or panics, and the caller is left alone.
LEMMA TaskStepEffect ==
  ASSUME TypeOK, TaskInv, TaskStep
  PROVE  /\ UNCHANGED <<pc, spawned, reports, delivered, exitCode>>
         /\ \E i \in Tasks :
              /\ task[i] \in {"running", "panicked"} /\ outcome[i] = "pending"
              /\ \/ /\ task' = [task EXCEPT ![i] = "finished"]
                    /\ \E result \in Batch!Outcomes :
                         /\ result = "lost" => i \in Losable
                         /\ outcome' = [outcome EXCEPT ![i] = result]
                 \/ /\ task' = [task EXCEPT ![i] = "panicked"]
                    /\ UNCHANGED outcome
<1>1. PICK i \in Tasks : CaseEnds(i) \/ ReportPanic(i)
  BY DEF TaskStep
<1>2. CASE CaseReports(i)
  BY <1>2 DEF CaseReports, TaskInv, Batch!Outcomes
<1>3. CASE CasePanics(i)
  BY <1>3 DEF CasePanics, TaskInv
<1>4. CASE TaskLost(i)
  BY <1>4 DEF TaskLost, TaskInv, Batch!Outcomes
<1>5. CASE ReportPanic(i)
  BY <1>5 DEF ReportPanic, TaskInv, Batch!Outcomes
<1> QED
  BY <1>1, <1>2, <1>3, <1>4, <1>5 DEF CaseEnds

\* Types, and what task and outcome say of one another, are kept.
LEMMA TypeAndTaskStep ==
  ASSUME TypeOK, TaskInv, [Next]_vars
  PROVE  TypeOK' /\ TaskInv'
<1> USE ConstantTypes DEF TypeOK, TaskInv
<1>1. CASE Spawn
  BY <1>1 DEF Spawn
<1>2. CASE AllSpawned
  BY <1>2 DEF AllSpawned
<1>3. CASE ReturnReports
  BY <1>3 DEF ReturnReports
<1>4. CASE Emit
  BY <1>4 DEF Emit
<1>5. ASSUME NEW i \in Tasks, JoinNext(i)
      PROVE  TypeOK' /\ TaskInv'
  <2>1. outcome[i] \in Batch!Outcomes
    BY <1>5 DEF JoinNext, Joinable
  <2>2. Reported(i) \in (1 .. LastIndex) \X Batch!Outcomes
    BY <2>1, ReportedType
  <2>3. reports' = Append(reports, Reported(i))
    BY <1>5 DEF JoinNext, PushJoined, Reported
  <2>4. reports' \in Seq((1 .. LastIndex) \X Batch!Outcomes)
    BY <2>2, <2>3
  <2> QED
    BY <1>5, <2>4 DEF JoinNext, Joinable
<1>6. CASE TaskStep
  <2>1. PICK i \in Tasks :
          /\ task[i] \in {"running", "panicked"} /\ outcome[i] = "pending"
          /\ \/ /\ task' = [task EXCEPT ![i] = "finished"]
                /\ \E result \in Batch!Outcomes :
                     outcome' = [outcome EXCEPT ![i] = result]
             \/ /\ task' = [task EXCEPT ![i] = "panicked"]
                /\ UNCHANGED outcome
    BY <1>6, TaskStepEffect
  <2>2. "pending" \notin Batch!Outcomes
    BY DEF Batch!Outcomes
  <2> QED
    BY <1>6, <2>1, <2>2, TaskStepEffect
<1>7. CASE UNCHANGED vars
  BY <1>7 DEF vars
<1> QED
  BY <1>1, <1>2, <1>3, <1>4, <1>5, <1>6, <1>7 DEF Next, Caller, TaskStep

LEMMA TypeAndTaskInit == Init => TypeOK /\ TaskInv
BY ConstantTypes DEF Init, TypeOK, TaskInv, Batch!Outcomes

\* How each kind of step changes the two sets that are counted.
LEMMA CountedSets ==
  ASSUME TypeOK, TaskInv
  PROVE  /\ IsFiniteSet(InFlight) /\ Cardinality(InFlight) \in Nat
         /\ IsFiniteSet(Joined) /\ Cardinality(Joined) \in Nat
         /\ Spawn => /\ Joined' = Joined
                     /\ InFlight' = InFlight \cup {spawned + 1}
                     /\ Cardinality(InFlight') = Cardinality(InFlight) + 1
         /\ \A i \in Tasks : JoinNext(i) =>
              /\ InFlight' = InFlight \ {i} /\ i \in InFlight
              /\ Cardinality(InFlight') = Cardinality(InFlight) - 1
              /\ Joined' = Joined \cup {i} /\ i \notin Joined
              /\ Cardinality(Joined') = Cardinality(Joined) + 1
         /\ TaskStep => InFlight' = InFlight /\ Joined' = Joined
         /\ task' = task => InFlight' = InFlight /\ Joined' = Joined
<1>1. IsFiniteSet(InFlight) /\ IsFiniteSet(Joined)
  BY ConstantTypes, FS_Subset DEF InFlight, Joined
<1>2. Cardinality(InFlight) \in Nat /\ Cardinality(Joined) \in Nat
  BY <1>1, FS_CardinalityType
<1>3. ASSUME Spawn
      PROVE  /\ Joined' = Joined
             /\ InFlight' = InFlight \cup {spawned + 1}
             /\ Cardinality(InFlight') = Cardinality(InFlight) + 1
  <2>1. spawned + 1 \in Tasks /\ task[spawned + 1] = "none"
    BY <1>3, ConstantTypes DEF Spawn, TypeOK, TaskInv
  <2>2. /\ Joined' = Joined
        /\ InFlight' = InFlight \cup {spawned + 1} /\ spawned + 1 \notin InFlight
    BY <1>3, <2>1 DEF Spawn, TypeOK, InFlight, Joined
  <2> QED
    BY <1>1, <2>1, <2>2, FS_AddElement
<1>4. ASSUME NEW i \in Tasks, JoinNext(i)
      PROVE  /\ InFlight' = InFlight \ {i} /\ i \in InFlight
             /\ Cardinality(InFlight') = Cardinality(InFlight) - 1
             /\ Joined' = Joined \cup {i} /\ i \notin Joined
             /\ Cardinality(Joined') = Cardinality(Joined) + 1
  <2>1. /\ InFlight' = InFlight \ {i} /\ i \in InFlight
        /\ Joined' = Joined \cup {i} /\ i \notin Joined
    BY <1>4 DEF JoinNext, Joinable, TypeOK, InFlight, Joined
  <2> QED
    BY <1>1, <2>1, FS_AddElement, FS_RemoveElement
<1>5. ASSUME TaskStep
      PROVE  InFlight' = InFlight /\ Joined' = Joined
  <2>1. PICK i \in Tasks :
          /\ task[i] \in {"running", "panicked"}
          /\ \/ task' = [task EXCEPT ![i] = "finished"]
             \/ task' = [task EXCEPT ![i] = "panicked"]
    BY <1>5, TaskStepEffect
  <2> QED
    BY <2>1 DEF TypeOK, InFlight, Joined
<1>6. task' = task => InFlight' = InFlight /\ Joined' = Joined
  BY DEF InFlight, Joined
<1> QED
  BY <1>1, <1>2, <1>3, <1>4, <1>5, <1>6

\* The bound of the pool is kept.
LEMMA PoolStep ==
  ASSUME TypeOK, TaskInv, PoolInv, [Next]_vars
  PROVE  PoolInv'
<1> USE CountedSets, ConstantTypes DEF PoolInv
<1>1. CASE Spawn
  <2>1. /\ pc' = IF PoolFull(Cardinality(InFlight) + 1) THEN "join" ELSE "spawn"
        /\ pc = "spawn"
    BY <1>1 DEF Spawn
  <2>2. Cardinality(InFlight') = Cardinality(InFlight) + 1
    BY <1>1
  <2>3. InFlight' # {}
    BY <1>1
  <2>4. MaxInFlight' = MaxInFlight
    BY DEF MaxInFlight
  <2>5. CASE PoolFull(Cardinality(InFlight) + 1)
    BY <2>1, <2>2, <2>3, <2>4, <2>5 DEF PoolFull
  <2>6. CASE ~ PoolFull(Cardinality(InFlight) + 1)
    BY <2>1, <2>2, <2>4, <2>6 DEF PoolFull
  <2> QED
    BY <2>5, <2>6
<1>2. CASE AllSpawned
  BY <1>2 DEF AllSpawned
<1>3. CASE ReturnReports
  BY <1>3 DEF ReturnReports
<1>4. CASE Emit
  BY <1>4 DEF Emit
<1>5. ASSUME NEW i \in Tasks, JoinNext(i)
      PROVE  PoolInv'
  <2>1. /\ <<pc, pc'>> \in {<<"join", "spawn">>, <<"drain", "drain">>}
        /\ spawned' = spawned
    BY <1>5 DEF JoinNext
  <2>2. Cardinality(InFlight') = Cardinality(InFlight) - 1
    BY <1>5
  <2>3. Cardinality(InFlight) \in Nat /\ MaxInFlight \in Nat
    OBVIOUS
  <2> QED
    BY <2>1, <2>2, <2>3
<1>6. CASE TaskStep
  BY <1>6, TaskStepEffect
<1>7. CASE UNCHANGED vars
  BY <1>7 DEF vars
<1> QED
  BY <1>1, <1>2, <1>3, <1>4, <1>5, <1>6, <1>7 DEF Next, Caller, TaskStep

\* One report for each joined task, its own, is kept.
LEMMA ReportsStep ==
  ASSUME TypeOK, TaskInv, ReportsInv, [Next]_vars
  PROVE  ReportsInv'
<1> USE CountedSets
<1>1. ASSUME reports' = reports, Joined' = Joined,
             \A i \in Joined : outcome'[i] = outcome[i]
      PROVE  ReportsInv'
  <2>1. \A i \in Joined : Reported(i)' = Reported(i)
    BY <1>1 DEF Reported, LastIndex
  <2> QED
    BY <1>1, <2>1 DEF ReportsInv, LastIndex
<1>2. CASE Spawn
  BY <1>1, <1>2 DEF Spawn
<1>3. CASE AllSpawned
  BY <1>1, <1>3 DEF AllSpawned
<1>4. CASE ReturnReports
  BY <1>1, <1>4 DEF ReturnReports
<1>5. CASE Emit
  BY <1>1, <1>5 DEF Emit
<1>6. ASSUME NEW i \in Tasks, JoinNext(i)
      PROVE  ReportsInv'
  <2> DEFINE n == Len(reports) + 1
  <2>1. /\ reports' = Append(reports, Reported(i)) /\ outcome' = outcome
        /\ outcome[i] \in Batch!Outcomes
    BY <1>6 DEF JoinNext, PushJoined, Reported, Joinable, TaskInv, TypeOK
  <2>2. \A j : Reported(j)' = Reported(j)
    BY <2>1 DEF Reported, LastIndex
  <2>3. Reported(i) \in (1 .. LastIndex) \X Batch!Outcomes
    BY <2>1, ReportedType
  <2>4. /\ Len(reports) \in Nat /\ Len(reports') = n
        /\ DOMAIN reports' = DOMAIN reports \cup {n} /\ n \notin DOMAIN reports
        /\ \A a \in DOMAIN reports : reports'[a] = reports[a]
        /\ reports'[n] = Reported(i)
    BY <2>1, <2>3 DEF TypeOK
  <2>5. Joined' = Joined \cup {i} /\ i \notin Joined
        /\ Cardinality(Joined') = Cardinality(Joined) + 1
    BY <1>6
  <2>6. \A a \in DOMAIN reports : reports[a][1] = Reported(i)[1]
                                    => Reported(i)[1] = LastIndex
    <3> SUFFICES ASSUME NEW a \in DOMAIN reports,
                        reports[a][1] = Reported(i)[1],
                        Reported(i)[1] # LastIndex
                 PROVE  FALSE
      OBVIOUS
    <3>1. PICK j \in Joined : reports[a] = Reported(j)
      BY DEF ReportsInv
    <3>2. Reported(i)[1] = i
      BY DEF Reported
    <3>3. Reported(j)[1] \in {j, LastIndex}
      BY DEF Reported
    <3>4. j = i
      BY <3>1, <3>2, <3>3
    <3> QED
      BY <2>5, <3>4
  <2> QED
    BY <2>2, <2>4, <2>5, <2>6 DEF ReportsInv, LastIndex
<1>7. CASE TaskStep
  <2>1. \A i \in Joined : outcome'[i] = outcome[i]
    BY <1>7, TaskStepEffect DEF Joined, TypeOK
  <2> QED
    BY <1>1, <1>7, <2>1, TaskStepEffect
<1>8. CASE UNCHANGED vars
  BY <1>1, <1>8 DEF vars
<1> QED
  BY <1>2, <1>3, <1>4, <1>5, <1>6, <1>7, <1>8 DEF Next, Caller, TaskStep

\* What was delivered stays the sorted reports.
LEMMA DeliveredStep ==
  ASSUME TypeOK, TaskInv, DeliveredInv, [Next]_vars
  PROVE  DeliveredInv'
<1> USE DEF DeliveredInv, TypeOK
<1>0. /\ NotYet' = NotYet
      /\ reports' = reports => Collate(reports)' = Collate(reports)
  BY DEF NotYet, Batch!NotYet
<1>1. CASE Spawn
  BY <1>0, <1>1 DEF Spawn
<1>2. CASE AllSpawned
  BY <1>0, <1>2 DEF AllSpawned
<1>3. CASE ReturnReports
  BY <1>0, <1>3 DEF ReturnReports
<1>4. CASE Emit
  BY <1>0, <1>4 DEF Emit, Bad
<1>5. ASSUME NEW i \in Tasks, JoinNext(i)
      PROVE  DeliveredInv'
  BY <1>0, <1>5 DEF JoinNext
<1>6. CASE TaskStep
  BY <1>0, <1>6, TaskStepEffect DEF Bad
<1>7. CASE UNCHANGED vars
  BY <1>0, <1>7 DEF vars, Bad
<1> QED
  BY <1>1, <1>2, <1>3, <1>4, <1>5, <1>6, <1>7 DEF Next, Caller, TaskStep

\* The initial state of the two parts that count.
LEMMA InvariantInit == Init => Inv
<1> SUFFICES ASSUME Init PROVE Inv
  OBVIOUS
<1>1. TypeOK /\ TaskInv
  BY TypeAndTaskInit
<1>2. InFlight = {} /\ Joined = {}
  BY DEF Init, InFlight, Joined
<1>3. Cardinality({}) = 0
  BY FS_EmptySet
<1>4. PoolInv
  BY <1>2, <1>3, ConstantTypes DEF PoolInv, Init
<1>5. ReportsInv
  BY <1>2, <1>3 DEF ReportsInv, Init
<1>6. DeliveredInv
  BY DEF DeliveredInv, Init
<1> QED
  BY <1>1, <1>4, <1>5, <1>6 DEF Inv

\* Every reachable state is well-typed, counts its tasks and its pool right,
\* and holds in each report what became of the run it is for.
THEOREM Invariant == Spec => []Inv
<1>1. Inv /\ [Next]_vars => Inv'
  BY TypeAndTaskStep, PoolStep, ReportsStep, DeliveredStep DEF Inv
<1> QED
  BY <1>1, InvariantInit, PTL DEF Spec

\* Once the caller has left the drain loop every task has been joined.
LEMMA AllJoined ==
  ASSUME Inv, spawned = Total, InFlight = {}
  PROVE  Joined = Tasks /\ Len(reports) = Total
<1>1. \A i \in Tasks : task[i] \notin {"none", "running", "panicked", "finished"}
  BY ConstantTypes DEF Inv, TaskInv, InFlight
<1>2. Joined = Tasks
  BY <1>1 DEF Joined, Inv, TypeOK
<1> QED
  BY <1>2, ConstantTypes DEF Inv, ReportsInv

-----------------------------------------------------------------------------
(* The properties of the batch run. *)

\* The process's state stays well-typed.
THEOREM TypeInvariant == Spec => []TypeOK
<1>1. Inv => TypeOK
  BY DEF Inv
<1> QED
  BY <1>1, Invariant, PTL

\* No more cases are in flight than the pool allows, and the caller never
\* waits on an empty set of tasks, whatever number of cases there is.
THEOREM PoolStaysBounded == Spec => []PoolBounded
<1>1. Inv => PoolBounded
  BY DEF Inv, PoolInv, PoolBounded
<1> QED
  BY <1>1, Invariant, PTL

\* Reports are as many as joined tasks, every spawned task is in flight or
\* joined, and all are reported before anything is emitted.
THEOREM TasksAccounted == Spec => []EveryTaskAccounted
<1>1. Inv => EveryTaskAccounted
  <2> SUFFICES ASSUME Inv PROVE EveryTaskAccounted
    OBVIOUS
  <2>1. Len(reports) = Cardinality({i \in Tasks : task[i] = "joined"})
    BY DEF Inv, ReportsInv, Joined
  <2>2. pc \in {"emit", "exit"} => Len(reports) = Total
    BY AllJoined DEF Inv, PoolInv
  <2> QED
    BY <2>1, <2>2 DEF EveryTaskAccounted, Inv, TaskInv
<1> QED
  BY <1>1, Invariant, PTL

LEMMA ReportsForSort ==
  ASSUME TypeOK
  PROVE  reports \in Seq(Nat \X Batch!Outcomes)
<1>1. (1 .. LastIndex) \X Batch!Outcomes \subseteq Nat \X Batch!Outcomes
  BY ConstantTypes
<1> QED
  BY <1>1 DEF TypeOK

\* The process exits with 0 only if every run of every case passed: the sort
\* neither drops a report nor puts another in its place.
THEOREM ExitCodeIsHonest == Spec => []ExitCodeHonest
<1>1. Inv => ExitCodeHonest
  <2> SUFFICES ASSUME Inv, exitCode = 0, NEW i \in Tasks
               PROVE  outcome[i] = "passed"
    BY DEF ExitCodeHonest
  <2>1. /\ delivered = Collate(reports)
        /\ \A k \in DOMAIN delivered : delivered[k] = "passed"
    BY DEF Inv, DeliveredInv, Bad
  <2>2. Joined = Tasks
    BY AllJoined DEF Inv, DeliveredInv, PoolInv
  <2>3. PICK a \in DOMAIN reports : reports[a] = Reported(i)
    BY <2>2 DEF Inv, ReportsInv
  <2>4. Reported(i)[2] = outcome[i]
    BY DEF Reported
  <2>5. reports \in Seq(Nat \X Batch!Outcomes)
    BY ReportsForSort DEF Inv
  <2>6. /\ DOMAIN delivered = DOMAIN reports
        /\ Rank(reports, a) \in DOMAIN reports
        /\ delivered[Rank(reports, a)] = reports[a][2]
    BY <2>1, <2>5, CollateRanked
  <2> QED
    BY <2>1, <2>3, <2>4, <2>6
<1> QED
  BY <1>1, Invariant, PTL

-----------------------------------------------------------------------------
(* The refinement of CaseBatch. *)

\* CaseBatch counts with an instance of Cardinality of its own.
LEMMA SameCardinality == \A S : Batch!Cardinality(S) = Cardinality(S)
BY DEF Batch!Cardinality, Cardinality

\* As many reports have an index below n as kept runs are numbered below n.
LEMMA KeysBelow ==
  ASSUME Inv, Joined = Tasks, NEW n \in 1 .. LastIndex
  PROVE  Cardinality({b \in DOMAIN reports : reports[b][1] < n})
           = Cardinality({j \in Batch!KeptRuns : j < n})
<1> DEFINE S == {b \in DOMAIN reports : reports[b][1] < n}
           T == {j \in Batch!KeptRuns : j < n}
           key == [b \in S |-> reports[b][1]]
<1>1. IsFiniteSet(S)
  <2>1. DOMAIN reports = 1 .. Len(reports) /\ Len(reports) \in Nat
    BY DEF Inv, TypeOK
  <2>2. IsFiniteSet(DOMAIN reports)
    BY <2>1, FS_Interval
  <2> QED
    BY <2>2, FS_Subset
<1>2. \A b \in S : reports[b][1] \in T
  <2> SUFFICES ASSUME NEW b \in S PROVE reports[b][1] \in T
    OBVIOUS
  <2>1. PICK j \in Tasks : reports[b] = Reported(j)
    BY DEF Inv, ReportsInv
  <2>2. outcome[j] # "lost" /\ reports[b][1] = j
    BY <2>1, ConstantTypes DEF Reported
  <2> QED
    BY <2>2, ConstantTypes DEF Batch!KeptRuns, Batch!Runs
<1>3. \A j \in T : \E b \in S : reports[b][1] = j
  <2> SUFFICES ASSUME NEW j \in T PROVE \E b \in S : reports[b][1] = j
    OBVIOUS
  <2>1. j \in Tasks /\ outcome[j] # "lost" /\ j < n
    BY ConstantTypes DEF Batch!KeptRuns, Batch!Runs
  <2>2. PICK b \in DOMAIN reports : reports[b] = Reported(j)
    BY <2>1 DEF Inv, ReportsInv
  <2>3. reports[b][1] = j
    BY <2>1, <2>2 DEF Reported
  <2> QED
    BY <2>1, <2>3
<1>4. \A b, c \in S : reports[b][1] = reports[c][1] => b = c
  <2>1. \A b \in S : reports[b][1] # LastIndex
    BY <1>2, ConstantTypes DEF LastIndex
  <2> QED
    BY <2>1 DEF Inv, ReportsInv
<1>5. key \in Bijection(S, T)
  BY <1>2, <1>3, <1>4 DEF Bijection, Injection, IsInjective, Surjection
<1> QED
  BY <1>1, <1>5, FS_Bijection DEF ExistsBijection

\* The sort puts the report of a kept run at that run's place among the kept
\* ones, and those of lost tasks after them.
LEMMA RankOfReport ==
  ASSUME Inv, Joined = Tasks, NEW a \in DOMAIN reports,
         NEW i \in Tasks, reports[a] = Reported(i)
  PROVE  /\ outcome[i] # "lost" => Rank(reports, a) = Batch!Place(i)
         /\ outcome[i] = "lost" => Rank(reports, a) > Cardinality(Batch!KeptRuns)
<1> DEFINE D == DOMAIN reports
           below == {b \in D : reports[b][1] < Reported(i)[1]}
           before == {b \in D : Before(reports, b, a)}
<1>1. /\ D = 1 .. Len(reports) /\ Len(reports) \in Nat
      /\ \A b \in D : reports[b][1] \in Nat
  <2>1. reports \in Seq(Nat \X Batch!Outcomes)
    BY ReportsForSort DEF Inv
  <2> QED
    BY <2>1
<1>2. IsFiniteSet(D)
  BY <1>1, FS_Interval
<1>3. IsFiniteSet(before) /\ Cardinality(before) \in Nat
  <2>1. before \in SUBSET D
    OBVIOUS
  <2> QED
    BY <1>2, <2>1, FS_Subset, FS_CardinalityType
<1>4. IsFiniteSet(Batch!KeptRuns) /\ Cardinality(Batch!KeptRuns) \in Nat
  BY ConstantTypes, FS_Subset, FS_CardinalityType DEF Batch!KeptRuns, Batch!Runs
<1>5. Reported(i)[1] \in 1 .. LastIndex
  BY ConstantTypes DEF Reported, LastIndex
<1>6. Cardinality(below)
        = Cardinality({j \in Batch!KeptRuns : j < Reported(i)[1]})
  BY <1>5, KeysBelow
<1>7. Rank(reports, a) = 1 + Cardinality(before)
  BY DEF Rank
<1>8. CASE outcome[i] # "lost"
  <2> DEFINE placed == {j \in Batch!KeptRuns : j < i}
  <2>1. Reported(i)[1] = i /\ i # LastIndex /\ i \in Nat
    BY <1>8, ConstantTypes DEF Reported
  <2>2. \A b \in D : reports[b][1] = i => b = a
    BY <2>1 DEF Inv, ReportsInv
  <2>3. before = below
    BY <1>1, <2>1, <2>2 DEF Before
  <2>4. IsFiniteSet(placed) /\ Cardinality(placed) \in Nat /\ i \notin placed
    <3>1. placed \in SUBSET Batch!KeptRuns
      OBVIOUS
    <3> QED
      BY <1>4, <2>1, <3>1, FS_Subset, FS_CardinalityType
  <2>5. {j \in Batch!KeptRuns : j <= i} = placed \cup {i}
    BY <1>8, <2>1, ConstantTypes DEF Batch!KeptRuns, Batch!Runs
  <2>6. Batch!Place(i) = Cardinality(placed) + 1
    BY <2>4, <2>5, FS_AddElement, SameCardinality DEF Batch!Place
  <2>7. Cardinality(before) = Cardinality(placed)
    <3>1. {j \in Batch!KeptRuns : j < Reported(i)[1]} = placed
      BY <2>1
    <3> QED
      BY <1>6, <2>3, <3>1
  <2>8. Cardinality(placed) \in Nat
    BY <2>4
  <2> HIDE DEF before, placed
  <2> QED
    BY <1>7, <1>8, <2>6, <2>7, <2>8
<1>9. CASE outcome[i] = "lost"
  <2>1. Reported(i)[1] = LastIndex
    BY <1>9 DEF Reported
  <2>2. {j \in Batch!KeptRuns : j < LastIndex} = Batch!KeptRuns
    BY ConstantTypes DEF Batch!KeptRuns, Batch!Runs, LastIndex
  <2>3. below \in SUBSET before
    BY <2>1 DEF Before
  <2>4. Cardinality(below) <= Cardinality(before)
    BY <1>3, <2>3, FS_Subset
  <2>5. Cardinality(below) = Cardinality(Batch!KeptRuns)
    BY <1>6, <2>1, <2>2
  <2>6. Cardinality(before) \in Nat /\ Cardinality(Batch!KeptRuns) \in Nat
    BY <1>3, <1>4
  <2> HIDE DEF before, below
  <2> QED
    BY <1>7, <1>9, <2>4, <2>5, <2>6
<1> QED
  BY <1>8, <1>9

\* So what collect_reports_async returns is the abstract batch's order.
LEMMA CollateInOrder ==
  ASSUME Inv, Joined = Tasks
  PROVE  Collate(reports) = Batch!InOrder
<1>1. reports \in Seq(Nat \X Batch!Outcomes)
  BY ReportsForSort DEF Inv
<1>2. DOMAIN reports = Tasks /\ Batch!Runs = Tasks
  <2>1. DOMAIN reports = 1 .. Len(reports)
    BY <1>1
  <2> QED
    BY <2>1, ConstantTypes DEF Inv, ReportsInv, Batch!Runs
<1>3. ASSUME NEW k \in Tasks
      PROVE  Collate(reports)[k] = Batch!InOrder[k]
  <2>1. PICK a \in DOMAIN reports :
          Rank(reports, a) = k /\ Collate(reports)[k] = reports[a][2]
    BY <1>1, <1>2, CollateRanked
  <2>2. PICK i \in Tasks : reports[a] = Reported(i)
    BY DEF Inv, ReportsInv
  <2>3. reports[a][2] = outcome[i]
    BY <2>2 DEF Reported
  <2>4. k \in Nat /\ Cardinality(Batch!KeptRuns) \in Nat
        /\ IsFiniteSet(Batch!KeptRuns)
    BY <1>2, ConstantTypes, FS_Subset, FS_CardinalityType DEF Batch!KeptRuns
  <2>5. CASE outcome[i] = "lost"
    <3>1. k > Cardinality(Batch!KeptRuns)
      BY <2>1, <2>2, <2>5, RankOfReport
    <3> QED
      BY <1>2, <2>1, <2>3, <2>4, <2>5, <3>1, SameCardinality
         DEF Batch!InOrder
  <2>6. CASE outcome[i] # "lost"
    <3>1. i \in Batch!KeptRuns /\ Batch!Place(i) = k
      BY <1>2, <2>1, <2>2, <2>6, RankOfReport DEF Batch!KeptRuns
    <3>2. {j \in Batch!KeptRuns : j <= i} \in SUBSET Batch!KeptRuns
      OBVIOUS
    <3>3. k <= Cardinality(Batch!KeptRuns)
      BY <2>4, <3>1, <3>2, FS_Subset, SameCardinality DEF Batch!Place
    <3>4. ASSUME NEW j \in Batch!KeptRuns, Batch!Place(j) = k
          PROVE  j = i
      <4>1. j \in Tasks /\ outcome[j] # "lost"
        BY <1>2 DEF Batch!KeptRuns
      <4>2. PICK b \in DOMAIN reports : reports[b] = Reported(j)
        BY <4>1 DEF Inv, ReportsInv
      <4>3. Rank(reports, b) = k
        BY <3>4, <4>1, <4>2, RankOfReport
      <4>4. a = b
        BY <1>1, <2>1, <4>3, RankBijective
      <4> QED
        BY <2>2, <2>6, <4>1, <4>2, <4>4 DEF Reported
    <3>5. (CHOOSE j \in Batch!KeptRuns : Batch!Place(j) = k) = i
      BY <3>1, <3>4
    <3> QED
      BY <1>2, <2>1, <2>3, <3>3, <3>5, SameCardinality DEF Batch!InOrder
  <2> QED
    BY <2>5, <2>6
<1> QED
  BY <1>2, <1>3 DEF Collate, Batch!InOrder

\* The scheduler implements CaseBatch: a step of a task settles its run, the
\* return from collect_reports_async delivers the outcomes in order, and every
\* other step is invisible.
THEOREM RefinesCaseBatch == Spec => BatchSpec
<1>1. Init => Batch!Init
  BY DEF Init, Batch!Init, NotYet, Tasks, Batch!Runs
<1>2. ASSUME Inv, [Next]_vars
      PROVE  [Batch!Next]_<<outcome, delivered>>
  <2>1. CASE Spawn
    BY <2>1 DEF Spawn
  <2>2. CASE AllSpawned
    BY <2>2 DEF AllSpawned
  <2>3. CASE Emit
    BY <2>3 DEF Emit
  <2>4. ASSUME NEW i \in Tasks, JoinNext(i)
        PROVE  UNCHANGED <<outcome, delivered>>
    BY <2>4 DEF JoinNext
  <2>5. CASE ReturnReports
    <3>1. Joined = Tasks
      BY <1>2, <2>5, AllJoined DEF ReturnReports, Inv, PoolInv
    <3>2. delivered = Batch!NotYet
      BY <1>2, <2>5 DEF ReturnReports, Inv, DeliveredInv, NotYet
    <3>3. delivered' = Batch!InOrder /\ outcome' = outcome
      BY <1>2, <2>5, <3>1, CollateInOrder DEF ReturnReports
    <3>4. \A i \in Batch!Runs : outcome[i] # "pending"
      BY <1>2, <3>1 DEF Inv, TaskInv, Joined, Tasks, Batch!Runs
    <3> QED
      BY <3>2, <3>3, <3>4 DEF Batch!Deliver, Batch!Next
  <2>6. CASE TaskStep
    <3>1. PICK i \in Tasks :
            /\ outcome[i] = "pending"
            /\ \/ \E result \in Batch!Outcomes :
                    /\ result = "lost" => i \in Losable
                    /\ outcome' = [outcome EXCEPT ![i] = result]
               \/ UNCHANGED outcome
      BY <1>2, <2>6, TaskStepEffect DEF Inv
    <3>2. UNCHANGED delivered
      BY <1>2, <2>6, TaskStepEffect DEF Inv
    <3>3. i \in Batch!Runs
      BY DEF Tasks, Batch!Runs
    <3> QED
      BY <3>1, <3>2, <3>3 DEF Batch!Settle, Batch!Next
  <2>7. CASE UNCHANGED vars
    BY <2>7 DEF vars
  <2> QED
    BY <1>2, <2>1, <2>2, <2>3, <2>4, <2>5, <2>6, <2>7 DEF Next, Caller, TaskStep
<1> QED
  BY <1>1, <1>2, Invariant, PTL DEF Spec, BatchSpec, Batch!Spec
=============================================================================
