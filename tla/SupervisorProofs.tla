-------------------------- MODULE SupervisorProofs --------------------------
(***************************************************************************)
(* Proofs about Supervisor for every timeout, poll interval, pipe and line *)
(* size.  The invariant follows the worker's life (it exists from the      *)
(* spawn on, is signalled only past the deadline, and is gone before its   *)
(* report is made) and says of each report what the worker had written     *)
(* when the report was made; after that nothing of the worker changes.     *)
(*                                                                         *)
(* And about SupervisedWorker for every text the worker may write: what    *)
(* the parent parses from any part of the line is what Supervisor lets it  *)
(* read, so that all of this holds of the texts.  It rests on facts about  *)
(* escaping and splitting, by induction over texts.                        *)
(***************************************************************************)
EXTENDS SupervisedWorker, SequenceTheorems, WellFoundedInduction, TLAPS

\* The constants are numbers and codes.
LEMMA ConstantTypes ==
  /\ Timeout \in Nat /\ Poll \in Nat /\ PipeSize \in Nat /\ MaxNow \in Nat
  /\ LineSizes \subseteq Nat
  /\ "none" \notin Expected
<1>1. {Timeout, Poll, PipeSize, MaxNow} \subseteq Nat
  BY SupervisorAssumption
<1>2. LineSizes \subseteq Nat \ {0, 1}
  BY SupervisorAssumption
<1>3. Expected \subseteq {"OK", "ERR_TIMEOUT", "ERR_INTERNAL"}
  BY SupervisorAssumption
<1> QED
  BY <1>1, <1>2, <1>3

\* What the supervisor makes of a line, and what it makes without one.
LEMMA ReportTypes ==
  /\ NoReport \in Reports /\ TimeoutReport \in Reports
  /\ \A detail \in {"spawn failed", "wait failed", "output failed",
                    "protocol missing"} : ErrorReport(detail) \in Reports
  /\ \A l \in Lines \cup {NoLine} : CompletionReport(l) \in Reports
<1>1. NoReport \in Reports
  BY DEF NoReport, Reports
<1>2. TimeoutReport \in Reports
  BY DEF TimeoutReport, Reports
<1>3. ASSUME NEW detail \in {"spawn failed", "wait failed", "output failed",
                             "protocol missing"}
      PROVE  ErrorReport(detail) \in Reports
  BY <1>3 DEF ErrorReport, Reports
<1>4. ASSUME NEW l \in Lines \cup {NoLine} PROVE CompletionReport(l) \in Reports
  <2>1. l.actual \in {"OK", "ERR_INTERNAL", "none"} /\ l.hostError \in BOOLEAN
    <3>1. CASE l \in Lines
      BY <3>1 DEF Lines
    <3>2. CASE l = NoLine
      BY <3>2 DEF NoLine
    <3> QED
      BY <1>4, <3>1, <3>2
  <2> QED
    BY <2>1 DEF CompletionReport, Reports
<1> QED
  BY <1>1, <1>2, <1>3, <1>4

\* Supervisor without its fairness.
SafetySpec == Init /\ [][Next]_vars

\* Types, without fairness.
LEMMA SafetyTypes == SafetySpec => []TypeOK
<1>1. Init => TypeOK
  <2> SUFFICES ASSUME Init PROVE TypeOK
    OBVIOUS
  <2>1. report \in Reports
    BY ReportTypes DEF Init
  <2>2. line \in Lines \cup {NoLine}
    BY DEF Init
  <2>3. now \in 0 .. MaxNow
    BY ConstantTypes DEF Init
  <2>4. expected \in Expected /\ lineSize \in LineSizes
    BY DEF Init
  <2>5. wakeAt \in Nat /\ written \in Nat
    BY DEF Init
  <2>6. pc = "spawn" /\ worker = "none" /\ signalled = FALSE
    BY DEF Init
  <2> QED
    BY <2>1, <2>2, <2>3, <2>4, <2>5, <2>6 DEF TypeOK
<1>2. TypeOK /\ [Next]_vars => TypeOK'
  <2> SUFFICES ASSUME TypeOK, [Next]_vars PROVE TypeOK'
    OBVIOUS
  <2>1. CASE SpawnWorker
    <3>1. report' \in Reports
      BY <2>1, ReportTypes DEF SpawnWorker, Finish, TypeOK
    <3> QED
      BY <2>1, <3>1 DEF SpawnWorker, Finish, TypeOK
  <2>2. CASE TryWait
    <3>1. report' \in Reports
      BY <2>2, ReportTypes DEF TryWait, Finish, TypeOK
    <3> QED
      BY <2>2, <3>1 DEF TryWait, Finish, TypeOK
  <2>3. CASE CheckElapsed
    <3>1. wakeAt' \in Nat
      BY <2>3, ConstantTypes DEF CheckElapsed, TypeOK
    <3> QED
      BY <2>3, <3>1 DEF CheckElapsed, TypeOK
  <2>4. CASE Wake
    BY <2>4 DEF Wake, TypeOK
  <2>5. CASE Kill
    BY <2>5 DEF Kill, TypeOK
  <2>6. CASE Reap
    <3>1. report' \in Reports
      BY <2>6, ReportTypes DEF Reap, Finish
    <3> QED
      BY <2>6, <3>1 DEF Reap, Finish, TypeOK
  <2>7. CASE Collect
    <3>1. report' \in Reports /\ pc' = "done"
      BY <2>7, ReportTypes DEF Collect, Finish, Parsed
    <3> QED
      BY <2>7, <3>1 DEF Collect, TypeOK
  <2>8. CASE WorkerRunsCase
    BY <2>8 DEF WorkerRunsCase, TypeOK
  <2>9. CASE WorkerWrites
    BY <2>9 DEF WorkerWrites, TypeOK
  <2>10. CASE WorkerEnds
    BY <2>10, ConstantTypes DEF WorkerEnds, TypeOK
  <2>11. CASE Clock
    BY <2>11, ConstantTypes DEF Clock, TypeOK
  <2>12. CASE UNCHANGED vars
    BY <2>12 DEF vars, TypeOK
  <2> QED
    BY <2>1, <2>2, <2>3, <2>4, <2>5, <2>6, <2>7, <2>8, <2>9, <2>10, <2>11, <2>12
       DEF Next, Parent
<1> QED
  BY <1>1, <1>2, PTL DEF SafetySpec

\* The supervisor's state stays well-typed.
THEOREM TypeInvariant == Spec => []TypeOK
BY SafetyTypes, PTL DEF Spec, SafetySpec

-----------------------------------------------------------------------------
\* Where the parent is tells what has become of the worker.
WorkerLife ==
  /\ pc = "spawn" => worker = "none"
  /\ pc = "collect" => worker = "exited"
  /\ pc \in {"kill", "reap"} \/ signalled => now >= Timeout
  /\ pc = "reap" => signalled
  /\ signalled => pc \in {"reap", "done"}
  /\ pc = "done" /\ report.detail # "wait failed" => worker \in {"none", "reaped"}

\* A report either carries a host error, or is the timeout's of a killed
\* worker, or holds the code of a worker that is gone and whose line reached
\* the field of host_error.
ReportTold ==
  pc = "done" =>
    \/ report.hostError
    \/ report.actual = "ERR_TIMEOUT" /\ signalled
    \/ /\ worker = "reaped" /\ written >= lineSize - 1
       /\ report.actual = line.actual

\* What a report's detail says of the signal and of the code.
DetailTold ==
  pc = "done" =>
    /\ report.detail = "timed out" <=> signalled
    /\ report.detail = "completed" => report.actual = line.actual

Inv == WorkerLife /\ ReportTold /\ DetailTold

\* The invariant holds.
LEMMA SafetyInvariant == SafetySpec => []Inv
<1>1. Init => Inv
  BY DEF Init, Inv, WorkerLife, ReportTold, DetailTold
<1>2. TypeOK /\ Inv /\ [Next]_vars => Inv'
  <2> SUFFICES ASSUME TypeOK, Inv, [Next]_vars PROVE Inv'
    OBVIOUS
  <2>0. /\ now \in Nat /\ Timeout \in Nat /\ written \in Nat /\ lineSize \in Nat
        /\ signalled \in BOOLEAN
    <3>1. now \in Nat /\ Timeout \in Nat
      BY ConstantTypes DEF TypeOK
    <3>2. written \in Nat /\ signalled \in BOOLEAN
      BY DEF TypeOK
    <3>3. lineSize \in Nat
      BY ConstantTypes DEF TypeOK
    <3> QED
      BY <3>1, <3>2, <3>3
  <2> USE DEF Inv, WorkerLife, ReportTold, DetailTold
  <2>1. CASE SpawnWorker
    <3>0. ~signalled /\ ~signalled'
      BY <2>0, <2>1 DEF SpawnWorker
    <3>1. CASE Finish(ErrorReport("spawn failed")) /\ UNCHANGED worker
      <4>1. /\ pc' = "done" /\ report'.hostError
            /\ report'.detail = "spawn failed"
        BY <3>1 DEF Finish, ErrorReport
      <4>2. worker' = "none" /\ signalled' = signalled /\ now' = now
        BY <2>1, <3>1 DEF SpawnWorker
      <4> QED
        BY <3>0, <4>1, <4>2
    <3>2. CASE pc' = "try_wait" /\ worker' = "working"
      <4>1. signalled' = signalled /\ now' = now
        BY <2>1 DEF SpawnWorker
      <4> QED
        BY <3>0, <3>2, <4>1
    <3> QED
      BY <2>1, <3>1, <3>2 DEF SpawnWorker
  <2>2. CASE TryWait
    <3>0. /\ worker' = worker /\ now' = now
          /\ ~signalled /\ ~signalled'
      BY <2>0, <2>2 DEF TryWait
    <3>1. CASE pc' = (IF worker = "exited" THEN "collect" ELSE "elapsed")
      BY <3>0, <3>1
    <3>2. CASE Finish(ErrorReport("wait failed"))
      <4>1. /\ pc' = "done" /\ report'.hostError
            /\ report'.detail = "wait failed"
        BY <3>2 DEF Finish, ErrorReport
      <4> QED
        BY <3>0, <4>1
    <3> QED
      BY <2>2, <3>1, <3>2 DEF TryWait
  <2>3. CASE CheckElapsed
    <3>1. /\ worker' = worker /\ now' = now
          /\ ~signalled /\ ~signalled'
      BY <2>0, <2>3 DEF CheckElapsed
    <3>2. pc' = "sleep" \/ (pc' = "kill" /\ now >= Timeout)
      BY <2>3 DEF CheckElapsed, PastDeadline
    <3> QED
      BY <3>1, <3>2
  <2>4. CASE Wake
    BY <2>0, <2>4 DEF Wake
  <2>5. CASE Kill
    BY <2>0, <2>5 DEF Kill
  <2>6. CASE Reap
    BY <2>0, <2>6 DEF Reap, Finish, TimeoutReport
  <2>7. CASE Collect
    <3>0. /\ worker' = "reaped" /\ pc' = "done" /\ ~signalled /\ ~signalled'
          /\ now' = now /\ written' = written /\ lineSize' = lineSize
          /\ line' = line
      BY <2>0, <2>7 DEF Collect, Finish
    <3>1. /\ report'.detail # "timed out"
          /\ report'.detail = "completed" => report'.actual = line.actual
          /\ \/ report'.hostError
             \/ written >= lineSize - 1 /\ report'.actual = line.actual
      <4>1. CASE report' = ErrorReport("output failed")
        BY <4>1 DEF ErrorReport
      <4>2. CASE report' = ErrorReport("protocol missing")
        BY <4>2 DEF ErrorReport
      <4>3. CASE \E l \in Parsed : report' = CompletionReport(l)
        <5>1. PICK l \in Parsed : report' = CompletionReport(l)
          BY <4>3
        <5>2. written >= lineSize - 1 /\ l.actual = line.actual
          BY <5>1 DEF Parsed
        <5>3. report'.actual = l.actual /\ report'.detail = "completed"
          BY <5>1 DEF CompletionReport
        <5> QED
          BY <5>2, <5>3
      <4> QED
        BY <2>7, <4>1, <4>2, <4>3 DEF Collect, Finish
    <3>2. signalled => now >= Timeout
      OBVIOUS
    <3> QED
      BY <3>0, <3>1, <3>2
  <2>8. CASE WorkerRunsCase
    BY <2>0, <2>8 DEF WorkerRunsCase
  <2>9. CASE WorkerWrites
    BY <2>0, <2>9 DEF WorkerWrites
  <2>10. CASE WorkerEnds
    BY <2>0, <2>10 DEF WorkerEnds, Alive
  <2>11. CASE Clock
    <3> HIDE DEF Inv, WorkerLife, ReportTold, DetailTold
    <3>1. UNCHANGED <<pc, worker, signalled, line, written, lineSize, report>>
      BY <2>11 DEF Clock
    <3>2. now' = now + 1
      BY <2>11 DEF Clock
    <3>3. now >= Timeout => now' >= Timeout
      BY <2>0, <3>2
    <3> QED
      BY <3>1, <3>3 DEF Inv, WorkerLife, ReportTold, DetailTold
  <2>12. CASE UNCHANGED vars
    BY <2>12 DEF vars
  <2> QED
    BY <2>1, <2>2, <2>3, <2>4, <2>5, <2>6, <2>7, <2>8, <2>9, <2>10, <2>11, <2>12
       DEF Next, Parent
<1> QED
  BY <1>1, <1>2, SafetyTypes, PTL DEF SafetySpec

\* What the invariant says of a report.
LEMMA Promises == TypeOK /\ Inv => NoFalsePass /\ NoOrphan /\ TimeoutIsFinal
<1>1. TypeOK /\ Inv => NoFalsePass
  <2> SUFFICES ASSUME TypeOK, Inv, pc = "done", Passed(report) PROVE
                 \/ /\ written >= lineSize - 1
                    /\ ~line.hostError /\ line.actual = expected
                 \/ expected = "ERR_TIMEOUT" /\ signalled
    BY DEF NoFalsePass
  <2>1. ~report.hostError /\ report.actual = expected
    BY DEF Passed
  <2>2. CASE report.actual = "ERR_TIMEOUT" /\ signalled
    BY <2>1, <2>2
  <2>3. CASE written >= lineSize - 1 /\ report.actual = line.actual
    <3>1. expected # "none" /\ line \in Lines \cup {NoLine}
      BY ConstantTypes DEF TypeOK
    <3>2. CASE line \in Lines
      BY <2>1, <2>3, <3>1, <3>2 DEF Lines
    <3>3. CASE line = NoLine
      BY <2>1, <2>3, <3>1, <3>3 DEF NoLine
    <3> QED
      BY <3>1, <3>2, <3>3
  <2> QED
    BY <2>1, <2>2, <2>3 DEF Inv, ReportTold
<1>2. Inv => NoOrphan
  BY DEF Inv, WorkerLife, NoOrphan
<1>3. Inv => TimeoutIsFinal
  BY DEF Inv, DetailTold, TimeoutIsFinal
<1> QED
  BY <1>1, <1>2, <1>3

\* A supervised case passes only on its worker's word or on the timeout it
\* expects (run_case_supervised and the reports it makes).
THEOREM NeverFalsePass == Spec => []NoFalsePass
BY SafetyTypes, SafetyInvariant, Promises, PTL DEF Spec, SafetySpec

\* A timeout once decided is what is reported, and a report that quotes the
\* worker is of one never signalled.
THEOREM TimeoutAlwaysFinal == Spec => []TimeoutIsFinal
BY SafetyTypes, SafetyInvariant, Promises, PTL DEF Spec, SafetySpec

\* No worker outlives its report, but where try_wait failed, and none is
\* killed before its time.
THEOREM NeverOrphaned == Spec => []NoOrphan
BY SafetyTypes, SafetyInvariant, Promises, PTL DEF Spec, SafetySpec

-----------------------------------------------------------------------------
\* The symbols of the texts, and those the protocol puts between and in them.
Marks == {Prefix[1], Number, Tab, LF, CR, Backslash, "t", "n", "r", "x"}

Written == UNION {{text[i] : i \in DOMAIN text} : text \in Details \cup HostErrors}

Symbols == Written \cup CodeSymbols \cup Marks

\* Every text of the protocol is one.
Texts == Seq(Symbols)

-----------------------------------------------------------------------------
(* Induction, for sets of numbers and of texts: a set is a constant that the *)
(* provers can instantiate, where an operator is not.                        *)

\* What holds of 0 and of each number's successor holds of all.
LEMMA NumberInduction ==
  ASSUME NEW S, 0 \in S, \A n \in Nat : n \in S => n + 1 \in S
  PROVE  Nat \subseteq S
<1> DEFINE Missing == Nat \ S
<1>1. SUFFICES ASSUME Missing # {} PROVE FALSE
  OBVIOUS
<1>2. PICK m \in Missing : \A j \in Missing : ~(<<j, m>> \in OpToRel(<, Nat))
  BY <1>1, NatLessThanWellFounded, WFMin
<1>3. \A j \in Missing : ~(j < m)
  BY <1>2 DEF OpToRel
<1>4. m - 1 \in Nat /\ m - 1 \in S /\ (m - 1) + 1 = m
  BY <1>3
<1> QED
  BY <1>4

\* What holds of the empty text and of every text with one symbol more.
LEMMA TextInduction ==
  ASSUME NEW S, <<>> \in S,
         \A text \in Texts, ch \in Symbols : text \in S => Append(text, ch) \in S
  PROVE  Texts \subseteq S
<1> DEFINE Lengths == {n \in Nat : \A text \in Texts : Len(text) = n => text \in S}
<1>1. 0 \in Lengths
  BY EmptySeq DEF Texts
<1>2. ASSUME NEW n \in Nat, n \in Lengths PROVE n + 1 \in Lengths
  <2> SUFFICES ASSUME NEW text \in Texts, Len(text) = n + 1 PROVE text \in S
    OBVIOUS
  <2>1. text # <<>>
    BY EmptySeq
  <2>2. PICK front \in Texts, ch \in Symbols : text = Append(front, ch)
    BY <2>1, SequenceEmptyOrAppend DEF Texts
  <2>3. Len(front) = n
    BY <2>2, AppendProperties, LenProperties DEF Texts
  <2> QED
    BY <1>2, <2>2, <2>3
<1> HIDE DEF Lengths
<1>3. Nat \subseteq Lengths
  BY <1>1, <1>2, NumberInduction
<1>4. \A text \in Texts : Len(text) \in Nat
  BY LenProperties DEF Texts
<1> QED
  BY <1>3, <1>4 DEF Lengths

-----------------------------------------------------------------------------
(* The three loops over a text. *)

Begin(loop) ==
  CASE loop = "escape"   -> <<>>
    [] loop = "unescape" -> [out |-> <<>>, escape |-> FALSE, ok |-> TRUE]
    [] loop = "split"    -> <<<<>>>>

Turn(loop, state, ch) ==
  CASE loop = "escape"   -> state \o EscapeChar(ch)
    [] loop = "unescape" -> Read(state, ch)
    [] loop = "split"    -> Cut(state, ch)

\* w is what the loop has after each of the first m symbols.
Loops(loop, text, m, w) ==
  w = [n \in 0 .. m |-> IF n = 0 THEN Begin(loop) ELSE Turn(loop, w[n - 1], text[n])]

After(loop, text) == (CHOOSE w : Loops(loop, text, Len(text), w))[Len(text)]

\* Where each loop begins and what one turn of it does.
LEMMA Turns ==
  /\ Begin("escape") = <<>> /\ Begin("split") = <<<<>>>>
  /\ Begin("unescape") = [out |-> <<>>, escape |-> FALSE, ok |-> TRUE]
  /\ \A state, ch : /\ Turn("escape", state, ch) = state \o EscapeChar(ch)
                    /\ Turn("unescape", state, ch) = Read(state, ch)
                    /\ Turn("split", state, ch) = Cut(state, ch)
BY DEF Begin, Turn

\* Each loop runs to its end.
LEMMA LoopExists ==
  ASSUME NEW loop, NEW text, NEW m \in Nat
  PROVE  \E w : Loops(loop, text, m, w)
<1> DEFINE S == {n \in Nat : \E w : Loops(loop, text, n, w)}
<1>1. 0 \in S
  <2> DEFINE w == [n \in 0 .. 0 |-> Begin(loop)]
  <2>1. w = [n \in 0 .. 0 |-> IF n = 0 THEN Begin(loop)
                              ELSE Turn(loop, w[n - 1], text[n])]
    OBVIOUS
  <2> HIDE DEF w
  <2>2. Loops(loop, text, 0, w)
    BY <2>1 DEF Loops
  <2> QED
    BY <2>2
<1>2. ASSUME NEW n \in Nat, n \in S PROVE n + 1 \in S
  <2>1. PICK w : Loops(loop, text, n, w)
    BY <1>2
  <2> DEFINE longer == [k \in 0 .. n + 1 |->
                          IF k = n + 1 THEN Turn(loop, w[n], text[n + 1]) ELSE w[k]]
             again == [k \in 0 .. n + 1 |->
                         IF k = 0 THEN Begin(loop) ELSE Turn(loop, longer[k - 1], text[k])]
  <2>2. \A k \in 0 .. n :
          w[k] = IF k = 0 THEN Begin(loop) ELSE Turn(loop, w[k - 1], text[k])
    BY <2>1 DEF Loops
  <2>3. ASSUME NEW k \in 0 .. n + 1
        PROVE  longer[k] = again[k]
    <3>1. CASE k = n + 1
      <4>1. longer[k - 1] = w[n] /\ k # 0
        BY <3>1
      <4> QED
        BY <3>1, <4>1
    <3>2. CASE k # n + 1 /\ k # 0
      <4>1. longer[k - 1] = w[k - 1] /\ longer[k] = w[k] /\ k \in 0 .. n
        BY <3>2
      <4> QED
        BY <2>2, <3>2, <4>1
    <3>3. CASE k = 0
      BY <2>2, <3>3
    <3> QED
      BY <3>1, <3>2, <3>3
  <2>4. longer = again
    BY <2>3
  <2> HIDE DEF longer
  <2>5. Loops(loop, text, n + 1, longer)
    BY <2>4 DEF Loops
  <2> QED
    BY <2>5
<1> HIDE DEF S
<1>3. Nat \subseteq S
  BY <1>1, <1>2, NumberInduction
<1> QED
  BY <1>3 DEF S

\* The operators of the protocol are the ends of their loops.
LEMMA EndsOfLoops ==
  ASSUME NEW text
  PROVE  /\ Escape(text) = After("escape", text)
         /\ Split(text) = After("split", text)
         /\ LET end == After("unescape", text)
            IN Unescape(text) = [ok |-> end.ok /\ ~end.escape, text |-> end.out]
<1>1. Escape(text) = After("escape", text)
  BY DEF Escape, After, Loops, Begin, Turn
<1>2. Split(text) = After("split", text)
  BY DEF Split, After, Loops, Begin, Turn
<1>3. LET end == After("unescape", text)
      IN Unescape(text) = [ok |-> end.ok /\ ~end.escape, text |-> end.out]
  BY DEF Unescape, After, Loops, Begin, Turn
<1> QED
  BY <1>1, <1>2, <1>3

\* A loop takes a text one symbol at a time.
LEMMA OneMore ==
  ASSUME NEW loop, NEW text \in Texts, NEW ch \in Symbols
  PROVE  /\ After(loop, <<>>) = Begin(loop)
         /\ After(loop, Append(text, ch)) = Turn(loop, After(loop, text), ch)
<1> DEFINE W(t) == CHOOSE w : Loops(loop, t, Len(t), w)
<1>1. \A t : Len(t) \in Nat => Loops(loop, t, Len(t), W(t))
  BY LoopExists
<1>2. \A t : After(loop, t) = W(t)[Len(t)]
  BY DEF After
<1> HIDE DEF W
<1>3. After(loop, <<>>) = Begin(loop)
  <2>1. Len(<<>>) = 0
    BY EmptySeq
  <2> QED
    BY <1>1, <1>2, <2>1 DEF Loops
<1> DEFINE n == Len(text)
           more == Append(text, ch)
<1>4. /\ n \in Nat /\ Len(more) = n + 1
      /\ \A i \in 1 .. n : more[i] = text[i]
      /\ more[n + 1] = ch
  BY LenProperties, AppendProperties DEF Texts
<1> HIDE DEF n, more
<1>5. \A k \in 0 .. n :
        W(text)[k] = IF k = 0 THEN Begin(loop) ELSE Turn(loop, W(text)[k - 1], text[k])
  <2>1. Loops(loop, text, n, W(text))
    BY <1>1, <1>4 DEF n
  <2> QED
    BY <2>1 DEF Loops
<1>6. \A k \in 0 .. n + 1 :
        W(more)[k] = IF k = 0 THEN Begin(loop) ELSE Turn(loop, W(more)[k - 1], more[k])
  <2>1. Loops(loop, more, n + 1, W(more))
    BY <1>1, <1>4
  <2> QED
    BY <2>1 DEF Loops
<1> DEFINE Same == {k \in Nat : k <= n => W(more)[k] = W(text)[k]}
<1>7. 0 \in Same
  BY <1>4, <1>5, <1>6
<1>8. ASSUME NEW k \in Nat, k \in Same PROVE k + 1 \in Same
  <2> SUFFICES ASSUME k + 1 <= n PROVE W(more)[k + 1] = W(text)[k + 1]
    OBVIOUS
  <2>1. k \in 0 .. n /\ k + 1 \in 0 .. n /\ k + 1 \in 0 .. n + 1 /\ k + 1 # 0
        /\ (k + 1) - 1 = k /\ k + 1 \in 1 .. n
    BY <1>4
  <2>2. W(more)[k] = W(text)[k]
    BY <1>8, <2>1
  <2>3. W(more)[k + 1] = Turn(loop, W(more)[k], more[k + 1])
    BY <1>6, <2>1
  <2>4. W(text)[k + 1] = Turn(loop, W(text)[k], text[k + 1])
    BY <1>5, <2>1
  <2> QED
    BY <1>4, <2>1, <2>2, <2>3, <2>4
<1> HIDE DEF Same
<1>9. n \in Same
  BY <1>4, <1>7, <1>8, NumberInduction
<1>10. W(more)[n] = W(text)[n]
  BY <1>4, <1>9 DEF Same
<1>11. W(more)[n + 1] = Turn(loop, W(more)[n], ch)
  <2>1. n + 1 \in 0 .. n + 1 /\ n + 1 # 0 /\ (n + 1) - 1 = n
    BY <1>4
  <2> QED
    BY <1>4, <1>6, <2>1
<1> QED
  BY <1>2, <1>3, <1>4, <1>10, <1>11 DEF n, more

-----------------------------------------------------------------------------
(* Escaping. *)

\* Symbols that neither end a field nor the line.
Plain == Symbols \ {Tab, LF}

\* The symbols are distinct, and only two of them are not plain.
LEMMA SymbolFacts ==
  /\ Tab \in Symbols /\ LF \in Symbols /\ Backslash \in Plain /\ Number \in Plain
  /\ Prefix[1] \in Plain /\ Prefix = <<Prefix[1]>> /\ "x" \in Plain
  /\ CodeSymbols \subseteq Plain
  /\ Tab # LF /\ Backslash # Tab /\ Backslash # LF
  /\ DOMAIN Unescaped \subseteq Plain
<1>1. Prefix = <<Prefix[1]>>
  BY DEF Prefix
<1>2. /\ {Tab, LF, Backslash, Number, Prefix[1], "x", "t", "n", "r"} \subseteq Symbols
      /\ CodeSymbols \subseteq Symbols
  BY DEF Symbols, Marks
<1>3. Prefix[1] \notin {Tab, LF}
  BY DEF Prefix, Tab, LF
<1>4. /\ Tab # LF /\ Backslash # Tab /\ Backslash # LF
      /\ Number \notin {Tab, LF} /\ "x" \notin {Tab, LF}
  BY DEF Tab, LF, Backslash, Number
<1>5. CodeSymbols \cap {Tab, LF} = {}
  BY DEF Tab, LF, CodeSymbols
<1>6. DOMAIN Unescaped \subseteq Plain
  <2>1. DOMAIN Unescaped = {"t", "n", "r", Backslash}
    BY DEF Unescaped, Backslash
  <2>2. {"t", "n", "r"} \cap {Tab, LF} = {}
    BY DEF Tab, LF
  <2> QED
    BY <1>2, <1>4, <2>1, <2>2 DEF Plain
<1> QED
  BY <1>1, <1>2, <1>3, <1>4, <1>5, <1>6 DEF Plain

\* A symbol is written as it is, or as a backslash and what stands for it.
LEMMA EscapedSymbol ==
  ASSUME NEW ch \in Symbols
  PROVE  \/ ch \in Plain \ {Backslash} /\ EscapeChar(ch) = <<ch>>
         \/ \E code \in DOMAIN Unescaped :
              EscapeChar(ch) = <<Backslash, code>> /\ Unescaped[code] = ch
<1>1. CASE ch = Backslash
  <2>1. EscapeChar(ch) = <<Backslash, "backslash">>
    BY <1>1 DEF EscapeChar, Backslash, Tab, LF, CR
  <2>2. "backslash" \in DOMAIN Unescaped /\ Unescaped["backslash"] = ch
    BY <1>1 DEF Unescaped
  <2> QED
    BY <2>1, <2>2
<1>2. CASE ch = Tab
  <2>1. EscapeChar(ch) = <<Backslash, "t">>
    BY <1>2 DEF EscapeChar, Backslash, Tab, LF, CR
  <2>2. "t" \in DOMAIN Unescaped /\ Unescaped["t"] = ch
    BY <1>2 DEF Unescaped
  <2> QED
    BY <2>1, <2>2
<1>3. CASE ch = LF
  <2>1. EscapeChar(ch) = <<Backslash, "n">>
    BY <1>3 DEF EscapeChar, Backslash, Tab, LF, CR
  <2>2. "n" \in DOMAIN Unescaped /\ Unescaped["n"] = ch
    BY <1>3 DEF Unescaped
  <2> QED
    BY <2>1, <2>2
<1>4. CASE ch = CR
  <2>1. EscapeChar(ch) = <<Backslash, "r">>
    BY <1>4 DEF EscapeChar, Backslash, Tab, LF, CR
  <2>2. "r" \in DOMAIN Unescaped /\ Unescaped["r"] = ch
    BY <1>4 DEF Unescaped
  <2> QED
    BY <2>1, <2>2
<1>5. CASE ch \notin {Backslash, Tab, LF, CR}
  BY <1>5 DEF EscapeChar, Plain
<1> QED
  BY <1>1, <1>2, <1>3, <1>4, <1>5

\* A text of plain symbols is a text.
LEMMA PlainTexts ==
  /\ Seq(Plain) \subseteq Texts
  /\ \A text \in Seq(Plain) : \A i \in 1 .. Len(text) : text[i] \in Plain
<1>1. \A text \in Seq(Plain) : text \in Texts
  BY SeqMonotonic DEF Plain, Texts
<1> QED
  BY <1>1, ElementOfSeq

\* Two symbols at once are two one after the other.
LEMMA TwoMore ==
  ASSUME NEW S, NEW s \in Seq(S), NEW a \in S, NEW b \in S
  PROVE  s \o <<a, b>> = Append(Append(s, a), b)
<1>1. <<a>> \in Seq(S) /\ <<b>> \in Seq(S) /\ <<a, b>> = <<a>> \o <<b>>
  <2>1. <<a>> \in Seq(S) /\ <<b>> \in Seq(S)
    OBVIOUS
  <2>2. <<a, b>> = <<a>> \o <<b>>
    <3> DEFINE left == <<a, b>>
               right == <<a>> \o <<b>>
    <3>1. left \in Seq(S) /\ Len(left) = 2 /\ left[1] = a /\ left[2] = b
      OBVIOUS
    <3>2. right \in Seq(S) /\ Len(right) = 2 /\ right[1] = a /\ right[2] = b
      BY <2>1, ConcatProperties
    <3> HIDE DEF left, right
    <3>3. \A i \in 1 .. 2 : left[i] = right[i]
      BY <3>1, <3>2
    <3>4. left = right
      BY <3>1, <3>2, <3>3, SeqEqual
    <3> QED
      BY <3>4 DEF left, right
  <2> QED
    BY <2>1, <2>2
<1>2. s \o (<<a>> \o <<b>>) = (s \o <<a>>) \o <<b>>
  BY <1>1, ConcatAssociative
<1>3. Append(s, a) \in Seq(S) /\ Append(s, a) = s \o <<a>>
  BY AppendProperties, AppendIsConcat
<1>4. Append(Append(s, a), b) = Append(s, a) \o <<b>>
  BY <1>3, AppendIsConcat
<1> QED
  BY <1>1, <1>2, <1>3, <1>4

\* An escaped text (escape_field) has no tab and no line end in it, and
\* unescape_field reads it back as it was.
THEOREM EscapedText ==
  ASSUME NEW text \in Texts
  PROVE  /\ Escape(text) \in Seq(Plain)
         /\ Unescape(Escape(text)) = [ok |-> TRUE, text |-> text]
<1> DEFINE Good == {t \in Texts :
              /\ Escape(t) \in Seq(Plain)
              /\ After("unescape", Escape(t)) = [out |-> t, escape |-> FALSE, ok |-> TRUE]}
<1>1. <<>> \in Good
  <2>1. Escape(<<>>) = <<>>
    BY EndsOfLoops, OneMore, EmptySeq, SymbolFacts DEF Begin, Texts
  <2>2. After("unescape", <<>>) = [out |-> <<>>, escape |-> FALSE, ok |-> TRUE]
    BY OneMore, EmptySeq, SymbolFacts DEF Begin, Texts
  <2> QED
    BY <2>1, <2>2, EmptySeq DEF Texts
<1>2. ASSUME NEW t \in Texts, NEW ch \in Symbols, t \in Good
      PROVE  Append(t, ch) \in Good
  <2> DEFINE e == Escape(t)
             state == [out |-> t, escape |-> FALSE, ok |-> TRUE]
  <2>1. /\ Escape(Append(t, ch)) = e \o EscapeChar(ch)
        /\ e \in Seq(Plain) /\ e \in Texts
        /\ After("unescape", e) = state
        /\ Append(t, ch) \in Texts
    <3>1. Escape(Append(t, ch)) = e \o EscapeChar(ch)
      <4>1. After("escape", Append(t, ch)) = After("escape", t) \o EscapeChar(ch)
        BY OneMore, Turns
      <4> QED
        BY <4>1, EndsOfLoops
    <3>2. e \in Seq(Plain) /\ e \in Texts /\ After("unescape", e) = state
      BY <1>2, PlainTexts
    <3> QED
      BY <3>1, <3>2, AppendProperties DEF Texts
  <2>2. CASE ch \in Plain \ {Backslash} /\ EscapeChar(ch) = <<ch>>
    <3>1. /\ e \o EscapeChar(ch) = Append(e, ch)
          /\ Append(e, ch) \in Seq(Plain)
      BY <2>1, <2>2, AppendIsConcat, AppendProperties
    <3>2. After("unescape", Append(e, ch)) = Read(state, ch)
      BY <2>1, OneMore, Turns
    <3>3. Read(state, ch) = [out |-> Append(t, ch), escape |-> FALSE, ok |-> TRUE]
      BY <2>2 DEF Read
    <3> QED
      BY <2>1, <3>1, <3>2, <3>3
  <2>3. ASSUME NEW code \in DOMAIN Unescaped,
               EscapeChar(ch) = <<Backslash, code>>, Unescaped[code] = ch
        PROVE  Append(t, ch) \in Good
    <3>0. Backslash \in Plain /\ code \in Plain /\ Plain \subseteq Symbols
      BY SymbolFacts DEF Plain
    <3>1. /\ e \o EscapeChar(ch) = Append(Append(e, Backslash), code)
          /\ Append(e, Backslash) \in Seq(Plain)
          /\ Append(Append(e, Backslash), code) \in Seq(Plain)
      BY <2>1, <2>3, <3>0, TwoMore, AppendProperties
    <3> DEFINE half == [out |-> t, escape |-> TRUE, ok |-> TRUE]
    <3>2. After("unescape", Append(e, Backslash)) = half
      <4>1. After("unescape", Append(e, Backslash)) = Read(state, Backslash)
        BY <2>1, <3>0, OneMore, Turns
      <4>2. Read(state, Backslash) = half
        BY DEF Read
      <4> QED
        BY <4>1, <4>2
    <3>3. After("unescape", Append(Append(e, Backslash), code)) = Read(half, code)
      <4>1. Append(e, Backslash) \in Texts /\ code \in Symbols
        BY <3>0, <3>1, PlainTexts
      <4> QED
        BY <3>2, <4>1, OneMore, Turns
    <3>4. Read(half, code) = [out |-> Append(t, ch), escape |-> FALSE, ok |-> TRUE]
      BY <2>3 DEF Read
    <3> QED
      BY <2>1, <3>1, <3>3, <3>4
  <2> QED
    BY <2>2, <2>3, EscapedSymbol
<1> HIDE DEF Good
<1>3. Texts \subseteq Good
  BY <1>1, <1>2, TextInduction
<1>4. /\ Escape(text) \in Seq(Plain)
      /\ After("unescape", Escape(text)) = [out |-> text, escape |-> FALSE, ok |-> TRUE]
  BY <1>3 DEF Good
<1>5. LET end == After("unescape", Escape(text))
      IN Unescape(Escape(text)) = [ok |-> end.ok /\ ~end.escape, text |-> end.out]
  BY EndsOfLoops
<1>6. Unescape(Escape(text)) = [ok |-> TRUE /\ ~FALSE, text |-> text]
  BY <1>4, <1>5
<1> QED
  BY <1>4, <1>6

-----------------------------------------------------------------------------
(* Splitting. *)

\* No field ends within it.
NoTab(field) == \A i \in 1 .. Len(field) : field[i] # Tab

\* One symbol more of a line.
LEMMA SplitOneMore ==
  ASSUME NEW row \in Texts, NEW ch \in Symbols
  PROVE  /\ Split(<<>>) = <<<<>>>>
         /\ Split(Append(row, ch)) = Cut(Split(row), ch)
<1>1. Split(<<>>) = After("split", <<>>) /\ Split(row) = After("split", row)
  BY EndsOfLoops
<1>2. Split(Append(row, ch)) = After("split", Append(row, ch))
  BY EndsOfLoops
<1>3. After("split", <<>>) = <<<<>>>>
  BY OneMore, Turns
<1>4. After("split", Append(row, ch)) = Cut(After("split", row), ch)
  BY OneMore, Turns
<1> QED
  BY <1>1, <1>2, <1>3, <1>4

\* A symbol begins a field or is added to the last one.
LEMMA CutFields ==
  ASSUME NEW fields \in Seq(Texts), NEW last \in Texts, NEW ch \in Symbols
  PROVE  LET before == Append(fields, last)
         IN /\ before \in Seq(Texts) /\ Len(before) = Len(fields) + 1
            /\ ch = Tab => Cut(before, ch) = Append(before, <<>>)
            /\ ch # Tab => Cut(before, ch) = Append(fields, Append(last, ch))
<1> DEFINE before == Append(fields, last)
           m == Len(fields)
           after == Append(fields, Append(last, ch))
           cut == [before EXCEPT ![m + 1] = Append(last, ch)]
<1>1. /\ before \in Seq(Texts) /\ Len(before) = m + 1 /\ m \in Nat
      /\ \A i \in 1 .. m : before[i] = fields[i]
      /\ before[m + 1] = last
  BY AppendProperties, LenProperties
<1>2. Append(last, ch) \in Texts
  BY AppendProperties DEF Texts
<1>3. /\ after \in Seq(Texts) /\ Len(after) = m + 1
      /\ \A i \in 1 .. m : after[i] = fields[i]
      /\ after[m + 1] = Append(last, ch)
  BY <1>2, AppendProperties
<1>4. ASSUME ch # Tab PROVE Cut(before, ch) = cut
  BY <1>1, <1>4 DEF Cut
<1>5. ch = Tab => Cut(before, ch) = Append(before, <<>>)
  BY DEF Cut
<1> HIDE DEF before, after, m
<1>6. cut \in Seq(Texts) /\ Len(cut) = m + 1
      /\ \A j \in 1 .. m + 1 : cut[j] = IF j = m + 1 THEN Append(last, ch) ELSE before[j]
  <2>1. m + 1 \in 1 .. Len(before)
    BY <1>1
  <2> QED
    BY <1>1, <1>2, <2>1, ExceptSeq
<1> HIDE DEF cut
<1>7. ASSUME NEW i \in 1 .. m + 1 PROVE cut[i] = after[i]
  <2>1. CASE i = m + 1
    BY <1>3, <1>6, <2>1
  <2>2. CASE i # m + 1
    <3>1. i \in 1 .. m
      BY <1>1, <2>2
    <3> QED
      BY <1>1, <1>3, <1>6, <2>2, <3>1
  <2> QED
    BY <2>1, <2>2
<1>8. cut = after
  BY <1>3, <1>6, <1>7, SeqEqual
<1> QED
  BY <1>1, <1>4, <1>5, <1>8 DEF before, after, m

\* A line has at least one field, and fields are texts.
LEMMA SplitTexts ==
  ASSUME NEW row \in Texts
  PROVE  /\ Split(row) \in Seq(Texts) /\ Len(Split(row)) \in Nat \ {0}
<1> DEFINE S == {t \in Texts : Split(t) \in Seq(Texts) /\ Split(t) # <<>>}
<1>1. <<>> \in S
  <2>1. Split(<<>>) = <<<<>>>>
    BY SplitOneMore, EmptySeq, SymbolFacts DEF Texts
  <2>2. <<>> \in Texts
    BY EmptySeq DEF Texts
  <2>3. \A t \in Texts : <<t>> \in Seq(Texts) /\ <<t>> # <<>>
    OBVIOUS
  <2> QED
    BY <2>1, <2>2, <2>3
<1>2. ASSUME NEW t \in Texts, NEW ch \in Symbols, t \in S
      PROVE  Append(t, ch) \in S
  <2>1. PICK fields \in Seq(Texts), last \in Texts : Split(t) = Append(fields, last)
    BY <1>2, SequenceEmptyOrAppend
  <2>2. Split(Append(t, ch)) = Cut(Append(fields, last), ch)
    BY <2>1, SplitOneMore
  <2>3. Append(t, ch) \in Texts /\ Append(last, ch) \in Texts /\ <<>> \in Texts
    BY AppendProperties, EmptySeq DEF Texts
  <2>4. CASE ch = Tab
    <3>1. Cut(Append(fields, last), ch) = Append(Append(fields, last), <<>>)
      BY <2>4, CutFields
    <3>2. Append(fields, last) \in Seq(Texts)
      BY AppendProperties
    <3>3. /\ Append(Append(fields, last), <<>>) \in Seq(Texts)
          /\ Append(Append(fields, last), <<>>) # <<>>
      BY <2>3, <3>2, AppendProperties
    <3> QED
      BY <2>2, <2>3, <3>1, <3>3
  <2>5. CASE ch # Tab
    <3>1. Cut(Append(fields, last), ch) = Append(fields, Append(last, ch))
      BY <2>5, CutFields
    <3>2. /\ Append(fields, Append(last, ch)) \in Seq(Texts)
          /\ Append(fields, Append(last, ch)) # <<>>
      BY <2>3, AppendProperties
    <3> QED
      BY <2>2, <2>3, <3>1, <3>2
  <2> QED
    BY <2>4, <2>5
<1> HIDE DEF S
<1>3. Texts \subseteq S
  BY <1>1, <1>2, TextInduction
<1>4. Split(row) \in Seq(Texts) /\ Split(row) # <<>>
  BY <1>3 DEF S
<1> QED
  BY <1>4, EmptySeq

\* A symbol added to the second of two texts is added to both.
LEMMA ConcatAppend ==
  ASSUME NEW s \in Texts, NEW t \in Texts, NEW ch \in Symbols
  PROVE  /\ s \o t \in Texts
         /\ s \o Append(t, ch) = Append(s \o t, ch)
<1>1. s \o t \in Texts
  BY ConcatProperties DEF Texts
<1>2. <<ch>> \in Texts
  BY DEF Texts
<1>3. Append(t, ch) = t \o <<ch>> /\ Append(s \o t, ch) = (s \o t) \o <<ch>>
  BY <1>1, AppendIsConcat DEF Texts
<1>4. (s \o t) \o <<ch>> = s \o (t \o <<ch>>)
  BY <1>2, ConcatAssociative DEF Texts
<1> QED
  BY <1>1, <1>3, <1>4

\* A field without a tab fills the last field of what stands before it.
LEMMA LastField ==
  ASSUME NEW row \in Texts, NEW fields \in Seq(Texts),
         Split(row) = Append(fields, <<>>),
         NEW field \in Texts, NoTab(field)
  PROVE  Split(row \o field) = Append(fields, field)
<1> DEFINE S == {t \in Texts : NoTab(t) => Split(row \o t) = Append(fields, t)}
<1>1. <<>> \in S
  BY EmptySeq, ConcatEmptySeq DEF Texts
<1>2. ASSUME NEW t \in Texts, NEW ch \in Symbols, t \in S
      PROVE  Append(t, ch) \in S
  <2> SUFFICES ASSUME NoTab(Append(t, ch))
               PROVE  Split(row \o Append(t, ch)) = Append(fields, Append(t, ch))
    BY AppendProperties DEF Texts
  <2>1. /\ Len(Append(t, ch)) = Len(t) + 1 /\ Len(t) \in Nat
        /\ \A i \in 1 .. Len(t) : Append(t, ch)[i] = t[i]
        /\ Append(t, ch)[Len(t) + 1] = ch
    BY AppendProperties, LenProperties DEF Texts
  <2>2. NoTab(t) /\ ch # Tab
    BY <2>1 DEF NoTab
  <2>3. Split(row \o t) = Append(fields, t)
    BY <1>2, <2>2
  <2>4. /\ row \o Append(t, ch) = Append(row \o t, ch) /\ row \o t \in Texts
    BY ConcatAppend
  <2>5. Split(Append(row \o t, ch)) = Cut(Append(fields, t), ch)
    BY <2>3, <2>4, SplitOneMore
  <2> QED
    BY <2>2, <2>4, <2>5, CutFields
<1> HIDE DEF S
<1>3. Texts \subseteq S
  BY <1>1, <1>2, TextInduction
<1> QED
  BY <1>3 DEF S

\* A row with one field more.
With(row, field) == (row \o <<Tab>>) \o field

\* A tab and a field without one add this field to a line's.
LEMMA FieldAfter ==
  ASSUME NEW row \in Texts, NEW field \in Texts, NoTab(field),
         NEW n \in Nat, Len(Split(row)) = n
  PROVE  /\ With(row, field) \in Texts
         /\ Len(Split(With(row, field))) = n + 1
         /\ \A i \in 1 .. n : Split(With(row, field))[i] = Split(row)[i]
         /\ Split(With(row, field))[n + 1] = field
<1>1. Split(row) \in Seq(Texts) /\ Len(Split(row)) \in Nat \ {0}
  BY SplitTexts
<1>2. PICK fields \in Seq(Texts), last \in Texts : Split(row) = Append(fields, last)
  BY <1>1, EmptySeq, SequenceEmptyOrAppend
<1>3. Tab \in Symbols
  BY SymbolFacts
<1>4. Append(row, Tab) \in Texts /\ Append(row, Tab) = row \o <<Tab>>
  BY <1>3, AppendProperties, AppendIsConcat DEF Texts
<1>5. Split(Append(row, Tab)) = Append(Split(row), <<>>)
  <2>1. Split(Append(row, Tab)) = Cut(Split(row), Tab)
    BY <1>3, SplitOneMore
  <2>2. Cut(Append(fields, last), Tab) = Append(Append(fields, last), <<>>)
    BY <1>3, CutFields
  <2> QED
    BY <1>2, <2>1, <2>2
<1>6. Split((row \o <<Tab>>) \o field) = Append(Split(row), field)
  BY <1>1, <1>4, <1>5, LastField
<1>7. (row \o <<Tab>>) \o field \in Texts
  BY <1>4, ConcatProperties DEF Texts
<1> DEFINE more == Append(Split(row), field)
<1>8. /\ Len(more) = n + 1
      /\ \A i \in 1 .. n : more[i] = Split(row)[i]
      /\ more[n + 1] = field
  BY <1>1, AppendProperties
<1> HIDE DEF more
<1>9. Split(With(row, field)) = more
  BY <1>6 DEF With, more
<1>10. With(row, field) \in Texts
  BY <1>7 DEF With
<1> QED
  BY <1>8, <1>9, <1>10

\* The first field of a line.
LEMMA FirstField ==
  ASSUME NEW field \in Texts, NoTab(field)
  PROVE  Split(field) = <<field>>
<1>1. <<>> \in Texts /\ <<>> \in Seq(Texts) /\ <<>> \o field = field
  BY EmptySeq, ConcatEmptySeq DEF Texts
<1>2. Split(<<>>) = <<<<>>>>
  BY <1>1, SplitOneMore, SymbolFacts
<1>3. Split(<<>>) = Append(<<>>, <<>>)
  BY <1>2
<1>4. Split(field) = Append(<<>>, field)
  BY <1>1, <1>3, LastField
<1> QED
  BY <1>4

\* What is cut off a line takes no field more than the line has.
LEMMA FewerFields ==
  ASSUME NEW row \in Texts, NEW rest \in Texts
  PROVE  Len(Split(row)) <= Len(Split(row \o rest))
<1> DEFINE S == {t \in Texts : Len(Split(row)) <= Len(Split(row \o t))}
<1>0. Len(Split(row)) \in Nat
  BY SplitTexts
<1>1. <<>> \in S
  BY <1>0, EmptySeq, ConcatEmptySeq DEF Texts
<1>2. ASSUME NEW t \in Texts, NEW ch \in Symbols, t \in S
      PROVE  Append(t, ch) \in S
  <2>1. /\ row \o Append(t, ch) = Append(row \o t, ch) /\ row \o t \in Texts
        /\ Append(t, ch) \in Texts
    BY ConcatAppend, AppendProperties DEF Texts
  <2>2. Split(row \o t) \in Seq(Texts) /\ Len(Split(row \o t)) \in Nat \ {0}
    BY <2>1, SplitTexts
  <2>3. PICK fields \in Seq(Texts), last \in Texts :
          Split(row \o t) = Append(fields, last)
    BY <2>2, EmptySeq, SequenceEmptyOrAppend
  <2>4. Split(row \o Append(t, ch)) = Cut(Append(fields, last), ch)
    BY <2>1, <2>3, SplitOneMore
  <2>5. Append(last, ch) \in Texts /\ <<>> \in Texts
    BY AppendProperties, EmptySeq DEF Texts
  <2>6. Len(Cut(Append(fields, last), ch)) >= Len(Append(fields, last))
    <3>1. /\ Append(fields, last) \in Seq(Texts)
          /\ Len(Append(fields, last)) = Len(fields) + 1 /\ Len(fields) \in Nat
      BY AppendProperties, LenProperties
    <3>2. CASE ch = Tab
      <4>1. Cut(Append(fields, last), ch) = Append(Append(fields, last), <<>>)
        BY <3>2, CutFields
      <4>2. Len(Append(Append(fields, last), <<>>)) = Len(Append(fields, last)) + 1
        BY <2>5, <3>1, AppendProperties
      <4> QED
        BY <3>1, <4>1, <4>2
    <3>3. CASE ch # Tab
      <4>1. Cut(Append(fields, last), ch) = Append(fields, Append(last, ch))
        BY <3>3, CutFields
      <4>2. Len(Append(fields, Append(last, ch))) = Len(fields) + 1
        BY <2>5, AppendProperties
      <4> QED
        BY <3>1, <4>1, <4>2
    <3> QED
      BY <3>2, <3>3
  <2>7. Len(Split(row \o Append(t, ch))) \in Nat
    BY <2>1, SplitTexts, ConcatProperties DEF Texts
  <2>8. /\ Len(Split(row)) <= Len(Split(row \o t))
        /\ Len(Split(row \o Append(t, ch))) >= Len(Split(row \o t))
    BY <1>2, <2>3, <2>4, <2>6
  <2> DEFINE a == Len(Split(row))
             b == Len(Split(row \o t))
             c == Len(Split(row \o Append(t, ch)))
  <2>9. a \in Nat /\ b \in Nat /\ c \in Nat /\ a <= b /\ c >= b
    BY <1>0, <2>2, <2>7, <2>8
  <2> HIDE DEF a, b, c
  <2>10. a <= c
    BY <2>9
  <2> QED
    BY <2>1, <2>10 DEF a, c
<1> HIDE DEF S
<1>3. Texts \subseteq S
  BY <1>1, <1>2, TextInduction
<1> QED
  BY <1>3 DEF S

-----------------------------------------------------------------------------
(* The worker's line, and what its parent reads from any part of it. *)

\* The report of a worker, and the texts in it.
LEMMA PlanTexts ==
  ASSUME NEW p \in Plans
  PROVE  /\ p.lastImport \in Texts /\ p.lastDetail \in Texts /\ p.hostError \in Texts
         /\ p.actual \in CodeSymbols \cup {"none"} /\ "none" \notin CodeSymbols
         /\ p = [actual |-> p.actual, lastImport |-> p.lastImport,
                 lastDetail |-> p.lastDetail, hostError |-> p.hostError]
         /\ p.actual = "none" <=> p.hostError # <<>>
<1>1. \A text \in Details \cup HostErrors : text \in Texts
  <2> SUFFICES ASSUME NEW text \in Details \cup HostErrors PROVE text \in Texts
    OBVIOUS
  <2>1. text \in Seq({text[i] : i \in DOMAIN text})
    BY TextAssumption
  <2>2. {text[i] : i \in DOMAIN text} \subseteq Symbols
    BY DEF Symbols, Written
  <2> QED
    BY <2>1, <2>2, SeqMonotonic DEF Texts
<1>2. <<>> \in Texts /\ <<"x">> \in Texts
  <2>1. "x" \in Symbols
    BY SymbolFacts DEF Plain
  <2> QED
    BY <2>1, EmptySeq DEF Texts
<1>3. "none" \notin CodeSymbols
  BY DEF CodeSymbols
<1>4. CASE p \in [actual: CodeSymbols, lastImport: {<<"x">>}, lastDetail: Details,
                  hostError: {<<>>}]
  BY <1>1, <1>2, <1>3, <1>4
<1>5. CASE p \in [actual: {"none"}, lastImport: {<<>>}, lastDetail: {<<>>},
                  hostError: HostErrors]
  BY <1>1, <1>2, <1>3, <1>5, TextAssumption
<1> QED
  BY <1>4, <1>5 DEF Plans

\* The field of actual_code.
CodeField(p) == IF p.actual = "none" THEN <<>> ELSE <<p.actual>>

\* Symbols that do not end the line.
InLine == Symbols \ {LF}

\* Plain texts have no tab and stay on their line, whole or in part.
LEMMA PlainFields ==
  ASSUME NEW text \in Seq(Plain)
  PROVE  text \in Texts /\ NoTab(text) /\ text \in Seq(InLine)
<1>1. text \in Texts /\ NoTab(text)
  BY PlainTexts DEF NoTab, Plain
<1>2. Plain \subseteq InLine
  BY DEF Plain, InLine
<1> QED
  BY <1>1, <1>2, SeqMonotonic

\* Six fields stand before the tab of host_error.
LEMMA HeadFields ==
  ASSUME NEW p \in Plans
  PROVE  \E head \in Seq(InLine) :
           /\ BeforeError(p) = head \o <<Tab>> /\ BeforeError(p) \in Seq(InLine)
           /\ Len(Split(head)) = 6
           /\ Split(head)[1] = Prefix /\ Split(head)[2] = CodeField(p)
           /\ Split(head)[3] = <<Number>> /\ Split(head)[5] = <<Number>>
           /\ Split(head)[4] = Escape(p.lastImport)
           /\ Split(head)[6] = Escape(p.lastDetail)
<1> DEFINE code == CodeField(p)
           number == <<Number>>
           import == Escape(p.lastImport)
           detail == Escape(p.lastDetail)
           tab == <<Tab>>
           h2 == With(Prefix, code)
           h3 == With(h2, number)
           h4 == With(h3, import)
           h5 == With(h4, number)
           h6 == With(h5, detail)
<1>1. /\ Prefix \in Seq(Plain) /\ code \in Seq(Plain) /\ number \in Seq(Plain)
      /\ import \in Seq(Plain) /\ detail \in Seq(Plain)
  <2>1. import \in Seq(Plain) /\ detail \in Seq(Plain)
    BY EscapedText, PlanTexts
  <2>2. number \in Seq(Plain)
    BY SymbolFacts
  <2>3. Prefix \in Seq(Plain)
    <3>1. <<Prefix[1]>> \in Seq(Plain)
      BY SymbolFacts
    <3> QED
      BY <3>1, SymbolFacts
  <2>4. code \in Seq(Plain)
    <3>1. CASE p.actual = "none"
      BY <3>1, EmptySeq DEF CodeField
    <3>2. CASE p.actual # "none"
      <4>1. p.actual \in Plain
        BY <3>2, PlanTexts, SymbolFacts
      <4> QED
        BY <3>2, <4>1 DEF CodeField
    <3> QED
      BY <3>1, <3>2
  <2> QED
    BY <2>1, <2>2, <2>3, <2>4
<1>2. tab \in Seq(InLine)
  <2>1. Tab \in InLine
    BY SymbolFacts DEF InLine
  <2> QED
    BY <2>1
<1>3. BeforeError(p) = h6 \o tab
  BY DEF BeforeError, CodeField, With
<1> HIDE DEF code, number, import, detail
<1>4. /\ Prefix \in Texts /\ NoTab(Prefix) /\ Prefix \in Seq(InLine)
      /\ code \in Texts /\ NoTab(code) /\ code \in Seq(InLine)
      /\ number \in Texts /\ NoTab(number) /\ number \in Seq(InLine)
      /\ import \in Texts /\ NoTab(import) /\ import \in Seq(InLine)
      /\ detail \in Texts /\ NoTab(detail) /\ detail \in Seq(InLine)
  BY <1>1, PlainFields
<1>5. Split(Prefix) = <<Prefix>>
  BY <1>4, FirstField
<1> DEFINE Line == Seq(InLine)
<1> DEFINE Added(str, field, n, longer) ==
             /\ longer \in Texts /\ Len(Split(longer)) = n + 1
             /\ \A i \in 1 .. n : Split(longer)[i] = Split(str)[i]
             /\ Split(longer)[n + 1] = field
<1>a. \A str \in Texts, field \in Texts, n \in Nat :
        NoTab(field) /\ Len(Split(str)) = n => Added(str, field, n, With(str, field))
  BY FieldAfter
<1> HIDE DEF Added
<1>b. Len(Split(Prefix)) = 1 /\ Split(Prefix)[1] = Prefix
  <2>1. Len(<<Prefix>>) = 1 /\ <<Prefix>>[1] = Prefix
    OBVIOUS
  <2> QED
    BY <1>5, <2>1
<1>6. /\ h2 \in Texts /\ Len(Split(h2)) = 2
      /\ Split(h2)[1] = Prefix /\ Split(h2)[2] = code
  <2>0. h2 = With(Prefix, code)
    OBVIOUS
  <2> HIDE DEF h2
  <2>1. Added(Prefix, code, 1, h2)
    BY <1>4, <1>a, <1>b, <2>0
  <2>2. /\ h2 \in Texts /\ Len(Split(h2)) = 2 /\ Split(h2)[2] = code
        /\ \A i \in 1 .. 1 : Split(h2)[i] = Split(Prefix)[i]
    BY <2>1 DEF Added
  <2> QED
    BY <1>b, <2>2
<1>7. /\ h3 \in Texts /\ Len(Split(h3)) = 3
      /\ Split(h3)[1] = Prefix /\ Split(h3)[2] = code /\ Split(h3)[3] = number
  <2> HIDE DEF h2
  <2>0. h3 = With(h2, number)
    OBVIOUS
  <2> HIDE DEF h3
  <2>1. Added(h2, number, 2, h3)
    BY <1>4, <1>a, <1>6, <2>0
  <2>2. /\ h3 \in Texts /\ Len(Split(h3)) = 3 /\ Split(h3)[3] = number
        /\ \A i \in 1 .. 2 : Split(h3)[i] = Split(h2)[i]
    BY <2>1 DEF Added
  <2> QED
    BY <1>6, <2>2
<1>8. /\ h4 \in Texts /\ Len(Split(h4)) = 4
      /\ Split(h4)[1] = Prefix /\ Split(h4)[2] = code /\ Split(h4)[3] = number
      /\ Split(h4)[4] = import
  <2> HIDE DEF h3
  <2>0. h4 = With(h3, import)
    OBVIOUS
  <2> HIDE DEF h4
  <2>1. Added(h3, import, 3, h4)
    BY <1>4, <1>a, <1>7, <2>0
  <2>2. /\ h4 \in Texts /\ Len(Split(h4)) = 4 /\ Split(h4)[4] = import
        /\ \A i \in 1 .. 3 : Split(h4)[i] = Split(h3)[i]
    BY <2>1 DEF Added
  <2> QED
    BY <1>7, <2>2
<1>9. /\ h5 \in Texts /\ Len(Split(h5)) = 5
      /\ Split(h5)[1] = Prefix /\ Split(h5)[2] = code /\ Split(h5)[3] = number
      /\ Split(h5)[4] = import /\ Split(h5)[5] = number
  <2> HIDE DEF h4
  <2>0. h5 = With(h4, number)
    OBVIOUS
  <2> HIDE DEF h5
  <2>1. Added(h4, number, 4, h5)
    BY <1>4, <1>a, <1>8, <2>0
  <2>2. /\ h5 \in Texts /\ Len(Split(h5)) = 5 /\ Split(h5)[5] = number
        /\ \A i \in 1 .. 4 : Split(h5)[i] = Split(h4)[i]
    BY <2>1 DEF Added
  <2> QED
    BY <1>8, <2>2
<1>10. /\ h6 \in Texts /\ Len(Split(h6)) = 6
      /\ Split(h6)[1] = Prefix /\ Split(h6)[2] = code /\ Split(h6)[3] = number
      /\ Split(h6)[4] = import /\ Split(h6)[5] = number /\ Split(h6)[6] = detail
  <2> HIDE DEF h5
  <2>0. h6 = With(h5, detail)
    OBVIOUS
  <2> HIDE DEF h6
  <2>1. Added(h5, detail, 5, h6)
    BY <1>4, <1>a, <1>9, <2>0
  <2>2. /\ h6 \in Texts /\ Len(Split(h6)) = 6 /\ Split(h6)[6] = detail
        /\ \A i \in 1 .. 5 : Split(h6)[i] = Split(h5)[i]
    BY <2>1 DEF Added
  <2> QED
    BY <1>9, <2>2
<1>11. \A s, t \in Line : With(s, t) \in Line /\ s \o tab \in Line
  BY <1>2, ConcatProperties DEF With
<1> HIDE DEF Line, tab
<1>12. h6 \in Line /\ h6 \o tab \in Line
  <2>1. /\ Prefix \in Line /\ code \in Line /\ number \in Line /\ import \in Line
        /\ detail \in Line /\ tab \in Line
    BY <1>2, <1>4 DEF Line
  <2>2. h2 \in Line
    BY <1>11, <2>1
  <2> HIDE DEF h2
  <2>3. h3 \in Line
    BY <1>11, <2>1, <2>2
  <2> HIDE DEF h3
  <2>4. h4 \in Line
    BY <1>11, <2>1, <2>3
  <2> HIDE DEF h4
  <2>5. h5 \in Line
    BY <1>11, <2>1, <2>4
  <2> HIDE DEF h5
  <2>6. h6 \in Line
    BY <1>11, <2>1, <2>5
  <2> HIDE DEF h6
  <2> QED
    BY <1>11, <2>1, <2>6
<1> HIDE DEF h6
<1> WITNESS h6 \in Seq(InLine)
<1> QED
  BY <1>3, <1>10, <1>12 DEF Line, code, number, import, detail, tab

\* Where a line ends, or does not.
LEMMA FirstLines ==
  ASSUME NEW text \in Seq(InLine)
  PROVE  FirstLine(text) = text /\ FirstLine(text \o <<LF>>) = text
<1>1. /\ \A i \in 1 .. Len(text) : text[i] # LF
      /\ Len(text) \in Nat /\ DOMAIN text = 1 .. Len(text)
  BY ElementOfSeq, LenProperties DEF InLine
<1>2. FirstLine(text) = text
  <2>1. {i \in DOMAIN text : text[i] = LF} = {}
    BY <1>1
  <2> QED
    BY <2>1 DEF FirstLine
<1> DEFINE n == Len(text)
           whole == text \o <<LF>>
<1>3. /\ whole \in Texts /\ Len(whole) = n + 1 /\ DOMAIN whole = 1 .. n + 1
      /\ \A i \in 1 .. n : whole[i] = text[i]
      /\ whole[n + 1] = LF
      /\ text \in Texts
  <2>1. text \in Texts /\ LF \in Symbols
    BY SeqMonotonic, SymbolFacts DEF InLine, Texts
  <2>2. whole = Append(text, LF)
    BY <2>1, AppendIsConcat DEF Texts
  <2>3. whole \in Texts
    BY <2>1, <2>2, AppendProperties DEF Texts
  <2> QED
    BY <2>1, <2>2, <2>3, AppendProperties, LenProperties DEF Texts
<1> HIDE DEF whole
<1>4. {i \in DOMAIN whole : whole[i] = LF} = {n + 1}
  BY <1>1, <1>3
<1>5. Min({n + 1}) = n + 1
  BY <1>1 DEF Min
<1>6. FirstLine(whole) = SubSeq(whole, 1, n)
  <2>1. (n + 1) - 1 = n
    BY <1>1
  <2>2. {n + 1} # {}
    OBVIOUS
  <2> HIDE DEF n
  <2> QED
    BY <1>4, <1>5, <2>1, <2>2 DEF FirstLine
<1>7. SubSeq(whole, 1, n) = text
  <2> DEFINE part == SubSeq(whole, 1, n)
  <2>1. \A i \in 1 .. n : whole[i] \in Symbols
    BY <1>3, <1>1, ElementOfSeq DEF Texts
  <2>2. /\ part \in Texts /\ Len(part) = n
        /\ \A i \in 1 .. n : part[i] = whole[i]
    <3>1. /\ part \in Seq(Symbols) /\ Len(part) = IF 1 <= n THEN n - 1 + 1 ELSE 0
          /\ \A i \in 1 .. n - 1 + 1 : part[i] = whole[1 + i - 1]
      BY <1>1, <2>1, SubSeqProperties
    <3>2. n - 1 + 1 = n /\ (1 <= n \/ n = 0) /\ \A i \in 1 .. n : 1 + i - 1 = i
      BY <1>1
    <3> QED
      BY <3>1, <3>2 DEF Texts
  <2> HIDE DEF part
  <2>3. \A i \in 1 .. Len(part) : part[i] = text[i]
    BY <1>3, <2>2
  <2>4. part = text
    BY <1>3, <2>2, <2>3, SeqEqual DEF Texts
  <2> QED
    BY <2>4 DEF part
<1> QED
  BY <1>2, <1>6, <1>7 DEF whole

-----------------------------------------------------------------------------
\* Seven fields as the worker writes them are a report, if the last one can be
\* read.
LEMMA ParsedFields ==
  ASSUME NEW p \in Plans, NEW stdout,
         Len(Fields(stdout)) = 7,
         Fields(stdout)[1] = Prefix, Fields(stdout)[2] = CodeField(p),
         Fields(stdout)[3] = <<Number>>, Fields(stdout)[5] = <<Number>>,
         Fields(stdout)[4] = Escape(p.lastImport),
         Fields(stdout)[6] = Escape(p.lastDetail)
  PROVE  LET error == Unescape(Fields(stdout)[7])
         IN Parse(stdout) = IF error.ok THEN [p EXCEPT !.hostError = error.text]
                            ELSE NoSummary
<1> DEFINE fields == Fields(stdout)
           error == Unescape(fields[7])
           texts == [i \in {4, 6, 7} |-> Unescape(fields[i])]
           code == IF fields[2] = <<>> THEN "none" ELSE fields[2][1]
           readable == /\ Len(fields) >= 7
                       /\ fields[1] = Prefix
                       /\ fields[2] \in {<<>>} \cup {<<c>> : c \in CodeSymbols}
                       /\ fields[3] = <<Number>> /\ fields[5] = <<Number>>
                       /\ \A i \in {4, 6, 7} : texts[i].ok
           read == [actual |-> code, lastImport |-> texts[4].text,
                    lastDetail |-> texts[6].text, hostError |-> texts[7].text]
<1>1. Parse(stdout) = IF readable THEN read ELSE NoSummary
  BY DEF Parse
<1>2. texts[4] = [ok |-> TRUE, text |-> p.lastImport]
  BY EscapedText, PlanTexts
<1>3. texts[6] = [ok |-> TRUE, text |-> p.lastDetail]
  BY EscapedText, PlanTexts
<1>4. texts[7] = error
  OBVIOUS
<1> HIDE DEF texts, error
<1>5. /\ code = p.actual
      /\ fields[2] \in {<<>>} \cup {<<c>> : c \in CodeSymbols}
  <2>1. CASE p.actual = "none"
    BY <2>1 DEF CodeField
  <2>2. CASE p.actual # "none"
    <3>1. p.actual \in CodeSymbols /\ fields[2] = <<p.actual>>
      BY <2>2, PlanTexts DEF CodeField
    <3>2. <<p.actual>> # <<>> /\ <<p.actual>>[1] = p.actual
      OBVIOUS
    <3> QED
      BY <3>1, <3>2
  <2> QED
    BY <2>1, <2>2
<1> HIDE DEF code
<1>6. readable <=> error.ok
  <2>1. (\A i \in {4, 6, 7} : texts[i].ok) <=> error.ok
    BY <1>2, <1>3, <1>4
  <2> HIDE DEF fields
  <2> QED
    BY <1>5, <2>1 DEF fields
<1> HIDE DEF readable
<1>7. read = [p EXCEPT !.hostError = error.text]
  <2>1. read = [actual |-> p.actual, lastImport |-> p.lastImport,
                lastDetail |-> p.lastDetail, hostError |-> error.text]
    BY <1>2, <1>3, <1>4, <1>5
  <2>2. p = [actual |-> p.actual, lastImport |-> p.lastImport,
             lastDetail |-> p.lastDetail, hostError |-> p.hostError]
    BY PlanTexts
  <2> HIDE DEF read
  <2> QED
    BY <2>1, <2>2
<1> HIDE DEF read
<1> QED
  BY <1>1, <1>6, <1>7 DEF error

\* A part of a text, and what is left of it.
LEMMA Parts ==
  ASSUME NEW S, NEW str \in Seq(S), NEW n \in 0 .. Len(str)
  PROVE  /\ SubSeq(str, 1, n) \in Seq(S) /\ Len(SubSeq(str, 1, n)) = n
         /\ \A i \in 1 .. n : SubSeq(str, 1, n)[i] = str[i]
         /\ SubSeq(str, n + 1, Len(str)) \in Seq(S)
         /\ str = SubSeq(str, 1, n) \o SubSeq(str, n + 1, Len(str))
<1> DEFINE m == Len(str)
           cut == SubSeq(str, 1, n)
           rest == SubSeq(str, n + 1, m)
<1>1. m \in Nat /\ \A i \in 1 .. m : str[i] \in S
  BY LenProperties, ElementOfSeq
<1>2. /\ cut \in Seq(S) /\ Len(cut) = n
      /\ \A i \in 1 .. n : cut[i] = str[i]
  <2>1. \A i \in 1 .. n : str[i] \in S
    BY <1>1
  <2>2. /\ cut \in Seq(S) /\ Len(cut) = IF 1 <= n THEN n - 1 + 1 ELSE 0
        /\ \A i \in 1 .. n - 1 + 1 : cut[i] = str[1 + i - 1]
    BY <2>1, SubSeqProperties
  <2>3. n - 1 + 1 = n /\ (1 <= n \/ n = 0) /\ \A i \in 1 .. n : 1 + i - 1 = i
    OBVIOUS
  <2> HIDE DEF cut
  <2> QED
    BY <2>2, <2>3
<1>3. /\ rest \in Seq(S) /\ Len(rest) = m - n
      /\ \A i \in 1 .. m - n : rest[i] = str[n + i]
  <2>1. \A i \in n + 1 .. m : str[i] \in S
    BY <1>1
  <2>2. n + 1 \in Int /\ m \in Int
    BY <1>1
  <2>3. /\ rest \in Seq(S)
        /\ Len(rest) = IF n + 1 <= m THEN m - (n + 1) + 1 ELSE 0
        /\ \A i \in 1 .. m - (n + 1) + 1 : rest[i] = str[n + 1 + i - 1]
    BY <2>1, <2>2, SubSeqProperties
  <2>4. /\ m - (n + 1) + 1 = m - n /\ (n + 1 <= m \/ m - n = 0)
        /\ \A i \in 1 .. m - n : n + 1 + i - 1 = n + i
    BY <1>1
  <2> HIDE DEF rest, m
  <2> QED
    BY <2>3, <2>4
<1> HIDE DEF cut, rest, m
<1> DEFINE both == cut \o rest
<1>4. /\ both \in Seq(S) /\ Len(both) = m
      /\ \A i \in 1 .. m : both[i] = IF i <= n THEN cut[i] ELSE rest[i - n]
  <2> DEFINE c == Len(cut)
             r == Len(rest)
  <2>1. /\ both \in Seq(S) /\ Len(both) = c + r
        /\ \A i \in 1 .. c + r : both[i] = IF i <= c THEN cut[i] ELSE rest[i - c]
    BY <1>2, <1>3, ConcatProperties
  <2>2. c + r = m /\ c = n
    BY <1>1, <1>2, <1>3
  <2> HIDE DEF both, c, r
  <2> QED
    BY <2>1, <2>2
<1> HIDE DEF both
<1>5. ASSUME NEW i \in 1 .. m PROVE both[i] = str[i]
  <2>1. CASE i <= n
    BY <1>2, <1>4, <2>1
  <2>2. CASE i > n
    <3>1. i - n \in 1 .. m - n /\ n + (i - n) = i /\ ~(i <= n)
      BY <1>1, <2>2
    <3> QED
      BY <1>3, <1>4, <3>1
  <2> QED
    BY <1>1, <2>1, <2>2
<1>6. both = str
  BY <1>4, <1>5, SeqEqual DEF m
<1> QED
  BY <1>2, <1>3, <1>6 DEF both, cut, rest, m

\* A part of a text that ends in what follows its beginning.
LEMMA PartOfBoth ==
  ASSUME NEW S, NEW s \in Seq(S), NEW t \in Seq(S), NEW n \in 0 .. Len(s) + Len(t)
  PROVE  /\ n <= Len(s) => SubSeq(s \o t, 1, n) = SubSeq(s, 1, n)
         /\ n >= Len(s) => SubSeq(s \o t, 1, n) = s \o SubSeq(t, 1, n - Len(s))
<1> DEFINE a == Len(s)
           b == Len(t)
           both == s \o t
           cut == SubSeq(both, 1, n)
<1>1. a \in Nat /\ b \in Nat
  BY LenProperties
<1>2. /\ both \in Seq(S) /\ Len(both) = a + b
      /\ \A i \in 1 .. a + b : both[i] = IF i <= a THEN s[i] ELSE t[i - a]
  BY ConcatProperties
<1> HIDE DEF both
<1>3. /\ cut \in Seq(S) /\ Len(cut) = n
      /\ \A i \in 1 .. n : cut[i] = both[i]
  <2>1. n \in 0 .. Len(both)
    BY <1>2
  <2> QED
    BY <1>2, <2>1, Parts
<1> HIDE DEF cut
<1>4. ASSUME n <= a PROVE cut = SubSeq(s, 1, n)
  <2> DEFINE part == SubSeq(s, 1, n)
  <2>1. n \in 0 .. Len(s)
    BY <1>1, <1>4
  <2>2. /\ part \in Seq(S) /\ Len(part) = n
        /\ \A i \in 1 .. n : part[i] = s[i]
    BY <2>1, Parts
  <2> HIDE DEF part, a, b
  <2>3. \A i \in 1 .. n : cut[i] = part[i]
    <3> SUFFICES ASSUME NEW i \in 1 .. n PROVE cut[i] = part[i]
      OBVIOUS
    <3>1. i \in 1 .. a + b /\ i <= a
      BY <1>1, <1>4
    <3> QED
      BY <1>2, <1>3, <2>2, <3>1
  <2>4. cut = part
    BY <1>3, <2>2, <2>3, SeqEqual
  <2> QED
    BY <2>4 DEF part
<1>5. ASSUME n >= a PROVE cut = s \o SubSeq(t, 1, n - a)
  <2> DEFINE part == SubSeq(t, 1, n - a)
             whole == s \o part
  <2>1. n - a \in 0 .. b
    BY <1>1, <1>5
  <2>2. /\ part \in Seq(S) /\ Len(part) = n - a
        /\ \A i \in 1 .. n - a : part[i] = t[i]
    BY <2>1, Parts
  <2> HIDE DEF part
  <2>3. /\ whole \in Seq(S) /\ Len(whole) = a + (n - a)
        /\ \A i \in 1 .. a + (n - a) : whole[i] = IF i <= a THEN s[i] ELSE part[i - a]
    BY <2>2, ConcatProperties
  <2>4. a + (n - a) = n
    BY <1>1
  <2> HIDE DEF whole, a, b
  <2>5. \A i \in 1 .. n : cut[i] = whole[i]
    <3> SUFFICES ASSUME NEW i \in 1 .. n PROVE cut[i] = whole[i]
      OBVIOUS
    <3>0. i \in 1 .. a + b
      BY <1>1, <2>1
    <3>1. CASE i <= a
      BY <1>2, <1>3, <2>3, <2>4, <3>0, <3>1
    <3>2. CASE ~(i <= a)
      <4>1. i - a \in 1 .. n - a
        BY <1>1, <3>2
      <4> QED
        BY <1>2, <1>3, <2>2, <2>3, <2>4, <3>0, <3>2, <4>1
    <3> QED
      BY <3>1, <3>2
  <2>6. cut = whole
    BY <1>3, <2>3, <2>4, <2>5, SeqEqual
  <2> QED
    BY <2>6 DEF whole, part
<1> QED
  BY <1>4, <1>5 DEF cut, both, a

\* The line is what stands before host_error, host_error, and its end.
LEMMA LineShape ==
  ASSUME NEW p \in Plans
  PROVE  /\ Escape(p.hostError) \in Seq(Plain)
         /\ Escape(p.hostError) \in Seq(InLine)
         /\ BeforeError(p) \in Seq(InLine)
         /\ BeforeError(p) \o Escape(p.hostError) \in Seq(InLine)
         /\ Encode(p) = (BeforeError(p) \o Escape(p.hostError)) \o <<LF>>
         /\ Encode(p) \in Texts
         /\ HeadLength(p) = Len(BeforeError(p))
         /\ HeadLength(p) \in Nat \ {0}
         /\ Len(Escape(p.hostError)) \in Nat
         /\ Len(BeforeError(p) \o Escape(p.hostError))
              = HeadLength(p) + Len(Escape(p.hostError))
         /\ Len(Encode(p)) = HeadLength(p) + Len(Escape(p.hostError)) + 1
<1> DEFINE error == Escape(p.hostError)
           before == BeforeError(p)
           whole == before \o error
<1>1. error \in Seq(Plain) /\ error \in Seq(InLine)
  BY EscapedText, PlanTexts, PlainFields
<1>2. PICK head \in Seq(InLine) : before = head \o <<Tab>> /\ before \in Seq(InLine)
  BY HeadFields
<1>3. Len(before) \in Nat \ {0}
  <2>1. Tab \in InLine
    BY SymbolFacts DEF InLine
  <2>2. Len(<<Tab>>) = 1 /\ <<Tab>> \in Seq(InLine)
    BY <2>1
  <2>3. Len(before) = Len(head) + 1 /\ Len(head) \in Nat
    BY <1>2, <2>2, ConcatProperties, LenProperties
  <2> QED
    BY <2>3
<1>4. Encode(p) = whole \o <<LF>>
  BY DEF Encode
<1>5. HeadLength(p) = Len(before)
  BY DEF HeadLength
<1> HIDE DEF error, before
<1>6. whole \in Seq(InLine) /\ Len(whole) = Len(before) + Len(error)
  BY <1>1, <1>2, ConcatProperties
<1>7. Len(error) \in Nat
  BY <1>1, LenProperties
<1> HIDE DEF whole
<1>8. Encode(p) \in Texts /\ Len(Encode(p)) = Len(whole) + 1
  <2>1. whole \in Texts /\ LF \in Symbols
    BY <1>6, SeqMonotonic, SymbolFacts DEF InLine, Texts
  <2>2. Encode(p) = Append(whole, LF)
    BY <1>4, <2>1, AppendIsConcat DEF Texts
  <2> QED
    BY <2>1, <2>2, AppendProperties DEF Texts
<1> QED
  BY <1>1, <1>2, <1>3, <1>4, <1>5, <1>6, <1>7, <1>8 DEF whole, error, before

\* A line with its last tab is a report if the rest of it can be read.
LEMMA LastPart ==
  ASSUME NEW p \in Plans, NEW part \in Seq(Plain), NEW stdout,
         FirstLine(stdout) = BeforeError(p) \o part
  PROVE  LET error == Unescape(part)
         IN Parse(stdout) = IF error.ok THEN [p EXCEPT !.hostError = error.text]
                            ELSE NoSummary
<1>1. PICK head \in Seq(InLine) :
        /\ BeforeError(p) = head \o <<Tab>>
        /\ Len(Split(head)) = 6
        /\ Split(head)[1] = Prefix /\ Split(head)[2] = CodeField(p)
        /\ Split(head)[3] = <<Number>> /\ Split(head)[5] = <<Number>>
        /\ Split(head)[4] = Escape(p.lastImport)
        /\ Split(head)[6] = Escape(p.lastDetail)
  BY HeadFields
<1>2. head \in Texts
  BY SeqMonotonic DEF InLine, Texts
<1>3. part \in Texts /\ NoTab(part)
  BY PlainFields
<1> DEFINE fields == Split(With(head, part))
<1>4. /\ Len(fields) = 6 + 1
      /\ \A i \in 1 .. 6 : fields[i] = Split(head)[i]
      /\ fields[6 + 1] = part
  <2>1. ASSUME NEW n \in Nat, Len(Split(head)) = n
        PROVE  /\ Len(fields) = n + 1
               /\ \A i \in 1 .. n : fields[i] = Split(head)[i]
               /\ fields[n + 1] = part
    BY <1>2, <1>3, <2>1, FieldAfter
  <2> HIDE DEF fields
  <2> QED
    BY <1>1, <2>1
<1>5. Fields(stdout) = fields
  BY <1>1 DEF Fields, With
<1> HIDE DEF fields
<1>6. /\ Len(Fields(stdout)) = 7
      /\ Fields(stdout)[1] = Prefix /\ Fields(stdout)[2] = CodeField(p)
      /\ Fields(stdout)[3] = <<Number>> /\ Fields(stdout)[5] = <<Number>>
      /\ Fields(stdout)[4] = Escape(p.lastImport)
      /\ Fields(stdout)[6] = Escape(p.lastDetail)
      /\ Fields(stdout)[7] = part
  BY <1>1, <1>4, <1>5
<1> QED
  BY <1>6, ParsedFields

\* What parse_worker_summary reads from any part of a worker's line: nothing
\* before the last tab, then at most the worker's code with a part of its error,
\* and all of the report from the whole line.
THEOREM CutLine ==
  ASSUME NEW p \in Plans, NEW n \in 0 .. Len(Encode(p))
  PROVE  LET summary == Parse(SubSeq(Encode(p), 1, n))
         IN /\ n < HeadLength(p) => summary = NoSummary
            /\ summary # NoSummary =>
                 /\ summary.actual = p.actual
                 /\ summary.hostError # <<>> => p.hostError # <<>>
            /\ n = Len(Encode(p)) => summary = p
            /\ p # NoSummary
<1> DEFINE error == Escape(p.hostError)
           before == BeforeError(p)
           whole == before \o error
           cut == SubSeq(Encode(p), 1, n)
           a == HeadLength(p)
           b == Len(error)
<1>1. /\ error \in Seq(Plain) /\ error \in Seq(InLine) /\ before \in Seq(InLine)
      /\ whole \in Seq(InLine) /\ Encode(p) = whole \o <<LF>> /\ Encode(p) \in Texts
      /\ a = Len(before) /\ a \in Nat /\ b \in Nat /\ Len(whole) = a + b
      /\ Len(Encode(p)) = a + b + 1
  BY LineShape
<1>2. /\ before \in Texts /\ error \in Texts /\ whole \in Texts /\ <<LF>> \in Texts
      /\ Len(<<LF>>) = 1
  <2>1. LF \in Symbols
    BY SymbolFacts
  <2> HIDE DEF error, before, whole
  <2> QED
    BY <1>1, <2>1, SeqMonotonic DEF InLine, Texts
<1>3. p # NoSummary
  BY PlanTexts DEF NoSummary
<1>4. CASE n = a + b + 1
  <2>1. FirstLine(cut) = whole
    <3>1. cut = Encode(p)
      <4>1. \A text \in Texts : SubSeq(text, 1, Len(text)) = text
        BY SubSeqFull DEF Texts
      <4> QED
        BY <1>1, <1>4, <4>1
    <3> QED
      BY <1>1, <3>1, FirstLines
  <2>2. Unescape(error) = [ok |-> TRUE, text |-> p.hostError]
    BY EscapedText, PlanTexts
  <2>3. Parse(cut) = [p EXCEPT !.hostError = p.hostError]
    <3> DEFINE read == Unescape(error)
    <3>1. Parse(cut) = IF read.ok THEN [p EXCEPT !.hostError = read.text] ELSE NoSummary
      <4> HIDE DEF error, cut
      <4> QED
        BY <1>1, <2>1, LastPart DEF whole
    <3>2. read.ok /\ read.text = p.hostError
      BY <2>2
    <3> HIDE DEF read
    <3> QED
      BY <3>1, <3>2
  <2>4. [p EXCEPT !.hostError = p.hostError] = p
    BY PlanTexts
  <2> QED
    BY <1>1, <1>3, <1>4, <2>3, <2>4
<1>5. CASE n \in a .. a + b
  <2> DEFINE part == SubSeq(error, 1, n - a)
             read == Unescape(part)
  <2>1. n - a \in 0 .. b /\ n \in 0 .. a + b /\ n >= a /\ n <= Len(whole)
    BY <1>1, <1>5
  <2>2. part \in Seq(Plain)
    BY <1>1, <2>1, Parts
  <2>3. cut = before \o part
    <3>1. cut = SubSeq(whole, 1, n)
      BY <1>1, <1>2, <2>1, PartOfBoth DEF Texts
    <3>2. SubSeq(whole, 1, n) = before \o part
      BY <1>1, <2>1, PartOfBoth
    <3> QED
      BY <3>1, <3>2
  <2>4. FirstLine(cut) = before \o part
    <3>1. part \in Seq(InLine)
      BY <2>2, PlainFields
    <3>2. before \o part \in Seq(InLine)
      BY <1>1, <3>1, ConcatProperties
    <3> QED
      BY <2>3, <3>2, FirstLines
  <2>5. Parse(cut) = IF read.ok THEN [p EXCEPT !.hostError = read.text] ELSE NoSummary
    BY <2>2, <2>4, LastPart
  <2>6. p.hostError = <<>> => read.text = <<>>
    <3> SUFFICES ASSUME p.hostError = <<>> PROVE read.text = <<>>
      OBVIOUS
    <3>1. <<>> \in Texts /\ Escape(<<>>) = <<>>
      BY EndsOfLoops, OneMore, EmptySeq, SymbolFacts DEF Begin, Texts
    <3>2. error = <<>> /\ b = 0
      BY <3>1
    <3>3. Len(part) = 0
      BY <1>1, <2>1, <3>2, Parts
    <3>4. part = <<>>
      BY <2>2, <3>3, EmptySeq
    <3>5. Unescape(<<>>) = [ok |-> TRUE, text |-> <<>>]
      BY <3>1, EscapedText
    <3> HIDE DEF part
    <3> QED
      BY <3>4, <3>5
  <2>7. Parse(cut) # NoSummary => Parse(cut) = [p EXCEPT !.hostError = read.text]
    BY <2>5
  <2>8. ~(n < a) /\ n # a + b + 1
    BY <1>1, <1>5
  <2>9. /\ [p EXCEPT !.hostError = read.text].actual = p.actual
        /\ [p EXCEPT !.hostError = read.text].hostError = read.text
    BY PlanTexts
  <2> QED
    BY <1>1, <1>3, <2>6, <2>7, <2>8, <2>9
<1>6. CASE n < a
  <2>1. PICK head \in Seq(InLine) :
          before = head \o <<Tab>> /\ Len(Split(head)) = 6
    BY HeadFields
  <2>2. /\ Tab \in InLine /\ <<Tab>> \in Seq(InLine) /\ Len(<<Tab>>) = 1
        /\ head \in Texts
    <3>1. Tab \in InLine
      BY SymbolFacts DEF InLine
    <3> QED
      BY <3>1, SeqMonotonic DEF InLine, Texts
  <2>3. a = Len(head) + 1 /\ Len(head) \in Nat
    BY <1>1, <2>1, <2>2, ConcatProperties, LenProperties
  <2>4. n \in 0 .. Len(head) /\ n \in 0 .. a + b /\ n \in 0 .. a
    BY <1>1, <1>6, <2>3
  <2>5. cut = SubSeq(head, 1, n)
    <3>1. cut = SubSeq(whole, 1, n)
      BY <1>1, <1>2, <2>4, PartOfBoth DEF Texts
    <3>2. SubSeq(whole, 1, n) = SubSeq(before, 1, n)
      BY <1>1, <2>4, PartOfBoth
    <3>3. SubSeq(before, 1, n) = SubSeq(head, 1, n)
      BY <2>1, <2>2, <2>3, <2>4, PartOfBoth
    <3> QED
      BY <3>1, <3>2, <3>3
  <2> DEFINE rest == SubSeq(head, n + 1, Len(head))
  <2>6. cut \in Seq(InLine) /\ rest \in Seq(InLine) /\ head = cut \o rest
    BY <2>4, <2>5, Parts
  <2> HIDE DEF cut, rest
  <2>7. cut \in Texts /\ rest \in Texts
    BY <2>6, SeqMonotonic DEF InLine, Texts
  <2>8. Len(Split(cut)) <= 6
    BY <2>1, <2>6, <2>7, FewerFields
  <2>9. Fields(cut) = Split(cut)
    BY <2>6, FirstLines DEF Fields
  <2>10. ~(Len(Fields(cut)) >= 7)
    <3>1. Len(Split(cut)) \in Nat
      BY <2>7, SplitTexts
    <3> QED
      BY <2>8, <2>9, <3>1
  <2>11. Parse(cut) = NoSummary
    BY <2>10 DEF Parse
  <2>12. n # a + b + 1
    BY <1>1, <1>6
  <2> QED
    BY <1>1, <1>3, <2>11, <2>12 DEF cut
<1>7. n = a + b + 1 \/ n \in a .. a + b \/ n < a
  <2>1. n \in 0 .. a + b + 1 /\ a \in Nat /\ b \in Nat
    BY <1>1
  <2> HIDE DEF a, b
  <2> QED
    BY <2>1
<1> QED
  BY <1>4, <1>5, <1>6, <1>7

\* The line ends where its text does.
LEMMA OneLine ==
  ASSUME NEW p \in Plans, NEW i \in 1 .. Len(Encode(p)), Encode(p)[i] = LF
  PROVE  i = Len(Encode(p))
<1> DEFINE whole == BeforeError(p) \o Escape(p.hostError)
<1>1. /\ whole \in Seq(InLine) /\ Encode(p) = whole \o <<LF>> /\ Len(whole) \in Nat
      /\ Len(Encode(p)) = Len(whole) + 1
  BY LineShape
<1> HIDE DEF whole
<1>2. whole \in Texts /\ <<LF>> \in Texts
  BY <1>1, SymbolFacts, SeqMonotonic DEF InLine, Texts
<1>3. \A k \in 1 .. Len(whole) : Encode(p)[k] = whole[k]
  BY <1>1, <1>2, ConcatProperties DEF Texts
<1>4. \A k \in 1 .. Len(whole) : whole[k] # LF
  BY <1>1, ElementOfSeq DEF InLine
<1> QED
  BY <1>1, <1>3, <1>4

-----------------------------------------------------------------------------
(* The supervised worker with its line as a text. *)

\* What is in the pipe is a part of the planned line, and what Supervisor counts
\* of it are this part's units; a worker that has begun its line writes the
\* planned one.
TextInv ==
  /\ plan \in Plans
  /\ sent \in 0 .. Len(Encode(plan))
  /\ lineSize = HeadLength(plan) + 1
  /\ written = Units(plan, sent)
  /\ pc = "spawn" => worker = "none"
  /\ worker \in {"none", "working"} => sent = 0
  /\ worker = "writing" \/ sent > 0 => line = Summary(plan)

\* A symbol more is a unit more, or belongs to the unit of host_error.
LEMMA NextUnit ==
  ASSUME NEW p \in Plans, NEW n \in Nat, n < Len(Encode(p))
  PROVE  /\ Units(p, 0) = 0
         /\ Units(p, n) <= n /\ Units(p, n) < HeadLength(p) + 1
         /\ Units(p, n + 1) \in {Units(p, n), Units(p, n) + 1}
<1> DEFINE a == HeadLength(p)
           size == Len(Encode(p))
<1>1. a \in Nat \ {0} /\ size \in Nat /\ size >= a + 1
  BY LineShape
<1>2. /\ n < size
      /\ \A k : Units(p, k) = IF k = size THEN a + 1 ELSE IF k <= a THEN k ELSE a
  BY DEF Units
<1> HIDE DEF a, size
<1> QED
  BY <1>1, <1>2 DEF a

\* What the parent reads from the pipe is what Supervisor lets it read.
LEMMA ReadFromPipe ==
  ASSUME TextInv
  PROVE  LET summary == Parse(SubSeq(Encode(plan), 1, sent))
         IN /\ summary = NoSummary => written < lineSize
            /\ summary # NoSummary => Summary(summary) \in Parsed
<1> DEFINE summary == Parse(SubSeq(Encode(plan), 1, sent))
           a == HeadLength(plan)
           size == Len(Encode(plan))
<1>1. /\ plan \in Plans /\ sent \in 0 .. size /\ lineSize = a + 1
      /\ written = IF sent = size THEN a + 1 ELSE IF sent <= a THEN sent ELSE a
      /\ sent > 0 => line = Summary(plan)
  BY DEF TextInv, Units
<1>2. /\ sent < a => summary = NoSummary
      /\ summary # NoSummary =>
           /\ summary.actual = plan.actual
           /\ summary.hostError # <<>> => plan.hostError # <<>>
      /\ sent = size => summary = plan
      /\ plan # NoSummary
  BY <1>1, CutLine
<1>3. a \in Nat \ {0} /\ size \in Nat /\ size >= a + 1
  BY <1>1, LineShape
<1> HIDE DEF summary, a, size
<1>4. summary = NoSummary => written < lineSize
  <2> SUFFICES ASSUME summary = NoSummary PROVE written < lineSize
    OBVIOUS
  <2>1. sent # size
    BY <1>2
  <2> QED
    BY <1>1, <1>3, <2>1
<1>5. ASSUME summary # NoSummary PROVE Summary(summary) \in Parsed
  <2>1. sent \in Nat /\ ~(sent < a)
    BY <1>1, <1>2, <1>3, <1>5
  <2>2. line = Summary(plan) /\ written >= lineSize - 1
    BY <1>1, <1>3, <2>1
  <2>3. written = lineSize => sent = size
    BY <1>1, <1>3, <2>1
  <2> DEFINE told == summary.hostError # <<>>
             meant == plan.hostError # <<>>
             heard == Summary(summary)
  <2>4. /\ told = TRUE \/ told = FALSE
        /\ told = TRUE => meant = TRUE
        /\ heard = [actual |-> plan.actual, hostError |-> told]
        /\ line = [actual |-> plan.actual, hostError |-> meant]
        /\ plan.actual = "none" \/ (plan.actual \in {"OK", "ERR_INTERNAL"} /\ meant = FALSE)
    <3>0. told = TRUE \/ told = FALSE
      OBVIOUS
    <3>1. told = TRUE => meant = TRUE
      BY <1>2, <1>5
    <3>2. heard = [actual |-> plan.actual, hostError |-> told]
      BY <1>2, <1>5 DEF Summary
    <3>3. line = [actual |-> plan.actual, hostError |-> meant]
      BY <2>2 DEF Summary
    <3>4. plan.actual = "none" \/ (plan.actual \in {"OK", "ERR_INTERNAL"} /\ meant = FALSE)
      BY <1>1, PlanTexts DEF CodeSymbols
    <3> QED
      BY <3>0, <3>1, <3>2, <3>3, <3>4
  <2>5. written = lineSize => heard = line
    BY <1>2, <2>2, <2>3
  <2> HIDE DEF told, meant, heard
  <2>6. heard \in Lines \cup {NoLine}
    <3>1. CASE told = TRUE
      <4>1. heard = [actual |-> "none", hostError |-> TRUE]
        BY <2>4, <3>1
      <4> QED
        BY <4>1 DEF Lines
    <3>2. CASE told = FALSE /\ plan.actual = "none"
      <4>1. heard = [actual |-> "none", hostError |-> FALSE]
        BY <2>4, <3>2
      <4> QED
        BY <4>1 DEF NoLine
    <3>3. CASE told = FALSE /\ plan.actual \in {"OK", "ERR_INTERNAL"}
      <4>1. heard = [actual |-> plan.actual, hostError |-> FALSE]
        BY <2>4, <3>3
      <4> QED
        BY <3>3, <4>1 DEF Lines
    <3> QED
      BY <2>4, <3>1, <3>2, <3>3
  <2>7. heard.actual = line.actual
    BY <2>4
  <2>8. heard.hostError => line.hostError
    <3>1. heard.hostError = told /\ line.hostError = meant
      BY <2>4
    <3>2. CASE told = TRUE
      BY <2>4, <3>1, <3>2
    <3>3. CASE told = FALSE
      BY <3>1, <3>3
    <3> QED
      BY <2>4, <3>2, <3>3
  <2> QED
    BY <2>2, <2>5, <2>6, <2>7, <2>8 DEF Parsed, heard
<1> QED
  BY <1>4, <1>5 DEF summary

\* From the worker's line as a text the parent does what Supervisor has it do.
LEMMA CollectsAsSupervised ==
  ASSUME TextInv, CollectText
  PROVE  Collect
<1> DEFINE summary == Parse(SubSeq(Encode(plan), 1, sent))
<1>1. /\ pc = "collect" /\ worker' = "reaped"
      /\ \/ Finish(ErrorReport("output failed"))
         \/ summary = NoSummary /\ Finish(ErrorReport("protocol missing"))
         \/ summary # NoSummary /\ Finish(CompletionReport(Summary(summary)))
      /\ UNCHANGED <<expected, lineSize, now, wakeAt, signalled, line, written>>
  BY DEF CollectText
<1>2. /\ summary = NoSummary => written < lineSize
      /\ summary # NoSummary => Summary(summary) \in Parsed
  BY ReadFromPipe
<1> HIDE DEF summary
<1>3. \/ Finish(ErrorReport("output failed"))
      \/ written < lineSize /\ Finish(ErrorReport("protocol missing"))
      \/ \E l \in Parsed : Finish(CompletionReport(l))
  BY <1>1, <1>2
<1> QED
  BY <1>1, <1>3 DEF Collect

\* A symbol written is a unit written, or a step Supervisor does not see.
LEMMA WritesAsSupervised ==
  ASSUME TextInv, WritesSymbol
  PROVE  WorkerWrites \/ UNCHANGED vars
<1>1. /\ plan \in Plans /\ sent \in Nat /\ sent < Len(Encode(plan))
      /\ sent < PipeSize /\ worker = "writing"
      /\ lineSize = HeadLength(plan) + 1
      /\ written = Units(plan, sent) /\ written' = Units(plan, sent + 1)
      /\ UNCHANGED <<expected, lineSize, pc, now, wakeAt, worker, signalled, line,
                     report>>
  BY DEF TextInv, WritesSymbol
<1>2. /\ written <= sent /\ written < lineSize
      /\ written' \in {written, written + 1}
  BY <1>1, NextUnit
<1>3. written < PipeSize
  <2>1. PipeSize \in Nat /\ written \in Int
    <3>1. HeadLength(plan) \in Nat
      BY <1>1, LineShape
    <3> QED
      BY <1>1, <3>1, ConstantTypes DEF Units
  <2> QED
    BY <1>1, <1>2, <2>1
<1>4. CASE written' = written
  BY <1>1, <1>4 DEF vars
<1>5. CASE written' = written + 1
  BY <1>1, <1>2, <1>3, <1>5 DEF WorkerWrites
<1> QED
  BY <1>2, <1>4, <1>5

\* Every step of the text is a step of Supervisor, or none of its state.
LEMMA TextStep ==
  ASSUME TextInv, [TextNext]_textVars
  PROVE  [Next]_vars
<1>1. CASE TextParent
  <2>1. CASE CollectText
    BY <2>1, CollectsAsSupervised DEF Next, Parent
  <2>2. CASE SpawnWorker \/ TryWait \/ CheckElapsed \/ Wake \/ Kill \/ Reap
    BY <2>2 DEF Next, Parent
  <2> QED
    BY <1>1, <2>1, <2>2 DEF TextParent
<1>2. CASE RunsCase
  BY <1>2 DEF RunsCase, Next
<1>3. CASE WritesSymbol
  BY <1>3, WritesAsSupervised DEF Next
<1>4. CASE WorkerEnds \/ Clock
  BY <1>4 DEF Next
<1>5. CASE UNCHANGED textVars
  BY <1>5 DEF textVars
<1> QED
  BY <1>1, <1>2, <1>3, <1>4, <1>5 DEF TextNext

\* The pipe holds a part of the planned line, as Supervisor counts it.
LEMMA TextInvariant == TextSpec => []TextInv
<1>1. TextInit => TextInv
  <2> SUFFICES ASSUME TextInit PROVE TextInv
    OBVIOUS
  <2>1. /\ plan \in Plans /\ sent = 0 /\ lineSize = HeadLength(plan) + 1
        /\ worker = "none" /\ written = 0
    BY DEF TextInit, Init
  <2>2. Len(Encode(plan)) \in Nat /\ 0 < Len(Encode(plan))
    BY <2>1, LineShape
  <2>3. Units(plan, 0) = 0
    BY <2>1, <2>2, NextUnit
  <2> QED
    BY <2>1, <2>2, <2>3 DEF TextInv
<1>2. TextInv /\ [TextNext]_textVars => TextInv'
  <2> SUFFICES ASSUME TextInv, [TextNext]_textVars PROVE TextInv'
    OBVIOUS
  <2>1. CASE UNCHANGED <<plan, sent, lineSize, written, line>>
             /\ (pc' = "spawn" => pc = "spawn" /\ worker' = worker)
             /\ (worker' \in {"none", "working"} => worker \in {"none", "working"})
             /\ (worker' = "writing" => worker = "writing")
    BY <2>1 DEF TextInv
  <2>2. CASE (SpawnWorker \/ TryWait \/ CheckElapsed \/ Wake \/ Kill \/ Reap)
             /\ UNCHANGED <<plan, sent>>
    <3>1. CASE SpawnWorker
      <4>1. worker = "none" /\ pc' # "spawn"
        BY <3>1 DEF TextInv, SpawnWorker, Finish
      <4> QED
        BY <2>2, <2>1, <3>1, <4>1 DEF SpawnWorker, Finish
    <3>2. CASE TryWait
      BY <2>1, <2>2, <3>2 DEF TryWait, Finish
    <3>3. CASE CheckElapsed
      BY <2>1, <2>2, <3>3 DEF CheckElapsed
    <3>4. CASE Wake
      BY <2>1, <2>2, <3>4 DEF Wake
    <3>5. CASE Kill
      BY <2>1, <2>2, <3>5 DEF Kill
    <3>6. CASE Reap
      BY <2>1, <2>2, <3>6 DEF Reap, Finish
    <3> QED
      BY <2>2, <3>1, <3>2, <3>3, <3>4, <3>5, <3>6
  <2>3. CASE CollectText
    BY <2>1, <2>3 DEF CollectText, Finish
  <2>4. CASE RunsCase
    BY <2>4 DEF RunsCase, WorkerRunsCase, TextInv
  <2>5. CASE WritesSymbol
    <3>1. sent' \in 0 .. Len(Encode(plan))
      <4>1. Len(Encode(plan)) \in Nat
        BY LineShape DEF TextInv
      <4> QED
        BY <2>5, <4>1 DEF WritesSymbol, TextInv
    <3> QED
      BY <2>5, <3>1 DEF WritesSymbol, TextInv
  <2>6. CASE (WorkerEnds \/ Clock) /\ UNCHANGED <<plan, sent>>
    <3>1. CASE WorkerEnds
      BY <2>6, <3>1 DEF WorkerEnds, Alive, TextInv
    <3>2. CASE Clock
      BY <2>1, <2>6, <3>2 DEF Clock
    <3> QED
      BY <2>6, <3>1, <3>2
  <2>7. CASE UNCHANGED textVars
    BY <2>1, <2>7 DEF textVars, vars
  <2> QED
    BY <2>2, <2>3, <2>4, <2>5, <2>6, <2>7 DEF TextNext, TextParent
<1> QED
  BY <1>1, <1>2, PTL DEF TextSpec

\* Wherever the worker's line is cut and whatever its texts hold, the parent
\* that parses it (encode_worker_report, parse_worker_summary) is Supervisor's:
\* each of its steps is one of Supervisor's steps or none.
THEOREM TextIsSupervised == TextSpec => SafetySpec
<1>1. TextInit => Init
  BY DEF TextInit
<1>2. TextInv /\ [TextNext]_textVars => [Next]_vars
  BY TextStep
<1> QED
  BY <1>1, <1>2, TextInvariant, PTL DEF TextSpec, SafetySpec

\* A line written whole is one line and is read back as it was meant, tabs,
\* line ends and backslashes in its texts included.
THEOREM LineIsReadBack == TextSpec => []LineReadBack
<1>1. TextInv => LineReadBack
  <2> SUFFICES ASSUME TextInv, sent = Len(Encode(plan))
               PROVE  /\ Parse(SubSeq(Encode(plan), 1, sent)) = plan
                      /\ \A i \in 1 .. sent : Encode(plan)[i] = LF => i = sent
    BY DEF LineReadBack
  <2>1. plan \in Plans /\ sent \in 0 .. Len(Encode(plan))
    BY DEF TextInv
  <2>2. Parse(SubSeq(Encode(plan), 1, sent)) = plan
    BY <2>1, CutLine
  <2>3. \A i \in 1 .. sent : Encode(plan)[i] = LF => i = sent
    BY <2>1, OneLine
  <2> QED
    BY <2>2, <2>3
<1> QED
  BY <1>1, TextInvariant, PTL

\* Nor does a cut or hostile text in the worker's line make a case pass.
THEOREM TextNeverFalsePass == TextSpec => []NoFalsePass
BY TextIsSupervised, SafetyTypes, SafetyInvariant, Promises, PTL

\* The worker whose line is a text is gone before its report, and is killed only
\* past the deadline.
THEOREM TextNeverOrphaned == TextSpec => []NoOrphan
BY TextIsSupervised, SafetyTypes, SafetyInvariant, Promises, PTL

\* No text in a late line undoes a timeout, and a report that quotes the worker
\* quotes the code in its line.
THEOREM TextTimeoutFinal == TextSpec => []TimeoutIsFinal
BY TextIsSupervised, SafetyTypes, SafetyInvariant, Promises, PTL
=============================================================================
