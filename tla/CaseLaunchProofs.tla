-------------------------- MODULE CaseLaunchProofs --------------------------
(***************************************************************************)
(* Proofs about CaseLaunch for every corpus, policy file, command line and *)
(* number of edits: that a module without a tick executes only where it is *)
(* allowed, by an invariant that follows the permission from where it is   *)
(* read to the run that uses it; that a corpus is loaded whole, in order;  *)
(* and that a worker runs its case as this process would, by an invariant  *)
(* that ties the batch to the files and each worker to the process.        *)
(***************************************************************************)
EXTENDS CaseLaunch, FiniteSetTheorems, WellFoundedInduction, TLAPS

\* The user or the policy file, at some time, lifted the rule.
Allowed == config.allowUnmetered \/ (config.policy /\ "no_tick" \in held)

Permitted(i) == Allowed \/ (isolation = "process" /\ cases[i].kind = "static")

Files ==
  /\ disk \in [policy: PolicyFiles, dirs: [Dirs -> Contents]]
  /\ disk.policy \in held

\* A policy in use that does not ask for a tick was allowed not to.
PolicyAllowed ==
  phase \in {"choose", "menu", "run"} => policy = "tick" \/ Allowed

JobPermitted(i) ==
  /\ job[i].stage \in {"spawned", "loaded"} => isolation = "process"
  /\ job[i].stage = "loaded" => job[i].policy = "tick" \/ Permitted(i)
  /\ job[i].verdict = "executed" /\ job[i].ran[3] = "unmetered" => Permitted(i)

Inv == Files /\ PolicyAllowed /\ \A i \in DOMAIN job : JobPermitted(i)

\* What a policy that was loaded may lack.
LEMMA LoadedAllowed ==
  ASSUME Files, NEW hasPath, NEW allow, NEW static,
         LoadedPolicy(hasPath, allow, static) # "bad"
  PROVE  \/ LoadedPolicy(hasPath, allow, static) = "tick"
         \/ allow \/ static \/ (hasPath /\ "no_tick" \in held)
  BY DEF Files, LoadedPolicy, PolicyFiles

\* A module without a tick passes the audit only under rules without one.
LEMMA AuditUnmetered ==
  ASSUME NEW case, NEW rules, NEW static,
         Audit(case, rules, static) = "executed", case.source[3] = "unmetered"
  PROVE  rules # "tick" /\ (case.kind = "static" => static)
  BY DEF Audit, Metered

\* One job changes and nothing else does: the others stay as permitted.
LEMMA AdvanceKeeps ==
  ASSUME Inv, NEW i, NEW record, Advance(i, record),
         i \in DOMAIN job =>
           /\ record.stage \in {"spawned", "loaded"} => isolation = "process"
           /\ record.stage = "loaded" => record.policy = "tick" \/ Permitted(i)
           /\ record.verdict = "executed" /\ record.ran[3] = "unmetered"
                => Permitted(i)
  PROVE  Inv'
<1>1. Files' /\ PolicyAllowed'
  BY DEF Inv, Files, PolicyAllowed, Advance, Allowed, files
<1>2. ASSUME NEW k \in DOMAIN job' PROVE JobPermitted(k)'
  <2>1. k \in DOMAIN job /\ job'[k] = IF k = i THEN record ELSE job[k]
    BY <1>2 DEF Advance
  <2>2. Permitted(k)' <=> Permitted(k)
    BY DEF Advance, Permitted, Allowed, files
  <2>3. isolation' = isolation
    BY DEF Advance
  <2>4. CASE k = i
    BY <2>1, <2>2, <2>3, <2>4 DEF JobPermitted
  <2>5. CASE k # i
    <3>1. JobPermitted(k)
      BY <2>1 DEF Inv
    <3> QED
      BY <2>1, <2>2, <2>3, <2>5, <3>1 DEF JobPermitted
  <2> QED
    BY <2>4, <2>5
<1> QED
  BY <1>1, <1>2 DEF Inv

\* A batch begins with no job under way.
LEMMA StartKeeps ==
  ASSUME NEW chosen, NEW mode, Inv, StartBatch(chosen, mode),
         UNCHANGED <<config, files, policy>>, phase \in {"choose", "menu"}
  PROVE  Inv'
<1>1. Files' /\ PolicyAllowed'
  BY DEF Inv, Files, PolicyAllowed, Allowed, files
<1>2. ASSUME NEW k \in DOMAIN job' PROVE JobPermitted(k)'
  <2>1. job'[k] = Waiting
    BY <1>2 DEF StartBatch
  <2>2. Waiting.stage = "waiting" /\ Waiting.verdict = "none"
    BY DEF Waiting
  <2> QED
    BY <2>1, <2>2 DEF JobPermitted
<1> QED
  BY <1>1, <1>2 DEF Inv

\* The end of the process leaves the jobs as they are.
LEMMA ExitKeeps ==
  ASSUME NEW code, Inv, Exit(code), UNCHANGED <<config, files>>
  PROVE  Inv'
<1>1. Files' /\ PolicyAllowed'
  BY DEF Inv, Files, PolicyAllowed, files, Exit
<1>2. ASSUME NEW k \in DOMAIN job' PROVE JobPermitted(k)'
  <2>1. job' = job /\ isolation' = isolation /\ cases' = cases /\ held' = held
    BY DEF Exit, batch, files
  <2>2. JobPermitted(k)
    BY <1>2, <2>1 DEF Inv
  <2> QED
    BY <2>1, <2>2 DEF JobPermitted, Permitted, Allowed
<1> QED
  BY <1>1, <1>2 DEF Inv

\* The invariant, and from it UnmeteredOnlyAllowed: see CaseLaunch.
LEMMA Invariant == Spec => []Inv
<1>1. Init => Inv
  <2> SUFFICES ASSUME Init PROVE Inv
    OBVIOUS
  <2>1. Files
    BY DEF Init, Files
  <2>2. PolicyAllowed
    BY DEF Init, PolicyAllowed
  <2>3. DOMAIN job = {}
    BY DEF Init
  <2> QED
    BY <2>1, <2>2, <2>3 DEF Inv
<1>2. Inv /\ [Next]_vars => Inv'
  <2> SUFFICES ASSUME Inv, [Next]_vars PROVE Inv'
    OBVIOUS
  <2>1. CASE LoadPolicy
    <3> DEFINE loaded == LoadedPolicy(config.policy, config.allowUnmetered, FALSE)
    <3>1. CASE loaded = "bad"
      <4>1. Exit(2) /\ UNCHANGED <<config, files>>
        BY <2>1, <3>1 DEF LoadPolicy
      <4> QED
        BY <4>1, ExitKeeps
    <3>2. CASE loaded # "bad"
      <4>1. /\ policy' = loaded
            /\ UNCHANGED <<batch, exitCode>> /\ UNCHANGED <<config, files>>
        BY <2>1, <3>2 DEF LoadPolicy
      <4>2. policy' = "tick" \/ Allowed
        <5>1. \/ loaded = "tick"
              \/ config.allowUnmetered \/ FALSE
              \/ config.policy /\ "no_tick" \in held
          <6>1. Files
            BY DEF Inv
          <6> QED
            BY <3>2, <6>1 DEF LoadedPolicy, Files, PolicyFiles
        <5> QED
          BY <4>1, <5>1 DEF Allowed
      <4>3. Files' /\ PolicyAllowed'
        BY <4>1, <4>2 DEF Inv, Files, PolicyAllowed, Allowed, files
      <4>4. ASSUME NEW k \in DOMAIN job' PROVE JobPermitted(k)'
        BY <4>1, <4>4 DEF Inv, JobPermitted, Permitted, Allowed, batch, files
      <4> QED
        BY <4>3, <4>4 DEF Inv
    <3> QED
      BY <3>1, <3>2
  <2>2. CASE Choose
    <3>1. /\ phase = "choose" /\ UNCHANGED <<config, files, policy>>
          /\ \/ \E code \in {0, 2} : Exit(code)
             \/ \E chosen, mode : StartBatch(chosen, mode)
      BY <2>2 DEF Choose
    <3>2. CASE \E code \in {0, 2} : Exit(code)
      <4>1. PICK code \in {0, 2} : Exit(code)
        BY <3>2
      <4> QED
        BY <3>1, <4>1, ExitKeeps
    <3> QED
      BY <3>1, <3>2, StartKeeps
  <2>3. CASE EditDisk
    <3>1. /\ UNCHANGED <<config, policy, phase, batch, exitCode>>
          /\ held' = held \cup {disk'.policy}
      BY <2>3 DEF EditDisk
    <3>2. disk' \in [policy: PolicyFiles, dirs: [Dirs -> Contents]]
      BY <2>3 DEF EditDisk, Inv, Files
    <3>3. Allowed => Allowed'
      BY <3>1 DEF Allowed
    <3>4. Files' /\ PolicyAllowed'
      BY <3>1, <3>2, <3>3 DEF Inv, Files, PolicyAllowed
    <3>5. ASSUME NEW k \in DOMAIN job' PROVE JobPermitted(k)'
      <4>1. job' = job /\ isolation' = isolation /\ cases' = cases
        BY <3>1 DEF batch
      <4>2. JobPermitted(k) /\ (Permitted(k) => Permitted(k)')
        BY <3>3, <3>5, <4>1 DEF Inv, Permitted
      <4> QED
        BY <4>1, <4>2 DEF JobPermitted
    <3> QED
      BY <3>4, <3>5 DEF Inv
  <2>4. CASE EmitReports
    <3>1. UNCHANGED <<config, files, policy>> /\ phase = "run"
      BY <2>4 DEF EmitReports
    <3>2. CASE \E code \in {0, 1} : Exit(code)
      <4>1. PICK code \in {0, 1} : Exit(code)
        BY <3>2
      <4> QED
        BY <3>1, <4>1, ExitKeeps
    <3>3. CASE phase' = "menu" /\ job' = <<>>
      <4>1. Files' /\ PolicyAllowed'
        BY <3>1 DEF Inv, Files, PolicyAllowed, Allowed, files
      <4>2. DOMAIN job' = {}
        BY <3>3
      <4> QED
        BY <4>1, <4>2 DEF Inv
    <3> QED
      BY <2>4, <3>2, <3>3 DEF EmitReports
  <2>5. CASE MenuRunBuiltIns \/ MenuCockpit \/ MenuTimeoutProof \/ MenuExternalCorpus
    <3>1. /\ phase = "menu" /\ UNCHANGED <<config, files, policy>>
          /\ \E chosen, mode : StartBatch(chosen, mode)
      BY <2>5 DEF MenuRunBuiltIns, MenuCockpit, MenuTimeoutProof, MenuExternalCorpus
    <3> QED
      BY <3>1, StartKeeps
  <2>6. CASE MenuQuit
    <3>1. Exit(0) /\ UNCHANGED <<config, files>>
      BY <2>6 DEF MenuQuit
    <3> QED
      BY <3>1, ExitKeeps
  <2>7. ASSUME NEW i \in DOMAIN cases, Run(i) PROVE Inv'
    <3>1. CASE RunInProcess(i)
      <4> DEFINE verdict == Audit(cases[i], policy, FALSE)
                 record == Done(cases[i].source, verdict)
      <4>1. Advance(i, record) /\ phase = "run"
        BY <3>1 DEF RunInProcess, Turn
      <4>2. /\ record.stage = "done" /\ record.ran = cases[i].source
            /\ record.verdict = verdict
        BY DEF Done, Waiting
      <4>3. verdict = "executed" /\ cases[i].source[3] = "unmetered" => Allowed
        BY <4>1, AuditUnmetered DEF Inv, PolicyAllowed
      <4> HIDE DEF verdict, record
      <4> QED
        BY <4>1, <4>2, <4>3, AdvanceKeeps DEF Permitted
    <3>2. CASE SpawnWorker(i)
      <4> DEFINE record == [Waiting EXCEPT !.stage = "spawned"]
      <4>1. Advance(i, record) /\ isolation = "process"
        BY <3>2 DEF SpawnWorker
      <4>2. record.stage = "spawned" /\ record.verdict = "none"
        BY DEF Waiting
      <4> HIDE DEF record
      <4> QED
        BY <4>1, <4>2, AdvanceKeeps
    <3>3. CASE SupervisorGivesUp(i)
      <4> DEFINE record == Done(<<>>, "gave_up")
      <4>1. Advance(i, record)
        BY <3>3 DEF SupervisorGivesUp
      <4>2. record.stage = "done" /\ record.verdict = "gave_up"
        BY DEF Done, Waiting
      <4> HIDE DEF record
      <4> QED
        BY <4>1, <4>2, AdvanceKeeps
    <3>4. CASE WorkerLoadsPolicy(i)
      <4> DEFINE args == Args(cases[i])
                 loaded == LoadedPolicy(args.policy, args.allowUnmetered,
                                        args.executeStatic)
                 next == [Waiting EXCEPT !.stage = "loaded", !.policy = loaded]
      <4>1. /\ args.policy = config.policy
            /\ args.allowUnmetered = (config.allowUnmetered \/ cases[i].kind = "static")
            /\ args.executeStatic = (cases[i].kind = "static")
        BY DEF Args
      <4>2. i \in DOMAIN job => isolation = "process"
        BY <3>4 DEF WorkerLoadsPolicy, Inv, JobPermitted
      <4>3. CASE Advance(i, Done(<<>>, "refused"))
        <5>1. /\ Done(<<>>, "refused").stage = "done"
              /\ Done(<<>>, "refused").verdict = "refused"
          BY DEF Done, Waiting
        <5> QED
          BY <4>3, <5>1, AdvanceKeeps
      <4>4. CASE loaded # "bad" /\ Advance(i, next)
        <5>1. Files
          BY DEF Inv
        <5>2. \/ loaded = "tick"
              \/ args.allowUnmetered \/ args.executeStatic
              \/ args.policy /\ "no_tick" \in held
          BY <4>4, <5>1 DEF LoadedPolicy, Files, PolicyFiles
        <5> HIDE DEF loaded, args
        <5>3. i \in DOMAIN job => loaded = "tick" \/ Permitted(i)
          BY <4>1, <4>2, <5>2 DEF Permitted, Allowed
        <5>4. next.stage = "loaded" /\ next.policy = loaded /\ next.verdict = "none"
          BY DEF Waiting
        <5> HIDE DEF next
        <5> QED
          BY <4>2, <4>4, <5>3, <5>4, AdvanceKeeps
      <4> QED
        BY <3>4, <4>3, <4>4 DEF WorkerLoadsPolicy
    <3>5. CASE WorkerRuns(i)
      <4> DEFINE args == Args(cases[i])
                 found == ChooseCases(args.corpus, args.name)
                 verdict == Audit(found[1], job[i].policy, args.executeStatic)
                 record == Done(found[1].source, verdict)
      <4>1. CASE Advance(i, Done(<<>>, "refused"))
        <5>1. /\ Done(<<>>, "refused").stage = "done"
              /\ Done(<<>>, "refused").verdict = "refused"
          BY DEF Done, Waiting
        <5> QED
          BY <4>1, <5>1, AdvanceKeeps
      <4>2. CASE Advance(i, record)
        <5>1. i \in DOMAIN job => job[i].policy = "tick" \/ Permitted(i)
          BY <3>5 DEF WorkerRuns, Inv, JobPermitted
        <5>2. /\ record.stage = "done" /\ record.ran = found[1].source
              /\ record.verdict = verdict
          BY DEF Done, Waiting
        <5>3. verdict = "executed" /\ found[1].source[3] = "unmetered"
                => job[i].policy # "tick"
          BY AuditUnmetered
        <5> HIDE DEF found, verdict, record
        <5> QED
          BY <4>2, <5>1, <5>2, <5>3, AdvanceKeeps
      <4> QED
        BY <3>5, <4>1, <4>2 DEF WorkerRuns
    <3> QED
      BY <2>7, <3>1, <3>2, <3>3, <3>4, <3>5 DEF Run
  <2>8. CASE UNCHANGED vars
    <3>1. Files' /\ PolicyAllowed'
      BY <2>8 DEF Inv, Files, PolicyAllowed, Allowed, vars, files
    <3>2. ASSUME NEW k \in DOMAIN job' PROVE JobPermitted(k)'
      BY <2>8, <3>2 DEF Inv, JobPermitted, Permitted, Allowed, vars, batch, files
    <3> QED
      BY <3>1, <3>2 DEF Inv
  <2> QED
    BY <2>1, <2>2, <2>3, <2>4, <2>5, <2>6, <2>7, <2>8 DEF Next
<1> QED
  BY <1>1, <1>2, PTL DEF Spec

\* A module without a tick executes only if the user or the policy file, at
\* some time, allowed it, or in the worker of a static fixture (main.rs
\* load_policy, supervisor.rs run_case_supervised, runner.rs audit_module):
\* for every corpus, command line and number of edits in between.
THEOREM UnmeteredAlwaysAllowed == Spec => []UnmeteredOnlyAllowed
<1>1. Inv => UnmeteredOnlyAllowed
  BY DEF Inv, JobPermitted, Permitted, Allowed, UnmeteredOnlyAllowed
<1> QED
  BY Invariant, <1>1, PTL

-----------------------------------------------------------------------------
(* Loading a corpus. *)

\* Modules have places in the order of their paths, from the first to the
\* last, each its own, and a module that comes before another is placed so.
LEMMA Places ==
  ASSUME NEW M, M \subseteq Nat, IsFiniteSet(M)
  PROVE  /\ Cardinality(M) \in Nat
         /\ \A f \in M : PlaceOf(M, f) \in 1 .. Cardinality(M)
         /\ \A f, g \in M : f < g => PlaceOf(M, f) < PlaceOf(M, g)
         /\ \A f, g \in M : PlaceOf(M, f) = PlaceOf(M, g) => f = g
         /\ \A k \in 1 .. Cardinality(M) : \E f \in M : PlaceOf(M, f) = k
<1> DEFINE n == Cardinality(M)
           UpTo(f) == {g \in M : g <= f}
<1>1. n \in Nat
  BY FS_CardinalityType
<1>2. \A f \in M : /\ IsFiniteSet(UpTo(f)) /\ Cardinality(UpTo(f)) \in Nat
                   /\ Cardinality(UpTo(f)) <= n
  <2> SUFFICES ASSUME NEW f \in M
               PROVE  /\ IsFiniteSet(UpTo(f)) /\ Cardinality(UpTo(f)) \in Nat
                      /\ Cardinality(UpTo(f)) <= n
    OBVIOUS
  <2>1. UpTo(f) \in SUBSET M
    OBVIOUS
  <2>2. IsFiniteSet(UpTo(f)) /\ Cardinality(UpTo(f)) <= n
    BY <2>1, FS_Subset
  <2> QED
    BY <2>2, FS_CardinalityType
<1>3. ASSUME NEW f \in M, NEW g \in M, f < g
      PROVE  PlaceOf(M, f) < PlaceOf(M, g)
  <2>0. f \in Nat /\ g \in Nat /\ \A h \in M : h \in Nat
    OBVIOUS
  <2>1. UpTo(f) \in SUBSET UpTo(g) /\ g \in UpTo(g) /\ g \notin UpTo(f)
    <3>1. \A h \in M : h <= f => h <= g
      BY <1>3, <2>0
    <3>2. g <= g /\ ~(g <= f)
      BY <1>3, <2>0
    <3> QED
      BY <3>1, <3>2
  <2>2. IsFiniteSet(UpTo(g))
    BY <1>2
  <2>3. /\ Cardinality(UpTo(f)) <= Cardinality(UpTo(g))
        /\ Cardinality(UpTo(f)) # Cardinality(UpTo(g))
    BY <2>1, <2>2, FS_Subset
  <2>4. Cardinality(UpTo(f)) \in Nat /\ Cardinality(UpTo(g)) \in Nat
    BY <1>2
  <2> QED
    BY <2>3, <2>4 DEF PlaceOf
<1>4. ASSUME NEW f \in M
      PROVE  PlaceOf(M, f) \in 1 .. n
  <2>1. f \in UpTo(f)
    OBVIOUS
  <2>2. Cardinality(UpTo(f)) # 0
    BY <1>2, <2>1, FS_EmptySet
  <2> QED
    BY <1>1, <1>2, <2>2 DEF PlaceOf
<1>5. ASSUME NEW f \in M, NEW g \in M, PlaceOf(M, f) = PlaceOf(M, g)
      PROVE  f = g
  <2>1. ~(f < g) /\ ~(g < f)
    BY <1>1, <1>3, <1>4, <1>5
  <2> QED
    BY <2>1
<1> DEFINE place == [f \in M |-> PlaceOf(M, f)]
<1>6. IsFiniteSet(1 .. n) /\ Cardinality(1 .. n) = n
  <2>1. /\ IsFiniteSet(1 .. n)
        /\ Cardinality(1 .. n) = IF 1 > n THEN 0 ELSE n - 1 + 1
    BY <1>1, FS_Interval
  <2> QED
    BY <1>1, <2>1
<1>7. place \in Injection(M, 1 .. n)
  BY <1>4, <1>5 DEF Injection, IsInjective
<1>8. place \in Surjection(M, 1 .. n)
  BY <1>6, <1>7, FS_Injection
<1> QED
  BY <1>1, <1>3, <1>4, <1>5, <1>8 DEF Surjection

\* Of a corpus that loads: its cases are its module files, one each, in the
\* order of their paths, and each entry of the manifest is the case of its file.
LEMMA CorpusLoaded ==
  ASSUME Files, NEW dir \in Dirs, NEW c, c = LoadCorpus(dir), c # <<>>
  PROVE  LET content == disk.dirs[dir]
             n == Cardinality(DOMAIN content.files)
         IN /\ n \in Nat /\ DOMAIN c = 1 .. n
            /\ \A k \in 1 .. n : /\ c[k].source[1] = dir /\ c[k].name # NoName
                                 /\ c[k].source[2] \in Nat
            /\ \A k \in 2 .. n : c[k - 1].source[2] < c[k].source[2]
            /\ \A m \in DOMAIN content.manifest : \E k \in 1 .. n :
                 LET entry == content.manifest[m]
                 IN c[k] = Case(entry.name, entry.kind,
                                <<dir, entry.file, content.files[entry.file]>>)
<1> DEFINE content == disk.dirs[dir]
           M == DOMAIN content.files
           n == Cardinality(M)
           At(k) == CHOOSE f \in M : PlaceOf(M, f) = k
<1>1. /\ content \in Contents
      /\ IsFiniteSet(M) /\ M \subseteq Nat
      /\ \A f \in M : Stems[f] # NoName
      /\ \A m \in DOMAIN content.manifest : content.manifest[m].name # NoName
  BY LaunchAssumption DEF Files
<1>2. /\ ManifestFits(content)
      /\ c = [k \in 1 .. n |-> LoadedCase(dir, content, At(k))]
  BY DEF LoadCorpus
<1>3. \A k \in 1 .. n : At(k) \in M /\ PlaceOf(M, At(k)) = k
  BY <1>1, Places
<1>4. n \in Nat
  BY <1>1, Places
<1>5. ASSUME NEW f \in M
      PROVE  /\ LoadedCase(dir, content, f).source = <<dir, f, content.files[f]>>
             /\ LoadedCase(dir, content, f).name # NoName
  <2> DEFINE entries == {i \in DOMAIN content.manifest : content.manifest[i].file = f}
  <2>1. CASE entries = {}
    BY <1>1, <2>1 DEF LoadedCase, Case
  <2>2. CASE entries # {}
    <3>1. (CHOOSE i \in entries : TRUE) \in DOMAIN content.manifest
      BY <2>2
    <3> QED
      BY <1>1, <2>2, <3>1 DEF LoadedCase, Case
  <2> QED
    BY <2>1, <2>2
<1>6. ASSUME NEW m \in DOMAIN content.manifest
      PROVE  LET entry == content.manifest[m]
             IN /\ entry.file \in M
                /\ LoadedCase(dir, content, entry.file)
                     = Case(entry.name, entry.kind,
                            <<dir, entry.file, content.files[entry.file]>>)
  <2> DEFINE f == content.manifest[m].file
             entries == {i \in DOMAIN content.manifest : content.manifest[i].file = f}
  <2>1. f \in M
    BY <1>2 DEF ManifestFits
  <2>2. entries = {m}
    BY <1>2 DEF ManifestFits
  <2>3. (CHOOSE i \in entries : TRUE) = m
    BY <2>2
  <2> QED
    BY <2>1, <2>2, <2>3 DEF LoadedCase
<1> HIDE DEF content, n, At
<1>7. ASSUME NEW m \in DOMAIN content.manifest
      PROVE  \E k \in 1 .. n :
               LET entry == content.manifest[m]
               IN c[k] = Case(entry.name, entry.kind,
                              <<dir, entry.file, content.files[entry.file]>>)
  <2> DEFINE f == content.manifest[m].file
             k == PlaceOf(M, f)
  <2>1. f \in M
    BY <1>6
  <2>2. k \in 1 .. n
    BY <1>1, <2>1, Places DEF n
  <2>3. At(k) = f
    BY <1>1, <1>3, <2>1, <2>2, Places
  <2>4. c[k] = LoadedCase(dir, content, f)
    BY <1>2, <2>2, <2>3
  <2> QED
    BY <1>6, <2>2, <2>4
<1>8. ASSUME NEW k \in 1 .. n
      PROVE  /\ c[k].source[1] = dir /\ c[k].source[2] = At(k)
             /\ c[k].name # NoName /\ At(k) \in Nat
  BY <1>1, <1>2, <1>3, <1>5
<1>9. ASSUME NEW k \in 2 .. n
      PROVE  c[k - 1].source[2] < c[k].source[2]
  <2>1. k \in 1 .. n /\ k - 1 \in 1 .. n /\ ~(k <= k - 1)
    BY <1>4
  <2>2. /\ At(k) \in M /\ At(k - 1) \in M
        /\ PlaceOf(M, At(k)) = k /\ PlaceOf(M, At(k - 1)) = k - 1
    BY <1>3, <2>1
  <2>3. At(k) \in Nat /\ At(k - 1) \in Nat
    BY <1>8, <2>1
  <2>4. ~(At(k) < At(k - 1)) /\ At(k) # At(k - 1)
    BY <1>1, <1>4, <2>1, <2>2, Places
  <2> QED
    BY <1>8, <2>1, <2>3, <2>4
<1> QED
  BY <1>2, <1>4, <1>7, <1>8, <1>9 DEF content, n

-----------------------------------------------------------------------------
(* Choosing cases. *)

LEMMA Least ==
  ASSUME NEW S, S \subseteq Nat, S # {}
  PROVE  \E i \in S : \A j \in S : i <= j
<1>1. PICK i \in S : \A j \in S : ~(<<j, i>> \in OpToRel(<, Nat))
  BY NatLessThanWellFounded, WFMin
<1>2. \A j \in S : ~(j < i)
  BY <1>1 DEF OpToRel
<1> QED
  BY <1>2

\* Find finds a case of the name exactly when there is one.
LEMMA Found ==
  ASSUME NEW among, DOMAIN among \subseteq Nat, NEW name
  PROVE  /\ Find(among, name) # <<>> =>
              \E k \in DOMAIN among :
                Find(among, name) = <<among[k]>> /\ among[k].name = name
         /\ (\E k \in DOMAIN among : among[k].name = name) =>
              Find(among, name) # <<>>
<1> DEFINE places == {i \in DOMAIN among : among[i].name = name}
           first == CHOOSE i \in places : \A j \in places : i <= j
<1>1. CASE places = {}
  BY <1>1 DEF Find
<1>2. CASE places # {}
  <2>1. first \in places
    BY <1>2, Least
  <2>2. Find(among, name) = <<among[first]>>
    BY <1>2 DEF Find
  <2>3. first \in DOMAIN among /\ among[first].name = name
    BY <2>1
  <2> HIDE DEF first
  <2> QED
    BY <2>2, <2>3
<1> QED
  BY <1>1, <1>2

\* The batch a worker looks its case up in.
LEMMA Batch ==
  ASSUME Files, config \in Configs
  PROVE  /\ DOMAIN WholeBatch \subseteq Nat
         /\ \A k \in DOMAIN WholeBatch : WholeBatch[k].name # NoName
         /\ \A name : name # NoName =>
              ChooseCases(config.corpus, name) = Find(WholeBatch, name)
         /\ config.corpus = NoDir => WholeBatch = BuiltIns
         /\ config.corpus # NoDir => /\ config.corpus \in Dirs
                                     /\ WholeBatch = LoadCorpus(config.corpus)
<1>1. CASE config.corpus = NoDir
  <2>1. WholeBatch = BuiltIns
    BY <1>1 DEF WholeBatch, ChooseCases
  <2>2. \A name : name # NoName => ChooseCases(NoDir, name) = Find(BuiltIns, name)
    BY DEF ChooseCases
  <2> QED
    BY <1>1, <2>1, <2>2, LaunchAssumption
<1>2. CASE config.corpus # NoDir
  <2>1. config.corpus \in Dirs
    BY <1>2, LaunchAssumption
  <2>2. WholeBatch = LoadCorpus(config.corpus)
    BY <1>2 DEF WholeBatch, ChooseCases, ChooseExternal
  <2>3. \A name : name # NoName =>
          ChooseCases(config.corpus, name) = Find(LoadCorpus(config.corpus), name)
    BY <1>2 DEF ChooseCases, ChooseExternal
  <2>4. CASE WholeBatch = <<>>
    BY <1>2, <2>1, <2>2, <2>3, <2>4
  <2>5. CASE WholeBatch # <<>>
    <3>1. PICK n \in Nat : /\ DOMAIN WholeBatch = 1 .. n
                           /\ \A k \in 1 .. n : WholeBatch[k].name # NoName
      BY <2>1, <2>2, <2>5, CorpusLoaded
    <3> QED
      BY <1>2, <2>1, <2>2, <2>3, <3>1
  <2> QED
    BY <2>4, <2>5
<1> QED
  BY <1>1, <1>2

-----------------------------------------------------------------------------
(* The batch, its workers and the files while nobody edits them. *)

\* Where the cases of the batch in hand were taken from.
Origin ==
  \/ cases = <<>> \/ cases = BuiltIns
  \/ \E k \in DOMAIN BuiltIns : cases = <<BuiltIns[k]>>
  \/ \E dir \in Dirs : cases = LoadCorpus(dir)
  \/ /\ config.show # "menu" /\ config.case # NoName
     /\ \E k \in DOMAIN WholeBatch : cases = <<WholeBatch[k]>>

RulesOf(case) == IF case.kind = "static" THEN "no_tick" ELSE policy

\* What is asked of the record r of the run of case i.
Obeys(i, r) ==
  /\ r.stage = "loaded" => r.policy = RulesOf(cases[i]) /\ isolation = "process"
  /\ (/\ r.stage = "done" /\ isolation = "process" /\ r.verdict # "gave_up"
      /\ cases[i].source[1] = config.corpus /\ NameFindsIt(cases[i]))
     => /\ r.ran = cases[i].source
        /\ r.verdict = IF cases[i].kind = "static" THEN "executed"
                       ELSE Audit(cases[i], policy, FALSE)

Follows(i) == Obeys(i, job[i])

Shape ==
  /\ config \in Configs /\ edits \in Nat
  /\ phase = "choose" => config.show # "menu"
  /\ phase = "load" => cases = <<>> /\ job = <<>>
  /\ DOMAIN job = DOMAIN cases

RulesInForce ==
  phase \in {"choose", "menu", "run"} =>
    /\ policy = LoadedPolicy(config.policy, config.allowUnmetered, FALSE)
    /\ policy # "bad"

Tied ==
  /\ Shape
  /\ edits = 0 => RulesInForce /\ Origin /\ \A i \in DOMAIN job : Follows(i)

\* Files that stay are read as before.
LEMMA SameFiles ==
  ASSUME UNCHANGED <<config, files>>
  PROVE  /\ \A dir : LoadCorpus(dir)' = LoadCorpus(dir)
         /\ WholeBatch' = WholeBatch
         /\ \A case : NameFindsIt(case)' <=> NameFindsIt(case)
         /\ UNCHANGED <<disk, edits>>
         /\ \A p, a, s : LoadedPolicy(p, a, s)' = LoadedPolicy(p, a, s)
<1>1. UNCHANGED <<disk, edits, config>>
  BY DEF files
<1>2. \A dir : LoadCorpus(dir)' = LoadCorpus(dir)
  BY <1>1 DEF LoadCorpus
<1>3. WholeBatch' = WholeBatch
  BY <1>1, <1>2 DEF WholeBatch, ChooseCases, ChooseExternal
<1>4. \A case : NameFindsIt(case)' <=> NameFindsIt(case)
  BY <1>3 DEF NameFindsIt
<1>5. \A p, a, s : LoadedPolicy(p, a, s)' = LoadedPolicy(p, a, s)
  BY <1>1 DEF LoadedPolicy
<1> QED
  BY <1>1, <1>2, <1>3, <1>4, <1>5

LEMMA SameOrigin ==
  ASSUME UNCHANGED <<config, files, cases>>, Origin
  PROVE  Origin'
  BY SameFiles DEF Origin

\* A case of the command line's directory is one its worker can look up.
LEMMA Known ==
  ASSUME Files, config \in Configs, Origin, NEW i \in DOMAIN cases,
         cases[i].source[1] = config.corpus
  PROVE  /\ \E k \in DOMAIN WholeBatch : WholeBatch[k] = cases[i]
         /\ cases[i].name # NoName
<1>1. CASE \E k \in DOMAIN BuiltIns : cases[i] = BuiltIns[k]
  <2>1. config.corpus = NoDir
    BY <1>1, LaunchAssumption
  <2> QED
    BY <1>1, <2>1, Batch, LaunchAssumption
<1>2. CASE \E dir \in Dirs : cases = LoadCorpus(dir)
  <2>1. PICK dir \in Dirs : cases = LoadCorpus(dir)
    BY <1>2
  <2>2. cases # <<>>
    OBVIOUS
  <2>3. cases[i].source[1] = dir
    BY <2>1, <2>2, CorpusLoaded
  <2>4. WholeBatch = cases
    BY <2>1, <2>3, Batch, LaunchAssumption
  <2> QED
    BY <2>4, Batch
<1>3. CASE \E k \in DOMAIN WholeBatch : cases = <<WholeBatch[k]>>
  BY <1>3, Batch
<1> QED
  BY <1>1, <1>2, <1>3 DEF Origin

\* Only one run's record changes, and it is as asked.
LEMMA TiedAdvance ==
  ASSUME Tied, NEW i, NEW record, Advance(i, record), phase = "run",
         edits = 0 => Obeys(i, record)
  PROVE  Tied'
<1>1. /\ job' = [job EXCEPT ![i] = record]
      /\ UNCHANGED <<config, files, policy, phase, isolation, cases>>
  BY DEF Advance
<1>2. /\ UNCHANGED <<disk, edits>> /\ WholeBatch' = WholeBatch
      /\ \A case : NameFindsIt(case)' <=> NameFindsIt(case)
      /\ \A p, a, s : LoadedPolicy(p, a, s)' = LoadedPolicy(p, a, s)
  BY <1>1, SameFiles
<1>3. Shape'
  BY <1>1, <1>2 DEF Tied, Shape
<1>4. ASSUME edits = 0 PROVE RulesInForce' /\ Origin'
  BY <1>1, <1>2, <1>4, SameOrigin DEF Tied, RulesInForce
<1>5. ASSUME edits = 0, NEW k \in DOMAIN job' PROVE Follows(k)'
  <2>1. k \in DOMAIN job /\ job'[k] = IF k = i THEN record ELSE job[k]
    BY <1>1, <1>5
  <2>2. Obeys(k, job'[k])
    BY <1>5, <2>1 DEF Tied, Follows
  <2>3. NameFindsIt(cases[k])' <=> NameFindsIt(cases[k])
    BY <1>1, <1>2 DEF NameFindsIt
  <2> QED
    BY <1>1, <2>2, <2>3 DEF Follows, Obeys, RulesOf
<1> QED
  BY <1>2, <1>3, <1>4, <1>5 DEF Tied

\* A batch begins with no run under way.
LEMMA TiedStart ==
  ASSUME Tied, NEW chosen, NEW mode, StartBatch(chosen, mode),
         UNCHANGED <<config, files, policy>>, phase \in {"choose", "menu"},
         edits = 0 => Origin'
  PROVE  Tied'
<1>1. /\ UNCHANGED <<disk, edits>>
      /\ \A p, a, s : LoadedPolicy(p, a, s)' = LoadedPolicy(p, a, s)
  BY SameFiles
<1>2. /\ phase' = "run" /\ cases' = chosen
      /\ job' = [k \in DOMAIN chosen |-> Waiting]
  BY DEF StartBatch
<1>3. Shape'
  BY <1>1, <1>2 DEF Tied, Shape
<1>4. ASSUME edits = 0 PROVE RulesInForce'
  BY <1>1, <1>2, <1>4 DEF Tied, RulesInForce
<1>5. ASSUME NEW k \in DOMAIN job' PROVE Follows(k)'
  <2>1. job'[k].stage = "waiting"
    BY <1>2, <1>5 DEF Waiting
  <2> QED
    BY <2>1 DEF Follows, Obeys
<1> QED
  BY <1>1, <1>3, <1>4, <1>5 DEF Tied

\* A step that leaves the batch, the files and what is known of them.
LEMMA TiedStays ==
  ASSUME Tied, UNCHANGED <<config, files, cases, job, isolation>>,
         policy' = policy \/ job = <<>>, Shape', edits = 0 => RulesInForce'
  PROVE  Tied'
<1>1. /\ UNCHANGED <<disk, edits>>
      /\ \A case : NameFindsIt(case)' <=> NameFindsIt(case)
      /\ WholeBatch' = WholeBatch
  BY SameFiles
<1>2. ASSUME edits = 0 PROVE Origin'
  BY <1>2, SameOrigin DEF Tied
<1>3. ASSUME edits = 0, NEW k \in DOMAIN job' PROVE Follows(k)'
  <2>1. Follows(k) /\ policy' = policy
    BY <1>3 DEF Tied
  <2>2. NameFindsIt(cases[k])' <=> NameFindsIt(cases[k])
    BY <1>1 DEF NameFindsIt
  <2> QED
    BY <2>1, <2>2 DEF Follows, Obeys, RulesOf
<1> QED
  BY <1>1, <1>2, <1>3 DEF Tied

\* The worker's policy is that of this process, but for a static fixture's,
\* and loads when this process's does.
LEMMA WorkerPolicy ==
  ASSUME NEW case, policy = LoadedPolicy(config.policy, config.allowUnmetered, FALSE),
         policy # "bad"
  PROVE  LoadedPolicy(Args(case).policy, Args(case).allowUnmetered,
                      Args(case).executeStatic) = RulesOf(case)
  BY DEF LoadedPolicy, Args, RulesOf

\* What a worker does with the case of its name.
LEMMA WorkerVerdict ==
  ASSUME Files, config \in Configs, Origin, NEW i \in DOMAIN cases,
         cases[i].source[1] = config.corpus, NameFindsIt(cases[i])
  PROVE  LET found == ChooseCases(Args(cases[i]).corpus, Args(cases[i]).name)
             verdict == Audit(found[1], RulesOf(cases[i]), Args(cases[i]).executeStatic)
         IN /\ found # <<>> /\ found[1] = cases[i]
            /\ verdict = IF cases[i].kind = "static" THEN "executed"
                         ELSE Audit(cases[i], policy, FALSE)
<1>1. /\ \E k \in DOMAIN WholeBatch : WholeBatch[k] = cases[i]
      /\ cases[i].name # NoName
  BY Known
<1>2. Args(cases[i]).corpus = config.corpus /\ Args(cases[i]).name = cases[i].name
      /\ Args(cases[i]).executeStatic = (cases[i].kind = "static")
  BY DEF Args
<1>3. /\ DOMAIN WholeBatch \subseteq Nat
      /\ ChooseCases(config.corpus, cases[i].name) = Find(WholeBatch, cases[i].name)
  BY <1>1, Batch
<1>4. Find(WholeBatch, cases[i].name) # <<>>
  BY <1>1, <1>3, Found
<1>5. Find(WholeBatch, cases[i].name)[1] = cases[i]
  BY <1>4 DEF NameFindsIt
<1>6. Audit(cases[i], RulesOf(cases[i]), cases[i].kind = "static")
        = IF cases[i].kind = "static" THEN "executed"
          ELSE Audit(cases[i], policy, FALSE)
  BY DEF Audit, RulesOf
<1> QED
  BY <1>2, <1>3, <1>4, <1>5, <1>6

\* The invariant, and from it SameCaseSameRules and ManifestHonoured: see
\* CaseLaunch.
LEMMA TiedInvariant == Spec => []Tied
<1>1. Init => Tied
  <2> SUFFICES ASSUME Init PROVE Tied
    OBVIOUS
  <2>1. /\ phase = "load" /\ cases = <<>> /\ job = <<>> /\ edits = 0
        /\ config \in Configs
    BY DEF Init
  <2> QED
    BY <2>1 DEF Tied, Shape, RulesInForce, Origin
<1>2. Inv /\ Inv' /\ Tied /\ [Next]_vars => Tied'
  <2> SUFFICES ASSUME Inv, Inv', Tied, [Next]_vars PROVE Tied'
    OBVIOUS
  <2>1. Files /\ config \in Configs /\ DOMAIN job = DOMAIN cases
    BY DEF Inv, Tied, Shape
  <2>2. ASSUME NEW code, Exit(code), UNCHANGED <<config, files>>,
               policy' = policy \/ phase = "load"
        PROVE  Tied'
    <3>1. /\ UNCHANGED <<cases, job, isolation>> /\ phase' = "done"
          /\ policy' = policy \/ job = <<>>
      BY <2>2 DEF Exit, batch, Tied, Shape
    <3>2. Shape' /\ RulesInForce'
      BY <2>2, <3>1 DEF Shape, RulesInForce, Tied, files
    <3> QED
      BY <2>2, <3>1, <3>2, TiedStays
  <2>3. CASE LoadPolicy
    <3> DEFINE loaded == LoadedPolicy(config.policy, config.allowUnmetered, FALSE)
    <3>1. phase = "load" /\ policy' = loaded /\ UNCHANGED <<config, files>>
      BY <2>3 DEF LoadPolicy
    <3>2. CASE loaded = "bad"
      BY <2>2, <2>3, <3>1, <3>2 DEF LoadPolicy
    <3>3. CASE loaded # "bad"
      <4>1. /\ phase' = IF config.show = "menu" THEN "menu" ELSE "choose"
            /\ UNCHANGED <<cases, job, isolation>>
        BY <2>3, <3>3 DEF LoadPolicy, batch
      <4>2. loaded' = loaded
        BY <3>1, SameFiles
      <4>3. Shape' /\ RulesInForce' /\ job = <<>>
        BY <3>1, <3>3, <4>1, <4>2 DEF Tied, Shape, RulesInForce, files
      <4> QED
        BY <3>1, <4>1, <4>3, TiedStays
    <3> QED
      BY <3>2, <3>3
  <2>4. CASE Choose
    <3> DEFINE chosen == ChooseCases(config.corpus, config.case)
    <3>1. phase = "choose" /\ UNCHANGED <<config, files, policy>>
      BY <2>4 DEF Choose
    <3>2. CASE \E code \in {0, 2} : Exit(code)
      BY <2>2, <3>1, <3>2
    <3>3. ASSUME NEW mode, chosen # <<>>, StartBatch(chosen, mode)
          PROVE  Tied'
      <4>1. cases' = chosen /\ config.show # "menu"
        BY <3>1, <3>3 DEF StartBatch, Tied, Shape
      <4>2. /\ WholeBatch' = WholeBatch
            /\ \A dir : LoadCorpus(dir)' = LoadCorpus(dir)
        BY <3>1, SameFiles
      <4>3. CASE config.case = NoName
        <5>1. chosen = WholeBatch
          BY <4>3 DEF WholeBatch
        <5>2. chosen = BuiltIns \/ \E dir \in Dirs : chosen = LoadCorpus(dir)
          BY <2>1, <5>1, Batch
        <5>3. Origin'
          BY <4>1, <4>2, <5>2 DEF Origin
        <5> QED
          BY <3>1, <3>3, <5>3, TiedStart
      <4>4. CASE config.case # NoName
        <5>1. chosen = Find(WholeBatch, config.case) /\ DOMAIN WholeBatch \subseteq Nat
          BY <2>1, <4>4, Batch
        <5>2. \E k \in DOMAIN WholeBatch : chosen = <<WholeBatch[k]>>
          BY <3>3, <5>1, Found
        <5>3. Origin'
          BY <3>1, <4>1, <4>2, <4>4, <5>2 DEF Origin
        <5> QED
          BY <3>1, <3>3, <5>3, TiedStart
      <4> QED
        BY <4>3, <4>4
    <3> QED
      BY <2>4, <3>2, <3>3 DEF Choose
  <2>5. CASE EditDisk
    <3>1. /\ edits' = edits + 1 /\ UNCHANGED <<config, policy, phase, batch>>
      BY <2>5 DEF EditDisk
    <3>2. edits \in Nat
      BY DEF Tied, Shape
    <3>3. edits' \in Nat /\ edits' # 0
      BY <3>1, <3>2
    <3> QED
      BY <3>1, <3>3 DEF Tied, Shape, batch
  <2>6. CASE EmitReports
    <3>1. UNCHANGED <<config, files, policy>> /\ phase = "run"
      BY <2>6 DEF EmitReports
    <3>2. CASE \E code \in {0, 1} : Exit(code)
      BY <2>2, <3>1, <3>2
    <3>3. CASE phase' = "menu" /\ cases' = <<>> /\ job' = <<>>
      <4>1. /\ UNCHANGED <<disk, edits>>
            /\ \A p, a, s : LoadedPolicy(p, a, s)' = LoadedPolicy(p, a, s)
        BY <3>1, SameFiles
      <4>2. Shape' /\ Origin' /\ DOMAIN job' = {}
        BY <3>1, <3>3, <4>1 DEF Tied, Shape, Origin
      <4>3. edits = 0 => RulesInForce'
        BY <3>1, <3>3, <4>1 DEF Tied, RulesInForce
      <4> QED
        BY <4>1, <4>2, <4>3 DEF Tied
    <3> QED
      BY <2>6, <3>2, <3>3 DEF EmitReports
  <2>7. ASSUME NEW chosen, NEW mode, phase = "menu",
               StartBatch(chosen, mode), UNCHANGED <<config, files, policy>>,
               \/ chosen = BuiltIns \/ \E k \in DOMAIN BuiltIns : chosen = <<BuiltIns[k]>>
               \/ chosen = LoadCorpus(Example)
        PROVE  Tied'
    <3>1. cases' = chosen
      BY <2>7 DEF StartBatch
    <3>2. \A dir : LoadCorpus(dir)' = LoadCorpus(dir)
      BY <2>7, SameFiles
    <3>3. Origin'
      BY <2>7, <3>1, <3>2, LaunchAssumption DEF Origin
    <3> QED
      BY <2>7, <3>3, TiedStart
  <2>8. CASE MenuRunBuiltIns
    BY <2>7, <2>8 DEF MenuRunBuiltIns
  <2>9. CASE MenuCockpit \/ MenuTimeoutProof \/ MenuExternalCorpus
    BY <2>7, <2>9, LaunchAssumption
       DEF MenuCockpit, MenuTimeoutProof, MenuExternalCorpus
  <2>10. CASE MenuQuit
    BY <2>2, <2>10 DEF MenuQuit
  <2>11. ASSUME NEW i \in DOMAIN cases, Run(i) PROVE Tied'
    <3>1. phase = "run"
      BY <2>11 DEF Run, RunInProcess, SpawnWorker, SupervisorGivesUp,
                   WorkerLoadsPolicy, WorkerRuns, Turn
    <3>2. CASE RunInProcess(i)
      <4> DEFINE record == Done(cases[i].source, Audit(cases[i], policy, FALSE))
      <4>1. Advance(i, record) /\ isolation = "in-process"
        BY <3>2 DEF RunInProcess
      <4>2. record.stage = "done"
        BY DEF Done, Waiting
      <4> HIDE DEF record
      <4>3. Obeys(i, record)
        BY <4>1, <4>2 DEF Obeys
      <4> QED
        BY <3>1, <4>1, <4>3, TiedAdvance
    <3>3. CASE SpawnWorker(i)
      <4> DEFINE record == [Waiting EXCEPT !.stage = "spawned"]
      <4>1. Advance(i, record)
        BY <3>3 DEF SpawnWorker
      <4>2. record.stage = "spawned"
        BY DEF Waiting
      <4> HIDE DEF record
      <4>3. Obeys(i, record)
        BY <4>2 DEF Obeys
      <4> QED
        BY <3>1, <4>1, <4>3, TiedAdvance
    <3>4. CASE SupervisorGivesUp(i)
      <4> DEFINE record == Done(<<>>, "gave_up")
      <4>1. Advance(i, record)
        BY <3>4 DEF SupervisorGivesUp
      <4>2. record.stage = "done" /\ record.verdict = "gave_up"
        BY DEF Done, Waiting
      <4> HIDE DEF record
      <4>3. Obeys(i, record)
        BY <4>2 DEF Obeys
      <4> QED
        BY <3>1, <4>1, <4>3, TiedAdvance
    <3>5. CASE WorkerLoadsPolicy(i)
      <4> DEFINE args == Args(cases[i])
                 loaded == LoadedPolicy(args.policy, args.allowUnmetered,
                                        args.executeStatic)
                 refused == Done(<<>>, "refused")
                 going == [Waiting EXCEPT !.stage = "loaded", !.policy = loaded]
      <4>1. Advance(i, IF ~IsValue(args.name) \/ loaded = "bad" THEN refused ELSE going)
        BY <3>5 DEF WorkerLoadsPolicy
      <4>2. isolation = "process"
        BY <2>1, <3>5 DEF WorkerLoadsPolicy, Inv, JobPermitted
      <4>3. /\ refused.stage = "done"
            /\ going.stage = "loaded" /\ going.policy = loaded
        BY DEF Done, Waiting
      <4>4. ASSUME edits = 0
            PROVE  loaded = RulesOf(cases[i]) /\ RulesOf(cases[i]) # "bad"
        <5>1. /\ policy = LoadedPolicy(config.policy, config.allowUnmetered, FALSE)
              /\ policy # "bad"
          BY <3>1, <4>4 DEF Tied, RulesInForce
        <5> QED
          BY <5>1, WorkerPolicy DEF RulesOf
      <4>5. args.name = cases[i].name
        BY DEF Args
      <4> HIDE DEF args, loaded, refused, going
      <4>6. CASE ~IsValue(args.name)
        <5>1. Advance(i, refused)
          BY <4>1, <4>6
        <5>2. Obeys(i, refused)
          BY <4>3, <4>5, <4>6 DEF Obeys, NameFindsIt
        <5> QED
          BY <3>1, <5>1, <5>2, TiedAdvance
      <4>7. CASE IsValue(args.name) /\ loaded = "bad"
        <5>1. Advance(i, refused) /\ edits # 0
          BY <4>1, <4>4, <4>7
        <5> QED
          BY <3>1, <5>1, TiedAdvance
      <4>8. CASE IsValue(args.name) /\ loaded # "bad"
        <5>1. Advance(i, going)
          BY <4>1, <4>8
        <5>2. edits = 0 => Obeys(i, going)
          BY <4>2, <4>3, <4>4 DEF Obeys
        <5> QED
          BY <3>1, <5>1, <5>2, TiedAdvance
      <4> QED
        BY <4>6, <4>7, <4>8
    <3>6. CASE WorkerRuns(i)
      <4> DEFINE args == Args(cases[i])
                 found == ChooseCases(args.corpus, args.name)
                 verdict == Audit(found[1], job[i].policy, args.executeStatic)
                 refused == Done(<<>>, "refused")
                 ran == Done(found[1].source, verdict)
      <4>1. /\ Advance(i, IF found = <<>> THEN refused ELSE ran)
            /\ job[i].stage = "loaded"
        BY <3>6 DEF WorkerRuns
      <4>2. /\ refused.stage = "done"
            /\ ran.stage = "done" /\ ran.ran = found[1].source
            /\ ran.verdict = verdict
        BY DEF Done, Waiting
      <4>3. ASSUME edits = 0, cases[i].source[1] = config.corpus,
                   NameFindsIt(cases[i])
            PROVE  /\ found # <<>> /\ found[1] = cases[i]
                   /\ verdict = IF cases[i].kind = "static" THEN "executed"
                                ELSE Audit(cases[i], policy, FALSE)
        <5>1. Origin /\ job[i].policy = RulesOf(cases[i])
          BY <2>1, <4>1, <4>3 DEF Tied, Follows, Obeys
        <5> QED
          BY <2>1, <4>3, <5>1, WorkerVerdict
      <4> HIDE DEF found, verdict, refused, ran
      <4>4. CASE found = <<>>
        <5>1. Advance(i, refused)
          BY <4>1, <4>4
        <5>2. edits = 0 => Obeys(i, refused)
          BY <4>2, <4>3, <4>4 DEF Obeys
        <5> QED
          BY <3>1, <5>1, <5>2, TiedAdvance
      <4>5. CASE found # <<>>
        <5>1. Advance(i, ran)
          BY <4>1, <4>5
        <5>2. edits = 0 => Obeys(i, ran)
          BY <4>2, <4>3 DEF Obeys
        <5> QED
          BY <3>1, <5>1, <5>2, TiedAdvance
      <4> QED
        BY <4>4, <4>5
    <3> QED
      BY <2>11, <3>2, <3>3, <3>4, <3>5, <3>6 DEF Run
  <2>12. CASE UNCHANGED vars
    <3>1. UNCHANGED <<config, files, cases, job, isolation>>
          /\ policy' = policy /\ phase' = phase
      BY <2>12 DEF vars, batch
    <3>2. /\ UNCHANGED edits
          /\ \A p, a, s : LoadedPolicy(p, a, s)' = LoadedPolicy(p, a, s)
      BY <3>1, SameFiles
    <3>3. Shape' /\ (edits = 0 => RulesInForce')
      BY <3>1, <3>2 DEF Tied, Shape, RulesInForce
    <3> QED
      BY <3>1, <3>3, TiedStays
  <2> QED
    BY <2>3, <2>4, <2>5, <2>6, <2>8, <2>9, <2>10, <2>11, <2>12 DEF Next
<1> QED
  BY <1>1, <1>2, Invariant, PTL DEF Spec

\* While nobody edits the files, a worker runs the case it was started for
\* with the verdict this process would give it (supervisor.rs
\* run_case_supervised's arguments, main.rs run_worker): for every corpus,
\* policy, command line and set of names.
THEOREM IsolationChangesNothing == Spec => []SameCaseSameRules
<1>1. Tied => SameCaseSameRules
  BY DEF Tied, Follows, Obeys, SameCaseSameRules
<1> QED
  BY <1>1, TiedInvariant, PTL

\* A corpus is loaded whole, in the order of the paths, and the manifest takes
\* effect entry by entry (corpus.rs load_corpus): for every set of files and
\* every manifest.
THEOREM CorpusAlwaysHonoured == Spec => []ManifestHonoured
<1>1. Inv /\ Tied => ManifestHonoured
  <2> SUFFICES ASSUME Inv, Tied, edits = 0, cases # <<>>,
                      cases[1].source[1] # NoDir,
                      config.show = "menu" \/ config.case = NoName
               PROVE  ManifestHonoured
    BY DEF ManifestHonoured
  <2>1. PICK dir \in Dirs : cases = LoadCorpus(dir)
    <3>1. cases # BuiltIns
      <4>1. 1 \in DOMAIN BuiltIns
        BY LaunchAssumption
      <4> QED
        BY <4>1, LaunchAssumption
    <3>2. \A k \in DOMAIN BuiltIns : cases # <<BuiltIns[k]>>
      BY LaunchAssumption
    <3> QED
      BY <3>1, <3>2 DEF Tied, Origin
  <2> DEFINE content == disk.dirs[dir]
             n == Cardinality(DOMAIN content.files)
  <2>2. /\ n \in Nat /\ DOMAIN cases = 1 .. n
        /\ \A k \in 1 .. n : cases[k].source[1] = dir
        /\ \A k \in 2 .. n : cases[k - 1].source[2] < cases[k].source[2]
        /\ \A m \in DOMAIN content.manifest : \E k \in 1 .. n :
             LET entry == content.manifest[m]
             IN cases[k] = Case(entry.name, entry.kind,
                                <<dir, entry.file, content.files[entry.file]>>)
    BY <2>1, CorpusLoaded DEF Inv
  <2>3. cases \in Seq({cases[k] : k \in 1 .. n}) /\ Len(cases) = n
    <3>1. cases = [k \in 1 .. n |-> cases[k]]
      <4>1. cases # <<>>
        OBVIOUS
      <4>2. \E whole : cases = [k \in 1 .. n |-> whole[k]]
        <5> DEFINE At(k) == CHOOSE f \in DOMAIN content.files :
                              PlaceOf(DOMAIN content.files, f) = k
                   whole == [k \in 1 .. n |-> LoadedCase(dir, content, At(k))]
        <5>1. cases = whole
          BY <2>1, <4>1 DEF LoadCorpus
        <5>2. whole = [k \in 1 .. n |-> whole[k]]
          <6> HIDE DEF At, n
          <6> QED
            OBVIOUS
        <5> HIDE DEF whole
        <5> QED
          BY <5>1, <5>2
      <4> HIDE DEF n
      <4> QED
        BY <4>2
    <3> HIDE DEF n
    <3> QED
      BY <2>2, <3>1
  <2>4. cases[1].source[1] = dir
    <3>1. n # 0
      BY <2>2
    <3> QED
      BY <2>2, <3>1
  <2> HIDE DEF n
  <2> QED
    BY <2>2, <2>3, <2>4 DEF ManifestHonoured, n
<1> QED
  BY <1>1, Invariant, TiedInvariant, PTL

=============================================================================
