----------------------------- MODULE CaseLaunch -----------------------------
(***************************************************************************)
(* main.rs from the command line to the runs of its cases: which policy,   *)
(* which cases, and for each case whether it runs in this process or in a  *)
(* worker.  A worker is this same program started with arguments made from *)
(* the case; it reads the policy file and the corpus again, looks the case *)
(* up by its name, and runs it.  Files may change in between.              *)
(*                                                                         *)
(* Of a policy only require_tick_import is kept, of a guest module whether *)
(* it imports host.tick; what a run comes to once it executes is the       *)
(* matter of CaseRunner, and how a worker is watched that of Supervisor.   *)
(***************************************************************************)
EXTENDS Integers, Sequences, FiniteSets

CONSTANTS
  BuiltIns,     \* all_cases(): a sequence of cases, of the directory NoDir
  Proof,        \* the place in it of the case the menu's timeout proof runs
  Dirs,         \* directories of guest modules, and
  Example,      \* the one among them the menu loads: examples/external-corpus
  NoDir, NoName, \* Option::None for a directory and for a name
  Contents,     \* what a directory may hold
  Stems,        \* file_stem of each of its module files
  DashNames,    \* names that begin with "--"
  Configs,      \* command lines, parsed
  MaxEdits      \* bound of the model: changes to the files

VARIABLES
  config,    \* the Config of the process: never changes
  disk,      \* policy: the policy file; dirs: the directories
  policy,    \* the process's policy once loaded
  phase,     \* "load", "choose", "menu", "run" or "done"
  isolation, \* isolation of the batch in hand: "in-process" or "process"
  cases,     \* the cases of the batch in hand
  job,       \* for each of them, how far its run is
  exitCode,  \* the exit code of the process, or -1
  edits,     \* changes made to the files
  held       \* history: what the policy file has held

files == <<disk, edits, held>>
batch == <<isolation, cases, job>>
vars == <<config, files, policy, phase, batch, exitCode>>

\* A policy file is one that does not parse or one with its
\* require_tick_import; a policy is one of the latter.
PolicyFiles == {"bad", "tick", "no_tick"}

ASSUME LaunchAssumption ==
  /\ BuiltIns \in Seq({BuiltIns[i] : i \in DOMAIN BuiltIns})
  /\ Proof \in DOMAIN BuiltIns
  /\ \A i \in DOMAIN BuiltIns :
       BuiltIns[i].source[1] = NoDir /\ BuiltIns[i].name # NoName
  /\ Example \in Dirs /\ NoDir \notin Dirs
  /\ \A content \in Contents :
       /\ IsFiniteSet(DOMAIN content.files) /\ DOMAIN content.files \subseteq Nat
       /\ \A f \in DOMAIN content.files : Stems[f] # NoName
       /\ \A k \in DOMAIN content.manifest : content.manifest[k].name # NoName
  /\ \A c \in Configs : c.corpus \in Dirs \cup {NoDir}
  /\ MaxEdits \in Nat

Case(name, kind, source) == [name |-> name, kind |-> kind, source |-> source]

\* A run of a case: the stage of its process, the policy its worker loaded,
\* the module that ran, if one did, and the verdict.
Waiting == [stage |-> "waiting", policy |-> "bad", ran |-> <<>>, verdict |-> "none"]

Init ==
  /\ config \in Configs
  /\ disk \in [policy: PolicyFiles, dirs: [Dirs -> Contents]]
  /\ policy = "bad"
  /\ phase = "load"
  /\ isolation = "in-process"
  /\ cases = <<>>
  /\ job = <<>>
  /\ exitCode = -1
  /\ edits = 0
  /\ held = {disk.policy}

-----------------------------------------------------------------------------
(* Loading.  A directory's content is its module files, numbered in the     *)
(* order of their paths, and the entries of its corpus.toml.                *)

\* load_policy, with the flags that lift require_tick_import.
LoadedPolicy(hasPath, allowUnmetered, executeStatic) ==
  IF hasPath /\ disk.policy = "bad" THEN "bad"
  ELSE IF allowUnmetered \/ executeStatic THEN "no_tick"
  ELSE IF hasPath THEN disk.policy ELSE "tick"

\* Faulty: the manifest's entries are not held against one another.
ManifestFits_NoDuplicates(content) ==
  \A i \in DOMAIN content.manifest :
    content.manifest[i].file \in DOMAIN content.files

\* parse_manifest and load_corpus on the manifest: each entry names a file
\* that is there, and no two the same.
ManifestFits(content) ==
  /\ \A i \in DOMAIN content.manifest :
       content.manifest[i].file \in DOMAIN content.files
  /\ \A i, j \in DOMAIN content.manifest :
       content.manifest[i].file = content.manifest[j].file => i = j

\* load_case: the entry's name and kind, or the file's stem and a plain run.
\* A file's module is known by its directory, its file and what it imports.
LoadedCase(dir, content, file) ==
  LET source == <<dir, file, content.files[file]>>
      entries == {i \in DOMAIN content.manifest : content.manifest[i].file = file}
      entry == content.manifest[CHOOSE i \in entries : TRUE]
  IN IF entries = {} THEN Case(Stems[file], "run", source)
     ELSE Case(entry.name, entry.kind, source)

\* files.sort(): how many of the modules come up to f in the order of the paths.
PlaceOf(modules, f) == Cardinality({g \in modules : g <= f})

\* load_corpus: every file a case, in the order of their paths, or an error,
\* which is <<>>: a directory without a module file is an error too.
LoadCorpus(dir) ==
  LET content == disk.dirs[dir]
      modules == DOMAIN content.files
      At(k) == CHOOSE f \in modules : PlaceOf(modules, f) = k
  IN IF /\ ManifestFits(content)
        /\ \A f \in modules : content.files[f] # "unreadable"
     THEN [k \in 1 .. Cardinality(modules) |-> LoadedCase(dir, content, At(k))]
     ELSE <<>>

\* The first case of a name; <<>> when there is none.
Find(among, name) ==
  LET places == {i \in DOMAIN among : among[i].name = name}
  IN IF places = {} THEN <<>>
     ELSE <<among[CHOOSE i \in places : \A j \in places : i <= j]>>

\* choose_external_cases; <<>> where it exits with 2.
ChooseExternal(dir, name) ==
  IF name = NoName THEN LoadCorpus(dir) ELSE Find(LoadCorpus(dir), name)

\* The cases of a command line, and the one of a worker's; a profile chooses
\* among the built-in cases and is left out.
ChooseCases(dir, name) ==
  CASE dir # NoDir -> ChooseExternal(dir, name)
    [] dir = NoDir /\ name # NoName -> Find(BuiltIns, name)
    [] dir = NoDir /\ name = NoName -> BuiltIns

-----------------------------------------------------------------------------
(* The process. *)

Exit(code) ==
  /\ phase' = "done" /\ exitCode' = code
  /\ UNCHANGED batch

StartBatch(chosen, mode) ==
  /\ phase' = "run"
  /\ isolation' = mode
  /\ cases' = chosen
  /\ job' = [i \in DOMAIN chosen |-> Waiting]
  /\ UNCHANGED exitCode

LoadPolicy ==
  LET loaded == LoadedPolicy(config.policy, config.allowUnmetered, FALSE)
  IN /\ phase = "load"
     /\ policy' = loaded
     /\ IF loaded = "bad" THEN Exit(2)
        ELSE /\ phase' = IF config.show = "menu" THEN "menu" ELSE "choose"
             /\ UNCHANGED <<batch, exitCode>>
     /\ UNCHANGED <<config, files>>

\* --list ends after the choice, --tui runs in this process or not at all.
Choose ==
  LET chosen == ChooseCases(config.corpus, config.case)
  IN /\ phase = "choose"
     /\ \/ chosen = <<>> /\ Exit(2)
        \/ chosen # <<>> /\ config.show = "list" /\ Exit(0)
        \/ /\ chosen # <<>> /\ config.show = "tui"
           /\ IF config.isolation = "process" THEN Exit(2)
              ELSE StartBatch(chosen, "in-process")
        \/ /\ chosen # <<>> /\ config.show = "report"
           /\ StartBatch(chosen, config.isolation)
     /\ UNCHANGED <<config, files, policy>>

\* Of the menu's choices, those that run built-in cases: all of them, standing
\* for each profile's, or one.
MenuRunBuiltIns ==
  /\ phase = "menu"
  /\ \/ StartBatch(BuiltIns, config.isolation)
     \/ \E i \in DOMAIN BuiltIns : StartBatch(<<BuiltIns[i]>>, config.isolation)
  /\ UNCHANGED <<config, files, policy>>

\* The interview cockpit runs its cases in this process.
MenuCockpit ==
  /\ phase = "menu"
  /\ StartBatch(BuiltIns, "in-process")
  /\ UNCHANGED <<config, files, policy>>

\* "process supervisor timeout proof"
MenuTimeoutProof ==
  /\ phase = "menu"
  /\ StartBatch(<<BuiltIns[Proof]>>, "process")
  /\ UNCHANGED <<config, files, policy>>

\* "external corpus example"; a corpus that does not load leaves the menu.
MenuExternalCorpus ==
  LET chosen == LoadCorpus(Example)
  IN /\ phase = "menu" /\ chosen # <<>>
     /\ StartBatch(chosen, config.isolation)
     /\ UNCHANGED <<config, files, policy>>

MenuQuit ==
  /\ phase = "menu"
  /\ Exit(0)
  /\ UNCHANGED <<config, files, policy>>

-----------------------------------------------------------------------------
(* The runs. *)

\* The menu runs its cases one after the other, a command line many at once.
Turn(i) ==
  /\ phase = "run"
  /\ config.show \in {"menu", "tui"} =>
       \A j \in 1 .. i - 1 : job[j].stage = "done"

Advance(i, record) ==
  /\ job' = [job EXCEPT ![i] = record]
  /\ UNCHANGED <<config, files, policy, phase, isolation, cases, exitCode>>

Done(ran, verdict) ==
  [Waiting EXCEPT !.stage = "done", !.ran = ran, !.verdict = verdict]

Metered(case) == case.source[3] = "metered"

\* run_case_inner up to audit_module's look at the imports.
Audit(case, rules, executeStatic) ==
  CASE case.kind = "static" /\ ~executeStatic -> "denied"
    [] (case.kind # "static" \/ executeStatic) /\ rules = "tick" /\ ~Metered(case) ->
         "unmetered"
    [] OTHER -> "executed"

RunInProcess(i) ==
  /\ Turn(i) /\ isolation = "in-process" /\ job[i].stage = "waiting"
  /\ Advance(i, Done(cases[i].source, Audit(cases[i], policy, FALSE)))

\* Faulty: the user's --allow-unmetered is not passed on.
Args_NoAllow(case) ==
  [name |-> case.name, policy |-> config.policy, corpus |-> config.corpus,
   allowUnmetered |-> case.kind = "static", executeStatic |-> case.kind = "static"]

\* Faulty: the audit is lifted for whatever runs in a worker.
Args_AllowAll(case) ==
  [name |-> case.name, policy |-> config.policy, corpus |-> config.corpus,
   allowUnmetered |-> TRUE, executeStatic |-> case.kind = "static"]

\* The arguments run_case_supervised starts a worker with.
Args(case) ==
  [name |-> case.name, policy |-> config.policy, corpus |-> config.corpus,
   allowUnmetered |-> config.allowUnmetered \/ case.kind = "static",
   executeStatic |-> case.kind = "static"]

SpawnWorker(i) ==
  /\ Turn(i) /\ isolation = "process" /\ job[i].stage = "waiting"
  /\ Advance(i, [Waiting EXCEPT !.stage = "spawned"])

\* The supervisor's own failures and its timeout, at any stage.
SupervisorGivesUp(i) ==
  /\ Turn(i) /\ isolation = "process" /\ job[i].stage # "done"
  /\ Advance(i, Done(<<>>, "gave_up"))

\* require_value: the word after an option is its value unless it looks like
\* an option itself.
IsValue(name) == name \notin DashNames

\* The worker reads its arguments, where a name like an option is refused, and
\* its policy; "refused" is its exit(2), for which a report without a line of
\* the worker's stands.
WorkerLoadsPolicy(i) ==
  LET args == Args(cases[i])
      loaded == LoadedPolicy(args.policy, args.allowUnmetered, args.executeStatic)
  IN /\ phase = "run" /\ job[i].stage = "spawned"
     /\ Advance(i, IF ~IsValue(args.name) \/ loaded = "bad"
                   THEN Done(<<>>, "refused")
                   ELSE [Waiting EXCEPT !.stage = "loaded", !.policy = loaded])

\* run_worker: the case of that name, as the files are now.
WorkerRuns(i) ==
  LET args == Args(cases[i])
      found == ChooseCases(args.corpus, args.name)
  IN /\ phase = "run" /\ job[i].stage = "loaded"
     /\ Advance(i,
          IF found = <<>> THEN Done(<<>>, "refused")
          ELSE Done(found[1].source,
                    Audit(found[1], job[i].policy, args.executeStatic)))

AllDone == \A i \in DOMAIN job : job[i].stage = "done"

\* A case that executed or was denied may or may not be what was expected.
EmitReports ==
  /\ phase = "run" /\ AllDone
  /\ \/ /\ config.show # "menu"
        /\ \A i \in DOMAIN job : job[i].verdict \notin {"refused", "gave_up"}
        /\ Exit(0)
     \/ Exit(1)  \* also the menu's when emit_report cannot write
     \/ /\ config.show = "menu"
        /\ phase' = "menu"
        /\ cases' = <<>> /\ job' = <<>>
        /\ UNCHANGED <<isolation, exitCode>>
  /\ UNCHANGED <<config, files, policy>>

\* Somebody edits the policy file or a corpus.
EditDisk ==
  /\ phase # "done" /\ edits < MaxEdits
  /\ edits' = edits + 1
  /\ \/ \E file \in PolicyFiles : disk' = [disk EXCEPT !.policy = file]
     \/ \E dir \in Dirs, content \in Contents :
          disk' = [disk EXCEPT !.dirs[dir] = content]
  /\ held' = held \cup {disk'.policy}
  /\ UNCHANGED <<config, policy, phase, batch, exitCode>>

Run(i) ==
  \/ RunInProcess(i) \/ SpawnWorker(i) \/ SupervisorGivesUp(i)
  \/ WorkerLoadsPolicy(i) \/ WorkerRuns(i)

Next ==
  \/ LoadPolicy \/ Choose \/ EditDisk \/ EmitReports
  \/ MenuRunBuiltIns \/ MenuCockpit \/ MenuTimeoutProof \/ MenuExternalCorpus
  \/ MenuQuit
  \/ \E i \in DOMAIN cases : Run(i)

Spec == Init /\ [][Next]_vars

-----------------------------------------------------------------------------
WholeBatch == ChooseCases(config.corpus, NoName)

\* What the code asks of a case for its worker to find it: a name that is no
\* option, and of several cases of one name, that it is the first.
NameFindsIt(case) ==
  /\ IsValue(case.name)
  /\ Find(WholeBatch, case.name) # <<>> => Find(WholeBatch, case.name)[1] = case

\* Isolation changes where a case runs and not what runs or under which rules:
\* while nobody edits the files, the worker of a case of the directory the
\* command line names runs that very module, lets it run exactly when this
\* process would, and executes the fixtures this process only denies.
SameCaseSameRules ==
  edits = 0 /\ isolation = "process" =>
    \A i \in DOMAIN job :
      (/\ job[i].stage = "done" /\ job[i].verdict # "gave_up"
       /\ cases[i].source[1] = config.corpus /\ NameFindsIt(cases[i]))
      => /\ job[i].ran = cases[i].source
         /\ job[i].verdict = IF cases[i].kind = "static" THEN "executed"
                             ELSE Audit(cases[i], policy, FALSE)

\* README.md: "reject unmetered static-audit fixtures before a host-thread hang
\* is possible".  A module without a tick executes only if the user or the
\* policy file allowed it or, under a timeout, in the worker of what was
\* loaded as a static fixture, however the files change in between.
UnmeteredOnlyAllowed ==
  \A i \in DOMAIN job :
    job[i].verdict = "executed" /\ job[i].ran[3] = "unmetered" =>
      \/ config.allowUnmetered
      \/ config.policy /\ "no_tick" \in held
      \/ isolation = "process" /\ cases[i].kind = "static"

\* A corpus is loaded whole or not at all: each module file is one case, in
\* the order of the paths, and no entry of the manifest is without effect.
ManifestHonoured ==
  (/\ edits = 0 /\ cases # <<>> /\ cases[1].source[1] # NoDir
   /\ config.show = "menu" \/ config.case = NoName)
  => LET content == disk.dirs[cases[1].source[1]]
     IN /\ Len(cases) = Cardinality(DOMAIN content.files)
        /\ \A i \in 2 .. Len(cases) : cases[i - 1].source[2] < cases[i].source[2]
        /\ \A k \in DOMAIN content.manifest : \E i \in DOMAIN cases :
             LET entry == content.manifest[k]
             IN cases[i] = Case(entry.name, entry.kind,
                                <<cases[1].source[1], entry.file,
                                  content.files[entry.file]>>)

\* config.rs: "--isolate MODE none or process; process runs cases under a
\* supervisor".  Not so of the menu's cases whose directory is not that of the
\* command line: their worker looks for them elsewhere and does not run them.
SupervisedCasesRun ==
  edits = 0 /\ WholeBatch # <<>> => \A i \in DOMAIN job :
    NameFindsIt(cases[i]) => job[i].verdict # "refused"
=============================================================================
