---------------------------- MODULE MCCaseLaunch ----------------------------
(* Two built-in cases, the second the static fixture of the timeout proof, *)
(* and one directory whose content is good or bad in each way the loader   *)
(* tells apart, with names that clash with one another, with a built-in    *)
(* case's or with an option.                                               *)
EXTENDS CaseLaunch

CONSTANTS examples

MCBuiltIns ==
  <<Case("good", "run", <<NoDir, 1, "metered">>),
    Case("loop", "static", <<NoDir, 2, "unmetered">>)>>

MCDirs == {examples}
MCStems == <<"first", "second">>

Entry(file, name, kind) == [file |-> file, name |-> name, kind |-> kind]
Content(modules, manifest) == [files |-> modules, manifest |-> manifest]

MCContents ==
  {Content(<<"metered", "unmetered">>, <<>>),
   Content(<<"metered", "unmetered">>,
           <<Entry(2, "x", "static"), Entry(1, "loop", "run")>>),
   Content(<<"metered", "unmetered">>,
           <<Entry(1, "x", "run"), Entry(2, "x", "static")>>),
   Content(<<"unmetered">>, <<Entry(1, "x", "run")>>),
   Content(<<"metered">>, <<Entry(1, "--x", "run")>>),
   Content(<<"metered">>, <<Entry(2, "x", "run")>>),
   Content(<<"metered">>, <<Entry(1, "x", "run"), Entry(1, "y", "static")>>),
   Content(<<"metered", "unreadable">>, <<>>),
   Content(<<>>, <<>>)}

MCConfigs ==
  [policy: BOOLEAN, corpus: {NoDir, examples}, case: {NoName, "loop", "x"},
   isolation: {"in-process", "process"}, allowUnmetered: BOOLEAN,
   show: {"report", "list", "tui", "menu"}]
=============================================================================
