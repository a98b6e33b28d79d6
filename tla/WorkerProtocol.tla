--------------------------- MODULE WorkerProtocol ---------------------------
(***************************************************************************)
(* supervisor.rs: the line a worker prints and what its parent reads from  *)
(* it.  A text is a sequence of symbols; a code or a number is one symbol, *)
(* and the numeric fields, which all parse alike, are two.                 *)
(***************************************************************************)
EXTENDS Integers, Sequences, FiniteSetsExt

Tab == "tab"
LF == "lf"
CR == "cr"
Backslash == "backslash"

Prefix == <<"WORKER_PREFIX">>
Number == "number"
CodeSymbols == {"OK", "ERR_INTERNAL"}

NoSummary == [actual |-> "unreadable"]

\* Faulty: escape_field leaves the backslash itself as it is.
EscapeChar_NoBackslash(ch) ==
  CASE ch = Tab -> <<Backslash, "t">>
    [] ch = LF -> <<Backslash, "n">>
    [] ch = CR -> <<Backslash, "r">>
    [] OTHER -> <<ch>>

EscapeChar(ch) ==
  CASE ch = Backslash -> <<Backslash, Backslash>>
    [] ch = Tab -> <<Backslash, "t">>
    [] ch = LF -> <<Backslash, "n">>
    [] ch = CR -> <<Backslash, "r">>
    [] OTHER -> <<ch>>

\* escape_field: escaped[n] is what its loop has pushed after n symbols.
Escape(text) ==
  LET escaped[n \in 0 .. Len(text)] ==
        IF n = 0 THEN <<>> ELSE escaped[n - 1] \o EscapeChar(text[n])
  IN escaped[Len(text)]

\* encode_worker_report up to the tab before host_error.
BeforeError(r) ==
  LET code == IF r.actual = "none" THEN <<>> ELSE <<r.actual>>
  IN Prefix \o <<Tab>> \o code \o <<Tab>> \o <<Number>> \o <<Tab>>
       \o Escape(r.lastImport) \o <<Tab>> \o <<Number>> \o <<Tab>>
       \o Escape(r.lastDetail) \o <<Tab>>

\* encode_worker_report, as println! prints it.
Encode(r) == BeforeError(r) \o Escape(r.hostError) \o <<LF>>

Unescaped == [t |-> Tab, n |-> LF, r |-> CR, backslash |-> Backslash]

\* One symbol of unescape_field.
Read(state, ch) ==
  IF ~state.ok THEN state
  ELSE IF ~state.escape
  THEN IF ch = Backslash THEN [state EXCEPT !.escape = TRUE]
       ELSE [state EXCEPT !.out = Append(@, ch)]
  ELSE IF ch \in DOMAIN Unescaped
  THEN [state EXCEPT !.escape = FALSE, !.out = Append(@, Unescaped[ch])]
  ELSE [state EXCEPT !.ok = FALSE]

\* unescape_field: None for an unknown escape and for a text that ends in the
\* middle of one.
Unescape(field) ==
  LET read[n \in 0 .. Len(field)] ==
        IF n = 0 THEN [out |-> <<>>, escape |-> FALSE, ok |-> TRUE]
        ELSE Read(read[n - 1], field[n])
      end == read[Len(field)]
  IN [ok |-> end.ok /\ ~end.escape, text |-> end.out]

\* One symbol of str::split.
Cut(fields, ch) ==
  IF ch = Tab THEN Append(fields, <<>>)
  ELSE [fields EXCEPT ![Len(fields)] = Append(@, ch)]

\* str::split('\t')
Split(line) ==
  LET cut[n \in 0 .. Len(line)] ==
        IF n = 0 THEN <<<<>>>> ELSE Cut(cut[n - 1], line[n])
  IN cut[Len(line)]

\* The first of str::lines, with or without its line end.
FirstLine(stdout) ==
  LET ends == {i \in DOMAIN stdout : stdout[i] = LF}
  IN IF ends = {} THEN stdout ELSE SubSeq(stdout, 1, Min(ends) - 1)

\* Faulty: a host_error that is not there is an empty one.
Fields_ErrorOptional(stdout) ==
  LET fields == Split(FirstLine(stdout))
  IN IF Len(fields) = 6 THEN Append(fields, <<>>) ELSE fields

Fields(stdout) == Split(FirstLine(stdout))

\* parse_worker_summary: every field there and readable; more fields than
\* these would not matter.
Parse(stdout) ==
  LET fields == Fields(stdout)
      texts == [i \in {4, 6, 7} |-> Unescape(fields[i])]
  IN IF /\ Len(fields) >= 7
        /\ fields[1] = Prefix
        /\ fields[2] \in {<<>>} \cup {<<code>> : code \in CodeSymbols}
        /\ fields[3] = <<Number>> /\ fields[5] = <<Number>>
        /\ \A i \in {4, 6, 7} : texts[i].ok
     THEN [actual |-> IF fields[2] = <<>> THEN "none" ELSE fields[2][1],
           lastImport |-> texts[4].text, lastDetail |-> texts[6].text,
           hostError |-> texts[7].text]
     ELSE NoSummary
=============================================================================
