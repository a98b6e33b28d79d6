---------------------------- MODULE SessionStore ----------------------------
(***************************************************************************)
(* session.rs: the history of menu runs on disk, shared by every console   *)
(* started in the same directory.  record_run writes the run's report to a *)
(* file of its own, then appends one line to index.tsv; nothing is synced  *)
(* or locked.  The line is written by writeln! on an unbuffered file, so   *)
(* each field, tab and the newline is an append of its own, and a console  *)
(* that crashes, or whose disk fills, leaves the line torn.                *)
(*                                                                         *)
(* A run is a number, in the order the runs began.  The index is the       *)
(* sequence of the pieces written: fields of runs, tabs and newlines.      *)
(***************************************************************************)
EXTENDS Integers, Sequences, FiniteSets

CONSTANTS Consoles,  \* processes that record runs
          Slugs,     \* slugify of the labels
          Fields,    \* fields of an index line (10), the path last
          Numbers,   \* those that must parse as numbers (2, 6, 7, 8 and 9)
          Times,     \* what unix_millis reads: a wall clock, which may step back
          MaxRuns    \* bound of the model: runs recorded

ASSUME SessionAssumption ==
  /\ Fields \in Nat \ {0, 1}
  /\ Numbers \subseteq 1 .. Fields /\ Numbers # {}
  /\ MaxRuns \in Nat

VARIABLES
  pc,       \* console -> "menu", "create", "write", "open" or "append"
  run,      \* console -> the run it is recording, or the last it did
  pieces,   \* console -> pieces of its line appended so far
  runs,     \* the runs begun: [id, slug] each
  files,    \* file name -> what it holds: a run's report, or as below
  index,    \* index.tsv
  acked,    \* history: runs record_run returned Ok for
  torn,     \* history: runs whose line was begun and never finished
  overlaid  \* history: runs whose line another console wrote into

vars == <<pc, run, pieces, runs, files, index, acked, torn, overlaid>>
history == <<acked, torn, overlaid>>

Empty == 0
Partial == -1  \* part of one report
Mixed == -2    \* pieces of several

Tab == [run |-> 0, field |-> 1]
Newline == [run |-> 0, field |-> 2]

Init ==
  /\ pc = [c \in Consoles |-> "menu"]
  /\ run = [c \in Consoles |-> 0]
  /\ pieces = [c \in Consoles |-> 0]
  /\ runs = <<>>
  /\ files = [name \in {} |-> Empty]
  /\ index = <<>>
  /\ acked = {} /\ torn = {} /\ overlaid = {}

\* Faulty: the file is named by its time alone.
FileName_IdOnly(r) == runs[r].id

\* session-{id}-{slug}.json
FileName(r) == <<runs[r].id, runs[r].slug>>

Put(name, content) ==
  files' = [n \in DOMAIN files \cup {name} |->
              IF n = name THEN content ELSE files[n]]

Goto(c, where) == pc' = [pc EXCEPT ![c] = where]

-----------------------------------------------------------------------------
(* record_run. *)

\* create_dir_all, then the id is the time; a directory that cannot be made
\* changes nothing.
Begin(c, time, slug) ==
  /\ pc[c] = "menu" /\ Len(runs) < MaxRuns
  /\ runs' = Append(runs, [id |-> time, slug |-> slug])
  /\ run' = [run EXCEPT ![c] = Len(runs) + 1]
  /\ pieces' = [pieces EXCEPT ![c] = 0]
  /\ Goto(c, "create")
  /\ UNCHANGED <<files, index, history>>

\* fs::write creates the file or cuts it to nothing.
CreateFile(c) ==
  /\ pc[c] = "create"
  /\ Put(FileName(run[c]), Empty)
  /\ Goto(c, "write")
  /\ UNCHANGED <<run, pieces, runs, index, history>>

\* The report's bytes, from the start of the file: over what a console with
\* the same file wrote since, of which a longer tail may show.
WriteFile(c) ==
  LET name == FileName(run[c])
  IN /\ pc[c] = "write"
     /\ \/ Put(name, run[c])
        \/ files[name] # Empty /\ Put(name, Mixed)
     /\ Goto(c, "open")
     /\ UNCHANGED <<run, pieces, runs, index, history>>

\* A write that fails part of the way: record_run returns the error.
WriteFileFails(c) ==
  /\ pc[c] = "write"
  /\ Put(FileName(run[c]), Partial)
  /\ Goto(c, "menu")
  /\ UNCHANGED <<run, pieces, runs, index, history>>

\* Faulty: the index is opened as fs::write opens a file, not to append.
OpenIndex_Truncates(c) ==
  /\ pc[c] = "open"
  /\ index' = <<>>
  /\ Goto(c, "append")
  /\ UNCHANGED <<run, pieces, runs, files, history>>

OpenIndex(c) ==
  /\ pc[c] = "open"
  /\ Goto(c, "append")
  /\ UNCHANGED <<run, pieces, runs, files, index, history>>

\* The k-th piece of a line: fields and tabs in turn, then the newline.
Piece(r, k) ==
  IF k = 2 * Fields THEN Newline
  ELSE IF k % 2 = 0 THEN Tab
  ELSE [run |-> r, field |-> (k + 1) \div 2]

\* Runs whose line is begun and may still be finished.
Underway(c) == pc[c] = "append" /\ pieces[c] > 0

\* The next piece goes to the end of the file, wherever that is now.
AppendPiece(c) ==
  LET k == pieces[c] + 1
      others == {d \in Consoles \ {c} : Underway(d)}
  IN /\ pc[c] = "append"
     /\ index' = Append(index, Piece(run[c], k))
     /\ pieces' = [pieces EXCEPT ![c] = k]
     /\ overlaid' = overlaid \cup {run[d] : d \in others}
                      \cup IF others = {} THEN {} ELSE {run[c]}
     /\ IF k = 2 * Fields
        THEN Goto(c, "menu") /\ acked' = acked \cup {run[c]}
        ELSE UNCHANGED <<pc, acked>>
     /\ UNCHANGED <<run, runs, files, torn>>

\* The console dies, or a call fails and record_run returns its error: either
\* way what is on disk stays as it is and the menu, this one or the next, is
\* ready for another run.
Abandon(c) ==
  /\ pc[c] # "menu"
  /\ Goto(c, "menu")
  /\ torn' = IF Underway(c) THEN torn \cup {run[c]} ELSE torn
  /\ UNCHANGED <<run, pieces, runs, files, index, acked, overlaid>>

Record(c) ==
  \/ \E time \in Times, slug \in Slugs : Begin(c, time, slug)
  \/ CreateFile(c) \/ WriteFile(c) \/ WriteFileFails(c)
  \/ OpenIndex(c) \/ AppendPiece(c) \/ Abandon(c)

Next == \E c \in Consoles : Record(c)

Spec == Init /\ [][Next]_vars

-----------------------------------------------------------------------------
(* list_recent. *)

\* str::lines and split: on which line of the index its p-th piece is, and in
\* which part of that line.
LineOf(p) == 1 + Cardinality({i \in 1 .. p - 1 : index[i] = Newline})
TabsBefore(p) ==
  {i \in 1 .. p - 1 : index[i] = Tab /\ LineOf(i) = LineOf(p)}

\* Faulty: what was read of earlier lines is not dropped at a newline.
Part_NotReset(l, k) ==
  {index[p] : p \in {q \in DOMAIN index :
     LineOf(q) <= l /\ Cardinality(TabsBefore(q)) = k - 1
       /\ index[q] \notin {Tab, Newline}}}

Part(l, k) ==
  {index[p] : p \in {q \in DOMAIN index :
     LineOf(q) = l /\ Cardinality(TabsBefore(q)) = k - 1
       /\ index[q] \notin {Tab, Newline}}}

\* parse_index_line: a line counts when it has the right number of fields and
\* those that must are numbers; two numbers run together are one.
Entries ==
  {l \in 1 .. LineOf(Len(index) + 1) :
     /\ Fields - 1 =
          Cardinality({i \in DOMAIN index : index[i] = Tab /\ LineOf(i) = l})
     /\ \A k \in Numbers : Part(l, k) # {}}

\* The run whose whole path an entry shows.
Shows(l, r) == Part(l, Fields) = {[run |-> r, field |-> Fields]}

Listed == {r \in DOMAIN runs : \E l \in Entries : Shows(l, r)}

-----------------------------------------------------------------------------
\* Whatever crashed when, the history never points at a report that is not
\* there: a path in it is the path of a file that was written before, and that
\* still holds that run's report unless another run had the very same
\* millisecond and slug.
ListedRunReadable ==
  \A r \in Listed :
    /\ FileName(r) \in DOMAIN files
    /\ \/ files[FileName(r)] = r
       \/ \E other \in DOMAIN runs \ {r} : runs[other] = runs[r]

\* How much history torn lines cost: each spoils at most the one line after
\* it, so no more recorded runs are missing than lines were torn or overlaid.
LossBounded ==
  Cardinality(acked \ Listed) <= Cardinality(torn) + Cardinality(overlaid)

\* An entry that mixes two runs is the work of a torn or an overlaid line:
\* consoles that take turns and finish never produce one.
EntriesOfOneRun ==
  \A l \in Entries :
    LET shown == {piece.run : piece \in UNION {Part(l, k) : k \in 1 .. Fields}}
    IN Cardinality(shown) = 1 \/ shown \cap (torn \cup overlaid) # {}
=============================================================================
