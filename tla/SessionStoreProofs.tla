------------------------- MODULE SessionStoreProofs -------------------------
(***************************************************************************)
(* Proofs about SessionStore for any number of consoles, fields, times and *)
(* runs: what is on disk after any interleaving of writes, crashes and     *)
(* torn lines, and what list_recent makes of it.                           *)
(***************************************************************************)
EXTENDS SessionStore, FiniteSetTheorems, TLAPS

-----------------------------------------------------------------------------
(* The inductive invariant. *)

Pieces == {Tab, Newline} \cup [run: Nat \ {0}, field: 1 .. Fields]

\* Whatever console wrote them, the pieces of the index are of these kinds;
\* and no two consoles record the same run.
TypeOK ==
  /\ pc \in [Consoles -> {"menu", "create", "write", "open", "append"}]
  /\ run \in [Consoles -> 0 .. Len(runs)]
  /\ pieces \in [Consoles -> 0 .. 2 * Fields]
  /\ runs \in Seq([id: Times, slug: Slugs])
  /\ index \in Seq(Pieces)
  /\ acked \subseteq DOMAIN runs /\ torn \subseteq DOMAIN runs
  /\ overlaid \subseteq DOMAIN runs

\* A console that records has a run of its own, and a line left to finish.
ConsoleInv ==
  /\ \A c \in Consoles : pc[c] # "menu" => run[c] # 0
  /\ \A c, d \in Consoles : c # d /\ run[c] = run[d] => run[c] = 0
  /\ \A c \in Consoles : pc[c] = "append" => pieces[c] < 2 * Fields
  /\ \A c \in Consoles : pc[c] \in {"create", "write", "open"} => pieces[c] = 0

\* A piece in the index was appended by a console past OpenIndex.
IndexInv ==
  /\ \A p \in DOMAIN index : index[p].run <= Len(runs)
  /\ \A c \in Consoles :
       pc[c] # "menu" /\ pieces[c] = 0 =>
         \A p \in DOMAIN index : index[p].run # run[c]

HasTwin(r) == \E other \in DOMAIN runs \ {r} : runs[other] = runs[r]

\* A run's file holds its report, or its name is another run's too.
Kept(r) ==
  /\ FileName(r) \in DOMAIN files
  /\ files[FileName(r)] = r \/ HasTwin(r)

\* The file a console is about to write was made or cut to nothing.
Made(r) ==
  /\ FileName(r) \in DOMAIN files
  /\ files[FileName(r)] = Empty \/ HasTwin(r)

\* A run whose file has been written: its console has come to the index.
Reached(r) ==
  \/ \E c \in Consoles : run[c] = r /\ pc[c] \in {"open", "append"}
  \/ \E p \in DOMAIN index : index[p].run = r

FileInv ==
  \A r \in DOMAIN runs :
    /\ (\E c \in Consoles : run[c] = r /\ pc[c] = "write") => Made(r)
    /\ Reached(r) => Kept(r)

\* No newline at or after p and before q.
SameLine(p, q) == \A i \in p .. q - 1 : index[i] # Newline

InLastLine(p) == \A i \in p .. Len(index) : index[i] # Newline

\* A run whose line is being written, or was torn or overlaid.
Unsettled(r) ==
  r \in torn \cup overlaid \/ \E c \in Consoles : Underway(c) /\ run[c] = r

\* A run whose field stands in the unfinished last line is unsettled; the
\* first of two runs that meet on a line was torn or overlaid.
MixInv ==
  /\ \A p \in DOMAIN index :
       index[p].run # 0 /\ InLastLine(p) => Unsettled(index[p].run)
  /\ \A p, q \in DOMAIN index :
       /\ p < q /\ SameLine(p, q)
       /\ index[p].run # 0 /\ index[q].run # 0 /\ index[p].run # index[q].run
       => index[p].run \in torn \cup overlaid

\* Where the pieces of a run's line stand, if nothing was written in between.
LineAt(r, n, s) ==
  /\ s >= 1 /\ s + n - 1 <= Len(index)
  /\ \A k \in 1 .. n : index[s + k - 1] = Piece(r, k)

WholeLine(r, s) == LineAt(r, 2 * Fields, s)

\* A line that was not overlaid is in one piece: as far as it has come, at the
\* end of the index; and all of it, once it was acknowledged.
LineInv ==
  /\ \A c \in Consoles :
       Underway(c) /\ run[c] \notin overlaid =>
         LineAt(run[c], pieces[c], Len(index) + 1 - pieces[c])
  /\ \A r \in acked \ overlaid : \E s \in DOMAIN index : WholeLine(r, s)

\* Runs whose line follows what a torn line left.
Spoiled ==
  {r \in DOMAIN runs \ overlaid :
     \E p \in DOMAIN index :
       p > 1 /\ index[p] = Piece(r, 1) /\ index[p - 1] # Newline}

\* The last line was left unfinished and nobody has written on since.
Remnant ==
  /\ Len(index) > 0 /\ index[Len(index)] # Newline
  /\ \A c \in Consoles : ~ Underway(c)

\* A torn line spoils at most one other: the remnant it leaves is used up by
\* the next line.
SpoilInv ==
  /\ \A c \in Consoles : pc[c] # "menu" => run[c] \notin torn
  /\ Cardinality(Spoiled) + (IF Remnant THEN 1 ELSE 0) <= Cardinality(torn)

Inv ==
  TypeOK /\ ConsoleInv /\ IndexInv /\ FileInv /\ MixInv /\ LineInv /\ SpoilInv

-----------------------------------------------------------------------------
(* The pieces of a line. *)

\* A line alternates fields and tabs and ends in its only newline.
LEMMA PieceKinds ==
  ASSUME NEW r \in Nat \ {0}
  PROVE  /\ \A j \in 1 .. Fields : Piece(r, 2 * j - 1) = [run |-> r, field |-> j]
         /\ \A j \in 1 .. Fields - 1 : Piece(r, 2 * j) = Tab
         /\ Piece(r, 2 * Fields) = Newline
         /\ \A k \in 1 .. 2 * Fields :
              \/ k = 2 * Fields
              \/ \E j \in 1 .. Fields : k = 2 * j - 1
              \/ \E j \in 1 .. Fields - 1 : k = 2 * j
<1>0. Fields \in Nat \ {0, 1}
  BY SessionAssumption
<1>1. ASSUME NEW j \in 1 .. Fields
      PROVE  Piece(r, 2 * j - 1) = [run |-> r, field |-> j]
  <2>1. 2 * j - 1 # 2 * Fields /\ (2 * j - 1) % 2 # 0 /\ (2 * j - 1 + 1) \div 2 = j
    BY <1>0
  <2> QED
    BY <2>1 DEF Piece
<1>2. ASSUME NEW j \in 1 .. Fields - 1
      PROVE  Piece(r, 2 * j) = Tab
  <2>1. 2 * j # 2 * Fields /\ (2 * j) % 2 = 0
    BY <1>0
  <2> QED
    BY <2>1 DEF Piece
<1>3. Piece(r, 2 * Fields) = Newline
  BY DEF Piece
<1>4. ASSUME NEW k \in 1 .. 2 * Fields
      PROVE  \/ k = 2 * Fields
             \/ \E j \in 1 .. Fields : k = 2 * j - 1
             \/ \E j \in 1 .. Fields - 1 : k = 2 * j
  <2> DEFINE j == (k + 1) \div 2
  <2>1. j \in 1 .. Fields /\ (k = 2 * j - 1 \/ k = 2 * j)
    BY <1>0
  <2> HIDE DEF j
  <2>2. j # Fields => j \in 1 .. Fields - 1
    BY <1>0, <2>1
  <2> QED
    BY <1>0, <2>1, <2>2
<1> QED
  BY <1>1, <1>2, <1>3, <1>4

LEMMA PieceType ==
  ASSUME NEW r \in Nat \ {0}, NEW k \in 1 .. 2 * Fields
  PROVE  /\ Piece(r, k) \in Pieces /\ Piece(r, k).run \in {0, r}
         /\ Piece(r, k) = Newline <=> k = 2 * Fields
         /\ Piece(r, 1) = [run |-> r, field |-> 1]
<1>0. Fields \in Nat \ {0, 1}
  BY SessionAssumption
<1>1. Tab \in Pieces /\ Newline \in Pieces /\ Tab.run = 0 /\ Newline.run = 0
      /\ Tab # Newline
  BY DEF Tab, Newline, Pieces
<1>2. \A j \in 1 .. Fields : /\ [run |-> r, field |-> j] \in Pieces
                             /\ [run |-> r, field |-> j] # Newline
                             /\ [run |-> r, field |-> j].run = r
  BY DEF Pieces, Newline
<1>3. Piece(r, 1) = [run |-> r, field |-> 1]
  <2>1. 1 \in 1 .. Fields /\ 2 * 1 - 1 = 1
    BY <1>0
  <2> QED
    BY <2>1, PieceKinds
<1>4. CASE k = 2 * Fields
  BY <1>1, <1>3, <1>4, PieceKinds
<1>5. ASSUME NEW j \in 1 .. Fields, k = 2 * j - 1
      PROVE  Piece(r, k) = [run |-> r, field |-> j] /\ k # 2 * Fields
  BY <1>0, <1>5, PieceKinds
<1>6. ASSUME NEW j \in 1 .. Fields - 1, k = 2 * j
      PROVE  Piece(r, k) = Tab /\ k # 2 * Fields
  BY <1>0, <1>6, PieceKinds
<1> QED
  BY <1>1, <1>2, <1>3, <1>4, <1>5, <1>6, PieceKinds

-----------------------------------------------------------------------------
(* Types, and who records what. *)

\* AppendPiece adds one piece of the console's own line.
LEMMA AppendEffect ==
  ASSUME TypeOK, ConsoleInv, NEW c \in Consoles, AppendPiece(c)
  PROVE  /\ pieces[c] \in Nat /\ pieces[c] + 1 \in 1 .. 2 * Fields
         /\ run[c] \in Nat \ {0} /\ run[c] \in DOMAIN runs
         /\ Piece(run[c], pieces[c] + 1) \in Pieces
         /\ Piece(run[c], pieces[c] + 1).run \in {0, run[c]}
         /\ Piece(run[c], pieces[c] + 1) = Newline
              <=> pieces[c] + 1 = 2 * Fields
         /\ Len(index) \in Nat /\ Len(index') = Len(index) + 1
         /\ DOMAIN index = 1 .. Len(index)
         /\ DOMAIN index' = 1 .. Len(index) + 1
         /\ \A p \in 1 .. Len(index) : index'[p] = index[p]
         /\ index'[Len(index) + 1] = Piece(run[c], pieces[c] + 1)
         /\ index' \in Seq(Pieces)
         /\ UNCHANGED <<run, runs, files, torn>>
         /\ pieces' = [pieces EXCEPT ![c] = pieces[c] + 1]
         /\ pc[c] = "append"
         /\ \/ /\ pieces[c] + 1 = 2 * Fields
               /\ pc' = [pc EXCEPT ![c] = "menu"]
               /\ acked' = acked \cup {run[c]}
            \/ pieces[c] + 1 # 2 * Fields /\ UNCHANGED <<pc, acked>>
         /\ overlaid \subseteq overlaid' /\ overlaid' \subseteq DOMAIN runs
         /\ \A d \in Consoles \ {c} : Underway(d) => {run[c], run[d]} \subseteq overlaid'
         /\ (\A d \in Consoles \ {c} : ~ Underway(d)) => overlaid' = overlaid
<1>1. /\ pc[c] = "append" /\ UNCHANGED <<run, runs, files, torn>>
      /\ index' = Append(index, Piece(run[c], pieces[c] + 1))
      /\ pieces' = [pieces EXCEPT ![c] = pieces[c] + 1]
  BY DEF AppendPiece
<1>2. Fields \in Nat
  BY SessionAssumption
<1>3. /\ pieces[c] \in Nat /\ pieces[c] + 1 \in 1 .. 2 * Fields
      /\ run[c] \in Nat \ {0} /\ run[c] \in DOMAIN runs
  BY <1>1, <1>2 DEF TypeOK, ConsoleInv
<1>4. /\ Piece(run[c], pieces[c] + 1) \in Pieces
      /\ Piece(run[c], pieces[c] + 1).run \in {0, run[c]}
      /\ Piece(run[c], pieces[c] + 1) = Newline <=> pieces[c] + 1 = 2 * Fields
  BY <1>3, PieceType
<1>5. \/ /\ pieces[c] + 1 = 2 * Fields
         /\ pc' = [pc EXCEPT ![c] = "menu"]
         /\ acked' = acked \cup {run[c]}
      \/ pieces[c] + 1 # 2 * Fields /\ UNCHANGED <<pc, acked>>
  BY DEF AppendPiece, Goto
<1> DEFINE others == {d \in Consoles \ {c} : Underway(d)}
<1>6. overlaid' = overlaid \cup {run[d] : d \in others}
                    \cup (IF others = {} THEN {} ELSE {run[c]})
  BY DEF AppendPiece
<1>7. \A d \in others : run[d] \in DOMAIN runs
  BY DEF Underway, TypeOK, ConsoleInv
<1>8. /\ overlaid \subseteq overlaid' /\ overlaid' \subseteq DOMAIN runs
      /\ \A d \in others : {run[c], run[d]} \subseteq overlaid'
      /\ others = {} => overlaid' = overlaid
  BY <1>3, <1>6, <1>7 DEF TypeOK
<1>9. index' \in Seq(Pieces)
  BY <1>1, <1>4 DEF TypeOK
<1> QED
  BY <1>1, <1>3, <1>4, <1>5, <1>8, <1>9 DEF TypeOK

\* Types, and the place each console is at, are kept.
LEMMA TypeStep ==
  ASSUME TypeOK, ConsoleInv, [Next]_vars
  PROVE  TypeOK' /\ ConsoleInv'
<1>0. Fields \in Nat \ {0, 1}
  BY SessionAssumption
<1>1. ASSUME NEW c \in Consoles, NEW time \in Times, NEW slug \in Slugs,
             Begin(c, time, slug)
      PROVE  TypeOK' /\ ConsoleInv'
  <2>1. /\ Len(runs) \in Nat /\ Len(runs') = Len(runs) + 1
        /\ runs' \in Seq([id: Times, slug: Slugs])
        /\ DOMAIN runs \subseteq DOMAIN runs'
    BY <1>1 DEF Begin, TypeOK
  <2>2. TypeOK'
    BY <1>0, <1>1, <2>1 DEF Begin, Goto, history, TypeOK
  <2>3. ConsoleInv'
    BY <1>0, <1>1, <2>1 DEF Begin, Goto, TypeOK, ConsoleInv
  <2> QED
    BY <2>2, <2>3
<1>2. ASSUME NEW c \in Consoles,
             CreateFile(c) \/ WriteFile(c) \/ WriteFileFails(c) \/ OpenIndex(c)
      PROVE  TypeOK' /\ ConsoleInv'
  <2>1. /\ UNCHANGED <<run, pieces, runs, index, acked, torn, overlaid>>
        /\ \/ pc[c] = "create" /\ pc' = [pc EXCEPT ![c] = "write"]
           \/ pc[c] = "write" /\ pc' = [pc EXCEPT ![c] = "open"]
           \/ pc[c] = "write" /\ pc' = [pc EXCEPT ![c] = "menu"]
           \/ pc[c] = "open" /\ pc' = [pc EXCEPT ![c] = "append"]
    BY <1>2 DEF CreateFile, WriteFile, WriteFileFails, OpenIndex, Goto, history
  <2> QED
    BY <1>0, <2>1 DEF TypeOK, ConsoleInv
<1>3. ASSUME NEW c \in Consoles, AppendPiece(c)
      PROVE  TypeOK' /\ ConsoleInv'
  <2>1. /\ pieces[c] + 1 \in 1 .. 2 * Fields /\ run[c] \in DOMAIN runs
        /\ UNCHANGED <<run, runs, torn>> /\ index' \in Seq(Pieces)
        /\ pieces' = [pieces EXCEPT ![c] = pieces[c] + 1]
        /\ pc[c] = "append" /\ overlaid' \subseteq DOMAIN runs
        /\ \/ /\ pieces[c] + 1 = 2 * Fields
              /\ pc' = [pc EXCEPT ![c] = "menu"]
              /\ acked' = acked \cup {run[c]}
           \/ pieces[c] + 1 # 2 * Fields /\ UNCHANGED <<pc, acked>>
    BY <1>3, AppendEffect
  <2>2. TypeOK'
    BY <1>0, <2>1 DEF TypeOK
  <2>3. /\ \A d \in Consoles : pc'[d] # "menu" => pc'[d] = pc[d]
        /\ \A d \in Consoles \ {c} : pieces'[d] = pieces[d]
        /\ pieces'[c] = pieces[c] + 1
        /\ pc'[c] = "append" => pieces[c] + 1 < 2 * Fields
    <3>1. /\ \A d \in Consoles \ {c} : pieces'[d] = pieces[d]
          /\ pieces'[c] = pieces[c] + 1
      BY <2>1 DEF TypeOK
    <3>2. CASE pieces[c] + 1 = 2 * Fields
      BY <2>1, <3>1, <3>2 DEF TypeOK
    <3>3. CASE pieces[c] + 1 # 2 * Fields
      <4>1. pieces[c] + 1 < 2 * Fields
        BY <1>0, <2>1, <3>3
      <4> QED
        BY <2>1, <3>1, <3>3, <4>1 DEF TypeOK
    <3> QED
      BY <3>2, <3>3
  <2>4. ConsoleInv'
    BY <2>1, <2>3 DEF ConsoleInv
  <2> QED
    BY <2>2, <2>4
<1>4. ASSUME NEW c \in Consoles, Abandon(c)
      PROVE  TypeOK' /\ ConsoleInv'
  <2>1. pc[c] # "menu" => run[c] \in DOMAIN runs
    BY DEF TypeOK, ConsoleInv
  <2> QED
    BY <1>4, <2>1 DEF Abandon, Goto, TypeOK, ConsoleInv
<1>5. CASE UNCHANGED vars
  BY <1>5 DEF vars, TypeOK, ConsoleInv
<1> QED
  BY <1>1, <1>2, <1>3, <1>4, <1>5 DEF Next, Record

-----------------------------------------------------------------------------
(* The index and the files it names. *)

\* What a step of a console that writes no index piece may change.
Quiet(c) ==
  /\ UNCHANGED <<run, pieces, runs, index, acked, overlaid>>
  /\ pc[c] # "menu" /\ \E where \in {"menu", "write", "open", "append"} :
                         pc' = [pc EXCEPT ![c] = where]

\* The steps that touch no line of the index.
LEMMA QuietSteps ==
  ASSUME NEW c \in Consoles,
         CreateFile(c) \/ WriteFile(c) \/ WriteFileFails(c) \/ OpenIndex(c) \/ Abandon(c)
  PROVE  Quiet(c)
BY DEF CreateFile, WriteFile, WriteFileFails, OpenIndex, Abandon, Goto, Quiet, history

\* Begin takes a run number nobody has.
LEMMA BeginEffect ==
  ASSUME TypeOK, NEW c \in Consoles, NEW time \in Times, NEW slug \in Slugs,
         Begin(c, time, slug)
  PROVE  /\ pc[c] = "menu" /\ pc' = [pc EXCEPT ![c] = "create"]
         /\ pieces' = [pieces EXCEPT ![c] = 0]
         /\ run' = [run EXCEPT ![c] = Len(runs) + 1]
         /\ Len(runs) \in Nat /\ Len(runs') = Len(runs) + 1
         /\ DOMAIN runs = 1 .. Len(runs) /\ DOMAIN runs' = 1 .. Len(runs) + 1
         /\ \A r \in DOMAIN runs : runs'[r] = runs[r]
         /\ UNCHANGED <<files, index, acked, torn, overlaid>>
BY DEF Begin, Goto, history, TypeOK

\* What the pieces of the index say of their consoles is kept.
LEMMA IndexStep ==
  ASSUME TypeOK, ConsoleInv, IndexInv, [Next]_vars
  PROVE  IndexInv'
<1>0. \A p \in DOMAIN index : index[p].run \in Nat
  BY DEF TypeOK, Pieces, Tab, Newline
<1>1. ASSUME NEW c \in Consoles, NEW time \in Times, NEW slug \in Slugs,
             Begin(c, time, slug)
      PROVE  IndexInv'
  <2>1. /\ pc' = [pc EXCEPT ![c] = "create"]
        /\ pieces' = [pieces EXCEPT ![c] = 0]
        /\ run' = [run EXCEPT ![c] = Len(runs) + 1]
        /\ Len(runs) \in Nat /\ Len(runs') = Len(runs) + 1
        /\ index' = index
    BY <1>1, BeginEffect
  <2> QED
    BY <1>0, <2>1 DEF TypeOK, IndexInv
<1>2. ASSUME NEW c \in Consoles, Quiet(c)
      PROVE  IndexInv'
  BY <1>2 DEF Quiet, TypeOK, IndexInv
<1>3. ASSUME NEW c \in Consoles, AppendPiece(c)
      PROVE  IndexInv'
  <2>1. /\ pieces[c] \in Nat /\ run[c] \in DOMAIN runs
        /\ Piece(run[c], pieces[c] + 1).run \in {0, run[c]}
        /\ DOMAIN index = 1 .. Len(index) /\ Len(index) \in Nat
        /\ DOMAIN index' = 1 .. Len(index) + 1
        /\ \A p \in 1 .. Len(index) : index'[p] = index[p]
        /\ index'[Len(index) + 1] = Piece(run[c], pieces[c] + 1)
        /\ UNCHANGED <<run, runs>>
        /\ pieces' = [pieces EXCEPT ![c] = pieces[c] + 1]
        /\ pc' = [pc EXCEPT ![c] = "menu"] \/ pc' = pc
    BY <1>3, AppendEffect
  <2>2. run[c] <= Len(runs) /\ run[c] \in Nat /\ 0 <= Len(runs)
    BY <2>1 DEF TypeOK
  <2>3. ASSUME NEW d \in Consoles, pc'[d] # "menu", pieces'[d] = 0
        PROVE  d # c /\ pc[d] # "menu" /\ pieces[d] = 0 /\ run[d] \notin {0, run[c]}
    <3>1. d # c
      BY <2>1, <2>3 DEF TypeOK
    <3>2. pc[d] # "menu" /\ pieces[d] = 0
      BY <2>1, <2>3, <3>1 DEF TypeOK
    <3> QED
      BY <3>1, <3>2 DEF ConsoleInv
  <2>4. \A p \in DOMAIN index' : index'[p].run <= Len(runs')
    BY <2>1, <2>2 DEF IndexInv
  <2>5. ASSUME NEW d \in Consoles, pc'[d] # "menu", pieces'[d] = 0,
               NEW p \in DOMAIN index'
        PROVE  index'[p].run # run'[d]
    BY <2>1, <2>3, <2>5 DEF IndexInv
  <2> QED
    BY <2>4, <2>5 DEF IndexInv
<1>4. CASE UNCHANGED vars
  BY <1>4 DEF vars, IndexInv
<1> QED
  BY <1>1, <1>2, <1>3, <1>4, QuietSteps DEF Next, Record

LEMMA RunRecord ==
  ASSUME TypeOK, NEW r \in DOMAIN runs
  PROVE  runs[r] = [id |-> runs[r].id, slug |-> runs[r].slug]
<1> DEFINE S == [id: Times, slug: Slugs]
<1>1. runs \in Seq(S)
  BY DEF TypeOK
<1> HIDE DEF S
<1>2. runs[r] \in S
  BY <1>1
<1> QED
  BY <1>2 DEF S

\* Writing one run's file leaves another's as it is, unless the two share it.
LEMMA PutOther ==
  ASSUME TypeOK, NEW x \in DOMAIN runs, NEW r \in DOMAIN runs, x # r,
         NEW content, Put(FileName(x), content), runs' = runs
  PROVE  (Kept(r) => Kept(r)') /\ (Made(r) => Made(r)')
<1>1. FileName(r)' = FileName(r) /\ HasTwin(r)' = HasTwin(r)
  BY DEF FileName, HasTwin
<1>2. FileName(x) = FileName(r) => runs[x] = runs[r]
  BY RunRecord DEF FileName
<1>3. FileName(x) = FileName(r) => HasTwin(r)
  BY <1>2 DEF HasTwin
<1> QED
  BY <1>1, <1>3 DEF Kept, Made, Put

\* A step that leaves the files alone leaves what they hold for a run.
LEMMA FilesSame ==
  ASSUME files' = files, NEW r \in DOMAIN runs, DOMAIN runs \subseteq DOMAIN runs',
         \A x \in DOMAIN runs : runs'[x] = runs[x]
  PROVE  (Kept(r) => Kept(r)') /\ (Made(r) => Made(r)')
<1>1. FileName(r)' = FileName(r) /\ (HasTwin(r) => HasTwin(r)')
  BY DEF FileName, HasTwin
<1> QED
  BY <1>1 DEF Kept, Made

\* The report files of listed runs are kept.
LEMMA FileStep ==
  ASSUME TypeOK, ConsoleInv, IndexInv, FileInv, [Next]_vars
  PROVE  FileInv'
<1>1. ASSUME NEW c \in Consoles, NEW time \in Times, NEW slug \in Slugs,
             Begin(c, time, slug)
      PROVE  FileInv'
  <2>1. /\ pc' = [pc EXCEPT ![c] = "create"]
        /\ run' = [run EXCEPT ![c] = Len(runs) + 1]
        /\ Len(runs) \in Nat
        /\ DOMAIN runs = 1 .. Len(runs) /\ DOMAIN runs' = 1 .. Len(runs) + 1
        /\ \A r \in DOMAIN runs : runs'[r] = runs[r]
        /\ UNCHANGED <<files, index>>
    BY <1>1, BeginEffect
  <2>2. \A r \in DOMAIN runs : (Kept(r) => Kept(r)') /\ (Made(r) => Made(r)')
    BY <2>1, FilesSame
  <2>3. \A d \in Consoles : pc'[d] # "create" =>
          pc'[d] = pc[d] /\ run'[d] = run[d] /\ run[d] <= Len(runs)
    BY <2>1 DEF TypeOK
  <2>4. \A r : Reached(r)' => Reached(r) /\ r # Len(runs) + 1
    BY <2>1, <2>3 DEF Reached, IndexInv
  <2>5. \A r : (\E d \in Consoles : run'[d] = r /\ pc'[d] = "write") =>
          (\E d \in Consoles : run[d] = r /\ pc[d] = "write") /\ r # Len(runs) + 1
    BY <2>1, <2>3
  <2>6. ASSUME NEW r \in DOMAIN runs'
        PROVE  /\ (\E d \in Consoles : run'[d] = r /\ pc'[d] = "write") => Made(r)'
               /\ Reached(r)' => Kept(r)'
    <3>1. CASE r \in DOMAIN runs
      BY <2>2, <2>4, <2>5, <3>1 DEF FileInv
    <3>2. CASE r = Len(runs) + 1
      BY <2>4, <2>5, <3>2
    <3> QED
      BY <2>1, <3>1, <3>2
  <2> QED
    BY <2>6 DEF FileInv
<1>2. ASSUME NEW c \in Consoles,
             CreateFile(c) \/ WriteFile(c) \/ WriteFileFails(c)
      PROVE  FileInv'
  <2> DEFINE name == FileName(run[c])
  <2>1. /\ UNCHANGED <<run, runs, index>> /\ pc[c] \in {"create", "write"}
        /\ \/ /\ Put(name, Empty) /\ pc' = [pc EXCEPT ![c] = "write"]
           \/ /\ \/ Put(name, run[c])
                 \/ pc[c] = "write" /\ files[name] # Empty /\ Put(name, Mixed)
              /\ pc' = [pc EXCEPT ![c] = "open"]
           \/ /\ Put(name, Partial) /\ pc' = [pc EXCEPT ![c] = "menu"]
    BY <1>2 DEF CreateFile, WriteFile, WriteFileFails, Goto
  <2>2. PICK content : Put(name, content)
    BY <2>1
  <2>3. run[c] \in DOMAIN runs
    BY <2>1 DEF TypeOK, ConsoleInv
  <2>4. \A r \in DOMAIN runs : r # run[c] =>
          (Kept(r) => Kept(r)') /\ (Made(r) => Made(r)')
    BY <2>1, <2>2, <2>3, PutOther
  <2>5. \A d \in Consoles : d # c => pc'[d] = pc[d]
    BY <2>1 DEF TypeOK
  <2>6. \A r \in DOMAIN runs : r # run[c] => (Reached(r)' => Reached(r))
    BY <2>1, <2>5 DEF Reached
  <2>7. /\ \A p \in DOMAIN index : index[p].run # run[c]
        /\ \A d \in Consoles : run[d] = run[c] => d = c
    BY <2>1, <2>3 DEF IndexInv, ConsoleInv, TypeOK
  <2>8. /\ FileName(run[c]) = name /\ \A r : FileName(r)' = FileName(r)
        /\ \A r : HasTwin(r)' = HasTwin(r)
    BY <2>1 DEF FileName, HasTwin
  <2>9. ASSUME NEW r, r = run[c]
        PROVE  /\ pc'[c] = "write" => Made(r)'
               /\ pc'[c] # "append"
               /\ pc'[c] = "open" => Kept(r)'
    <3>1. CASE Put(name, Empty) /\ pc' = [pc EXCEPT ![c] = "write"]
      BY <2>8, <2>9, <3>1 DEF Put, TypeOK, Made
    <3>2. CASE Put(name, run[c]) /\ pc' = [pc EXCEPT ![c] = "open"]
      BY <2>8, <2>9, <3>2 DEF Put, TypeOK, Kept
    <3>3. CASE /\ pc[c] = "write" /\ files[name] # Empty /\ Put(name, Mixed)
               /\ pc' = [pc EXCEPT ![c] = "open"]
      <4>1. HasTwin(r)
        BY <2>3, <2>9, <3>3 DEF FileInv, Made
      <4> QED
        BY <2>8, <2>9, <3>3, <4>1 DEF Put, TypeOK, Kept
    <3>4. CASE pc' = [pc EXCEPT ![c] = "menu"]
      BY <3>4 DEF TypeOK
    <3> QED
      BY <2>1, <3>1, <3>2, <3>3, <3>4
  <2>10. ASSUME NEW r \in DOMAIN runs, r # run[c]
         PROVE  /\ (\E d \in Consoles : run'[d] = r /\ pc'[d] = "write") => Made(r)'
                /\ Reached(r)' => Kept(r)'
    BY <2>1, <2>4, <2>5, <2>6, <2>10 DEF FileInv
  <2>11. ASSUME NEW r \in DOMAIN runs, r = run[c]
         PROVE  /\ (\E d \in Consoles : run'[d] = r /\ pc'[d] = "write") => Made(r)'
                /\ Reached(r)' => Kept(r)'
    BY <2>1, <2>7, <2>9, <2>11 DEF Reached
  <2> QED
    BY <2>1, <2>10, <2>11 DEF FileInv
<1>3. ASSUME NEW c \in Consoles, OpenIndex(c) \/ Abandon(c)
      PROVE  FileInv'
  <2>1. /\ UNCHANGED <<run, runs, files, index>>
        /\ \/ pc[c] = "open" /\ pc' = [pc EXCEPT ![c] = "append"]
           \/ pc' = [pc EXCEPT ![c] = "menu"]
    BY <1>3 DEF OpenIndex, Abandon, Goto
  <2>2. \A r \in DOMAIN runs : (Kept(r) => Kept(r)') /\ (Made(r) => Made(r)')
    BY <2>1, FilesSame
  <2>3. \A r : /\ Reached(r)' => Reached(r)
               /\ (\E d \in Consoles : run'[d] = r /\ pc'[d] = "write") =>
                    \E d \in Consoles : run[d] = r /\ pc[d] = "write"
    BY <2>1 DEF Reached, TypeOK
  <2> QED
    BY <2>1, <2>2, <2>3 DEF FileInv
<1>4. ASSUME NEW c \in Consoles, AppendPiece(c)
      PROVE  FileInv'
  <2>1. /\ Piece(run[c], pieces[c] + 1).run \in {0, run[c]}
        /\ DOMAIN index = 1 .. Len(index) /\ Len(index) \in Nat
        /\ DOMAIN index' = 1 .. Len(index) + 1
        /\ \A p \in 1 .. Len(index) : index'[p] = index[p]
        /\ index'[Len(index) + 1] = Piece(run[c], pieces[c] + 1)
        /\ UNCHANGED <<run, runs, files>> /\ pc[c] = "append"
        /\ pc' = [pc EXCEPT ![c] = "menu"] \/ pc' = pc
    BY <1>4, AppendEffect
  <2>2. \A r \in DOMAIN runs : (Kept(r) => Kept(r)') /\ (Made(r) => Made(r)')
    BY <2>1, FilesSame
  <2>3. \A d \in Consoles : pc'[d] # "menu" => pc'[d] = pc[d]
    BY <2>1 DEF TypeOK
  <2>4. \A r \in DOMAIN runs : Reached(r)' => Reached(r)
    <3>1. \A r \in DOMAIN runs : r # 0
      BY DEF TypeOK
    <3> QED
      BY <2>1, <2>3, <3>1 DEF Reached
  <2> QED
    BY <2>1, <2>2, <2>3, <2>4 DEF FileInv
<1>5. CASE UNCHANGED vars
  <2>1. \A r \in DOMAIN runs : (Kept(r) => Kept(r)') /\ (Made(r) => Made(r)')
    BY <1>5, FilesSame DEF vars
  <2>2. \A r : Reached(r)' => Reached(r)
    BY <1>5 DEF vars, Reached
  <2> QED
    BY <1>5, <2>1, <2>2 DEF vars, FileInv
<1> QED
  BY <1>1, <1>2, <1>3, <1>4, <1>5 DEF Next, Record

-----------------------------------------------------------------------------
(* Runs that meet on a line. *)

\* Only a newline settles a line: until then its run is Underway, or Abandon
\* has put it in torn.
LEMMA UnsettledStays ==
  ASSUME TypeOK, ConsoleInv, [Next]_vars, NEW r, Unsettled(r)
  PROVE  \/ Unsettled(r)'
         \/ \E c \in Consoles : AppendPiece(c) /\ pieces[c] + 1 = 2 * Fields
<1>1. ASSUME NEW c \in Consoles, NEW time \in Times, NEW slug \in Slugs,
             Begin(c, time, slug)
      PROVE  Unsettled(r)'
  <2>1. /\ pc[c] = "menu" /\ pc' = [pc EXCEPT ![c] = "create"]
        /\ pieces' = [pieces EXCEPT ![c] = 0]
        /\ run' = [run EXCEPT ![c] = Len(runs) + 1]
        /\ UNCHANGED <<torn, overlaid>>
    BY <1>1, BeginEffect
  <2> QED
    BY <2>1 DEF Unsettled, Underway, TypeOK
<1>2. ASSUME NEW c \in Consoles,
             CreateFile(c) \/ WriteFile(c) \/ WriteFileFails(c) \/ OpenIndex(c)
      PROVE  Unsettled(r)'
  <2>1. /\ UNCHANGED <<run, pieces, torn, overlaid>> /\ pc[c] # "append"
        /\ \E where : pc' = [pc EXCEPT ![c] = where]
    BY <1>2 DEF CreateFile, WriteFile, WriteFileFails, OpenIndex, Goto, history
  <2> QED
    BY <2>1 DEF Unsettled, Underway, TypeOK
<1>3. ASSUME NEW c \in Consoles, AppendPiece(c), pieces[c] + 1 # 2 * Fields
      PROVE  Unsettled(r)'
  <2>1. /\ pieces[c] \in Nat /\ pieces' = [pieces EXCEPT ![c] = pieces[c] + 1]
        /\ UNCHANGED <<pc, run, torn>> /\ overlaid \subseteq overlaid'
    BY <1>3, AppendEffect
  <2> QED
    BY <2>1 DEF Unsettled, Underway, TypeOK
<1>4. ASSUME NEW c \in Consoles, Abandon(c)
      PROVE  Unsettled(r)'
  <2>1. /\ UNCHANGED <<run, pieces, overlaid>>
        /\ pc' = [pc EXCEPT ![c] = "menu"]
        /\ torn' = IF Underway(c) THEN torn \cup {run[c]} ELSE torn
    BY <1>4 DEF Abandon, Goto
  <2> QED
    BY <2>1 DEF Unsettled, Underway, TypeOK
<1>5. CASE UNCHANGED vars
  BY <1>5 DEF vars, Unsettled, Underway
<1> QED
  BY <1>1, <1>2, <1>3, <1>4, <1>5 DEF Next, Record

\* The two parts of MixInv when the index stays as it is.
LEMMA MixSameIndex ==
  ASSUME MixInv, index' = index, torn \subseteq torn', overlaid \subseteq overlaid',
         \A r : Unsettled(r) => Unsettled(r)'
  PROVE  MixInv'
<1>1. ASSUME NEW p \in DOMAIN index', index'[p].run # 0, InLastLine(p)'
      PROVE  \A r : r = index'[p].run => Unsettled(r)'
  BY <1>1 DEF MixInv, InLastLine
<1>2. ASSUME NEW p \in DOMAIN index', NEW q \in DOMAIN index',
             p < q, SameLine(p, q)', index'[p].run # 0, index'[q].run # 0,
             index'[p].run # index'[q].run
      PROVE  index'[p].run \in (torn \cup overlaid)'
  BY <1>2 DEF MixInv, SameLine
<1> QED
  BY <1>1, <1>2 DEF MixInv

\* Two runs on one line are still the work of a torn or overlaid one.
LEMMA MixStep ==
  ASSUME TypeOK, ConsoleInv, MixInv, [Next]_vars
  PROVE  MixInv'
<1>1. ASSUME NEW c \in Consoles, AppendPiece(c)
      PROVE  MixInv'
  <2> DEFINE n == Len(index) + 1
  <2>1. /\ pieces[c] \in Nat /\ run[c] \in Nat \ {0}
        /\ Piece(run[c], pieces[c] + 1).run \in {0, run[c]}
        /\ Piece(run[c], pieces[c] + 1) = Newline <=> pieces[c] + 1 = 2 * Fields
        /\ Len(index) \in Nat /\ Len(index') = n
        /\ DOMAIN index = 1 .. Len(index) /\ DOMAIN index' = 1 .. n
        /\ \A p \in 1 .. Len(index) : index'[p] = index[p]
        /\ index'[n] = Piece(run[c], pieces[c] + 1)
        /\ UNCHANGED <<run, torn>> /\ pc[c] = "append"
        /\ pieces' = [pieces EXCEPT ![c] = pieces[c] + 1]
        /\ pieces[c] + 1 # 2 * Fields => pc' = pc
        /\ overlaid \subseteq overlaid'
        /\ \A d \in Consoles \ {c} : Underway(d) => {run[c], run[d]} \subseteq overlaid'
    BY <1>1, AppendEffect
  <2>2. ASSUME NEW p \in 1 .. Len(index), index[p].run # 0, InLastLine(p)'
        PROVE  Unsettled(index[p].run) /\ pieces[c] + 1 # 2 * Fields
    <3>1. \A i \in p .. n : index'[i] # Newline
      BY <2>1, <2>2 DEF InLastLine
    <3>2. InLastLine(p)
      BY <2>1, <3>1 DEF InLastLine
    <3> QED
      BY <2>1, <2>2, <3>1, <3>2 DEF MixInv
  <2>3. ASSUME NEW p \in DOMAIN index', index'[p].run # 0, InLastLine(p)',
               NEW r, r = index'[p].run
        PROVE  Unsettled(r)'
    <3>1. CASE p \in 1 .. Len(index)
      <4>1. Unsettled(r) /\ pieces[c] + 1 # 2 * Fields
        BY <2>1, <2>2, <2>3, <3>1
      <4> QED
        BY <2>1, <4>1 DEF Unsettled, Underway, TypeOK
    <3>2. CASE p = n
      <4>1. r = run[c] /\ pieces[c] + 1 # 2 * Fields
        BY <2>1, <2>3, <3>2 DEF InLastLine
      <4>2. pc'[c] = "append" /\ pieces'[c] > 0 /\ run'[c] = r
        BY <2>1, <4>1 DEF TypeOK
      <4> QED
        BY <4>2 DEF Unsettled, Underway
    <3> QED
      BY <2>1, <3>1, <3>2
  <2>4. ASSUME NEW p \in DOMAIN index', NEW q \in DOMAIN index',
               p < q, SameLine(p, q)', index'[p].run # 0, index'[q].run # 0,
               index'[p].run # index'[q].run
        PROVE  index'[p].run \in torn' \cup overlaid'
    <3>1. p \in 1 .. Len(index) /\ index'[p] = index[p]
      BY <2>1, <2>4
    <3>2. CASE q \in 1 .. Len(index)
      <4>1. SameLine(p, q)
        BY <2>1, <2>4, <3>1, <3>2 DEF SameLine
      <4> QED
        BY <2>1, <2>4, <3>1, <3>2, <4>1 DEF MixInv
    <3>3. CASE q = n
      <4>1. InLastLine(p)
        BY <2>1, <2>4, <3>1, <3>3 DEF InLastLine, SameLine
      <4>2. Unsettled(index[p].run)
        BY <2>1, <2>4, <3>1, <4>1 DEF MixInv
      <4>3. index[p].run # run[c]
        BY <2>1, <2>4, <3>1, <3>3
      <4> QED
        BY <2>1, <3>1, <4>2, <4>3 DEF Unsettled
    <3> QED
      BY <2>1, <2>4, <3>2, <3>3
  <2> QED
    BY <2>3, <2>4 DEF MixInv
<1>2. ASSUME \A c \in Consoles : ~ AppendPiece(c)
      PROVE  MixInv'
  <2>1. \A r : Unsettled(r) => Unsettled(r)'
    BY <1>2, UnsettledStays
  <2>2. index' = index /\ torn \subseteq torn' /\ overlaid \subseteq overlaid'
    BY <1>2 DEF Next, Record, Begin, CreateFile, WriteFile, WriteFileFails,
                OpenIndex, Abandon, vars, history
  <2> QED
    BY <2>1, <2>2, MixSameIndex
<1> QED
  BY <1>1, <1>2

\* Two pieces with the same line number have no newline between them.
LEMMA SameLineOf ==
  ASSUME TypeOK, NEW p \in 1 .. Len(index) + 1, NEW q \in 1 .. Len(index) + 1, p <= q
  PROVE  /\ LineOf(p) \in Nat /\ LineOf(q) \in Nat /\ LineOf(p) <= LineOf(q)
         /\ LineOf(p) = LineOf(q) <=> SameLine(p, q)
<1> DEFINE P == {i \in 1 .. p - 1 : index[i] = Newline}
           Q == {i \in 1 .. q - 1 : index[i] = Newline}
<1>1. Len(index) \in Nat
  BY DEF TypeOK
<1>2. P \in SUBSET Q /\ Q \in SUBSET (1 .. q - 1)
  BY <1>1
<1>3. IsFiniteSet(Q)
  <2>1. IsFiniteSet(1 .. q - 1)
    BY <1>1, FS_Interval
  <2> QED
    BY <1>2, <2>1, FS_Subset
<1>4. /\ IsFiniteSet(P) /\ Cardinality(P) <= Cardinality(Q)
      /\ Cardinality(Q) = Cardinality(P) => Q = P
  BY <1>2, <1>3, FS_Subset
<1>5. Cardinality(P) \in Nat /\ Cardinality(Q) \in Nat
  BY <1>3, <1>4, FS_CardinalityType
<1>6. Q = P <=> SameLine(p, q)
  BY <1>1 DEF SameLine
<1>7. LineOf(p) = 1 + Cardinality(P) /\ LineOf(q) = 1 + Cardinality(Q)
  BY DEF LineOf
<1> HIDE DEF P, Q
<1> QED
  BY <1>4, <1>5, <1>6, <1>7

\* What a part of a line shows are fields of runs.
LEMMA PartsOfLine ==
  ASSUME TypeOK, NEW l, NEW k \in 1 .. Fields, NEW piece \in Part(l, k)
  PROVE  \E p \in DOMAIN index :
           /\ index[p] = piece /\ piece.run # 0 /\ LineOf(p) = l
           /\ p \in 1 .. Len(index) + 1
<1>1. PICK p \in DOMAIN index :
        LineOf(p) = l /\ index[p] \notin {Tab, Newline} /\ index[p] = piece
  BY DEF Part
<1>2. DOMAIN index = 1 .. Len(index) /\ Len(index) \in Nat /\ index[p] \in Pieces
  BY DEF TypeOK
<1>3. index[p].run # 0
  BY <1>1, <1>2 DEF Pieces
<1> QED
  BY <1>1, <1>2, <1>3

\* An entry shows one run, or a torn or overlaid one.
LEMMA EntriesUnmixed ==
  ASSUME TypeOK, MixInv
  PROVE  EntriesOfOneRun
<1> SUFFICES ASSUME NEW l \in Entries
             PROVE  LET shown == {piece.run : piece \in UNION {Part(l, k) : k \in 1 .. Fields}}
                    IN Cardinality(shown) = 1 \/ shown \cap (torn \cup overlaid) # {}
  BY DEF EntriesOfOneRun
<1> DEFINE parts == UNION {Part(l, k) : k \in 1 .. Fields}
           shown == {piece.run : piece \in parts}
<1>1. shown # {}
  <2>1. PICK k \in Numbers : k \in 1 .. Fields
    BY SessionAssumption
  <2>2. Part(l, k) # {}
    BY DEF Entries
  <2> QED
    BY <2>1, <2>2
<1>2. ASSUME NEW r1 \in shown, NEW r2 \in shown, r1 # r2
      PROVE  shown \cap (torn \cup overlaid) # {}
  <2>1. PICK p \in DOMAIN index : /\ index[p].run = r1 /\ r1 # 0 /\ LineOf(p) = l
                                  /\ p \in 1 .. Len(index) + 1
    BY PartsOfLine
  <2>2. PICK q \in DOMAIN index : /\ index[q].run = r2 /\ r2 # 0 /\ LineOf(q) = l
                                  /\ q \in 1 .. Len(index) + 1
    BY PartsOfLine
  <2>3. CASE p < q
    <3>1. SameLine(p, q)
      BY <2>1, <2>2, <2>3, SameLineOf
    <3> QED
      BY <1>2, <2>1, <2>2, <2>3, <3>1 DEF MixInv
  <2>4. CASE q < p
    <3>1. SameLine(q, p)
      BY <2>1, <2>2, <2>4, SameLineOf
    <3> QED
      BY <1>2, <2>1, <2>2, <2>4, <3>1 DEF MixInv
  <2> QED
    BY <1>2, <2>1, <2>2, <2>3, <2>4
<1>3. CASE \A r1, r2 \in shown : r1 = r2
  <2>1. PICK r : r \in shown
    BY <1>1
  <2>2. shown = {r}
    BY <1>3, <2>1
  <2> QED
    BY <2>2, FS_Singleton
<1> QED
  BY <1>2, <1>3

-----------------------------------------------------------------------------
(* Lines in one piece. *)

\* What is Underway after a step that writes no piece was so before it.
LEMMA UnderwayBefore ==
  ASSUME TypeOK, ConsoleInv, [Next]_vars, \A c \in Consoles : ~ AppendPiece(c)
  PROVE  /\ index' = index /\ UNCHANGED <<acked, overlaid>>
         /\ \A d \in Consoles : Underway(d)' =>
              Underway(d) /\ run'[d] = run[d] /\ pieces'[d] = pieces[d]
<1>1. ASSUME NEW c \in Consoles, NEW time \in Times, NEW slug \in Slugs,
             Begin(c, time, slug)
      PROVE  /\ index' = index /\ UNCHANGED <<acked, overlaid>>
             /\ \A d \in Consoles : Underway(d)' =>
                  Underway(d) /\ run'[d] = run[d] /\ pieces'[d] = pieces[d]
  <2>1. /\ pc' = [pc EXCEPT ![c] = "create"]
        /\ pieces' = [pieces EXCEPT ![c] = 0]
        /\ run' = [run EXCEPT ![c] = Len(runs) + 1]
        /\ UNCHANGED <<index, acked, overlaid>>
    BY <1>1, BeginEffect
  <2> QED
    BY <2>1 DEF Underway, TypeOK
<1>2. ASSUME NEW c \in Consoles, Quiet(c)
      PROVE  /\ index' = index /\ UNCHANGED <<acked, overlaid>>
             /\ \A d \in Consoles : Underway(d)' =>
                  Underway(d) /\ run'[d] = run[d] /\ pieces'[d] = pieces[d]
  <2>1. pc[c] # "append" => pieces[c] = 0
    BY <1>2 DEF Quiet, TypeOK, ConsoleInv
  <2> QED
    BY <1>2, <2>1 DEF Quiet, Underway, TypeOK
<1>3. CASE UNCHANGED vars
  BY <1>3 DEF vars, Underway
<1> QED
  BY <1>1, <1>2, <1>3, QuietSteps DEF Next, Record

\* AppendPiece carries on a line that nobody has written into.
LEMMA LineGrows ==
  ASSUME TypeOK, ConsoleInv, LineInv, NEW c \in Consoles, AppendPiece(c),
         run[c] \notin overlaid',
         NEW r, NEW n, NEW s,
         r = run[c], n = pieces[c] + 1, s = Len(index) + 1 - pieces[c]
  PROVE  LineAt(r, n, s)'
<1> DEFINE k == pieces[c]
           first == Len(index) + 1 - k
<1>1. /\ k \in Nat /\ Len(index) \in Nat /\ Len(index') = Len(index) + 1
      /\ \A p \in 1 .. Len(index) : index'[p] = index[p]
      /\ index'[Len(index) + 1] = Piece(run[c], k + 1)
      /\ UNCHANGED run /\ overlaid \subseteq overlaid'
      /\ pieces'[c] = k + 1 /\ pc[c] = "append"
  BY AppendEffect DEF TypeOK
<1>2. first >= 1 /\ \A j \in 1 .. k : index[first + j - 1] = Piece(run[c], j)
  <2>1. CASE k = 0
    BY <1>1, <2>1
  <2>2. CASE k > 0
    <3>1. LineAt(run[c], k, first)
      BY <1>1, <2>2 DEF LineInv, Underway
    <3> QED
      BY <3>1 DEF LineAt
  <2> QED
    BY <1>1, <2>1, <2>2
<1>3. \A j \in 1 .. k + 1 : index'[first + j - 1] = Piece(run[c], j)
  <2>1. \A j \in 1 .. k : first + j - 1 \in 1 .. Len(index)
    BY <1>1, <1>2
  <2>2. first + (k + 1) - 1 = Len(index) + 1
    BY <1>1
  <2>3. \A j \in 1 .. k + 1 : j \in 1 .. k \/ j = k + 1
    BY <1>1
  <2> QED
    BY <1>1, <1>2, <2>1, <2>2, <2>3
<1> QED
  BY <1>1, <1>2, <1>3 DEF LineAt

\* A line nobody wrote into stays in one piece.
LEMMA LineStep ==
  ASSUME TypeOK, ConsoleInv, LineInv, [Next]_vars
  PROVE  LineInv'
<1>1. CASE \A c \in Consoles : ~ AppendPiece(c)
  <2>1. /\ index' = index /\ UNCHANGED <<acked, overlaid>>
        /\ \A d \in Consoles : Underway(d)' =>
             Underway(d) /\ run'[d] = run[d] /\ pieces'[d] = pieces[d]
    BY <1>1, UnderwayBefore
  <2>2. \A r, n, s : /\ LineAt(r, n, s) => LineAt(r, n, s)'
                     /\ WholeLine(r, s) => WholeLine(r, s)'
    BY <2>1 DEF LineAt, WholeLine
  <2>3. ASSUME NEW d \in Consoles, Underway(d)', run'[d] \notin overlaid',
               NEW r, NEW n, NEW s,
               r = run'[d], n = pieces'[d], s = Len(index') + 1 - n
        PROVE  LineAt(r, n, s)'
    BY <2>1, <2>2, <2>3 DEF LineInv
  <2>4. \A r \in (acked \ overlaid)' : \E s \in DOMAIN index' : WholeLine(r, s)'
    <3> SUFFICES ASSUME NEW r \in acked \ overlaid
                 PROVE  \E s \in DOMAIN index : WholeLine(r, s)'
      BY <2>1
    <3>1. PICK s \in DOMAIN index : WholeLine(r, s)
      BY DEF LineInv
    <3> QED
      BY <2>2, <3>1
  <2> QED
    BY <2>3, <2>4 DEF LineInv
<1>2. ASSUME NEW c \in Consoles, AppendPiece(c)
      PROVE  LineInv'
  <2>1. /\ pieces[c] \in Nat /\ Len(index) \in Nat /\ Len(index') = Len(index) + 1
        /\ pieces[c] + 1 \in 1 .. 2 * Fields
        /\ DOMAIN index = 1 .. Len(index) /\ DOMAIN index' = 1 .. Len(index) + 1
        /\ \A p \in 1 .. Len(index) : index'[p] = index[p]
        /\ UNCHANGED run
        /\ pieces' = [pieces EXCEPT ![c] = pieces[c] + 1]
        /\ \/ /\ pieces[c] + 1 = 2 * Fields
              /\ pc' = [pc EXCEPT ![c] = "menu"]
              /\ acked' = acked \cup {run[c]}
           \/ pieces[c] + 1 # 2 * Fields /\ UNCHANGED <<pc, acked>>
        /\ overlaid \subseteq overlaid'
        /\ \A d \in Consoles \ {c} : Underway(d) => {run[c], run[d]} \subseteq overlaid'
    BY <1>2, AppendEffect
  <2>2. \A r : \A n, s \in Nat : LineAt(r, n, s) => LineAt(r, n, s)'
    <3> SUFFICES ASSUME NEW n \in Nat, NEW r, NEW s \in Nat, LineAt(r, n, s)
                 PROVE  LineAt(r, n, s)'
      OBVIOUS
    <3>1. \A k \in 1 .. n : s + k - 1 \in 1 .. Len(index)
      BY <2>1 DEF LineAt
    <3> QED
      BY <2>1, <3>1 DEF LineAt
  <2>3. ASSUME NEW d \in Consoles, Underway(d)', run'[d] \notin overlaid',
               NEW r, NEW n, NEW s,
               r = run'[d], n = pieces'[d], s = Len(index') + 1 - n
        PROVE  LineAt(r, n, s)'
    <3>1. d = c
      <4> SUFFICES ASSUME d # c PROVE FALSE
        OBVIOUS
      <4>1. Underway(d)
        BY <2>1, <2>3 DEF Underway, TypeOK
      <4> QED
        BY <2>1, <2>3, <4>1
    <3>2. r = run[c] /\ n = pieces[c] + 1 /\ s = Len(index) + 1 - pieces[c]
      BY <2>1, <2>3, <3>1 DEF TypeOK
    <3> QED
      BY <1>2, <2>3, <3>1, <3>2, LineGrows
  <2>4. ASSUME NEW r \in acked' \ overlaid'
        PROVE  \E s \in DOMAIN index' : WholeLine(r, s)'
    <3>1. CASE r \in acked
      <4>1. PICK s \in DOMAIN index : WholeLine(r, s)
        BY <2>1, <2>4, <3>1 DEF LineInv
      <4>2. s \in Nat /\ s \in DOMAIN index' /\ 2 * Fields \in Nat
        BY <2>1, SessionAssumption
      <4> QED
        BY <2>2, <4>1, <4>2 DEF WholeLine
    <3>2. CASE r = run[c] /\ pieces[c] + 1 = 2 * Fields
      <4>1. PICK s \in Int : s = Len(index) + 1 - pieces[c]
        BY <2>1
      <4>2. WholeLine(r, s)'
        <5>1. \A n : n = pieces[c] + 1 => LineAt(r, n, s)'
          BY <1>2, <2>4, <3>2, <4>1, LineGrows
        <5> QED
          BY <3>2, <5>1 DEF WholeLine
      <4>3. s \in DOMAIN index'
        BY <2>1, <4>1, <4>2 DEF WholeLine, LineAt
      <4> QED
        BY <4>2, <4>3
    <3> QED
      BY <2>1, <2>4, <3>1, <3>2
  <2> QED
    BY <2>3, <2>4 DEF LineInv
<1> QED
  BY <1>1, <1>2

-----------------------------------------------------------------------------
(* How many lines torn ones spoil. *)

\* Only the first piece of a run's line is the run's first field.
LEMMA FirstPiece ==
  ASSUME NEW r \in Nat \ {0}, NEW x \in Nat \ {0}, NEW k \in 1 .. 2 * Fields,
         Piece(x, k) = Piece(r, 1)
  PROVE  x = r /\ k = 1
<1>0. Fields \in Nat \ {0, 1}
  BY SessionAssumption
<1>1. Piece(r, 1) = [run |-> r, field |-> 1]
  BY <1>0, PieceType
<1>2. Piece(r, 1).run = r /\ Piece(r, 1).field = 1
  BY <1>1
<1>3. CASE k = 2 * Fields
  BY <1>2, <1>3, PieceKinds DEF Newline
<1>4. ASSUME NEW j \in 1 .. Fields - 1, k = 2 * j
      PROVE  FALSE
  BY <1>2, <1>4, PieceKinds DEF Tab
<1>5. ASSUME NEW j \in 1 .. Fields, k = 2 * j - 1
      PROVE  x = r /\ j = 1
  <2>1. Piece(x, k) = [run |-> x, field |-> j]
    BY <1>5, PieceKinds
  <2> QED
    BY <1>2, <2>1
<1> QED
  BY <1>3, <1>4, <1>5, PieceKinds

LEMMA SpoiledFinite ==
  ASSUME TypeOK
  PROVE  /\ IsFiniteSet(Spoiled) /\ Cardinality(Spoiled) \in Nat
         /\ IsFiniteSet(torn) /\ Cardinality(torn) \in Nat
         /\ IsFiniteSet(overlaid) /\ Cardinality(overlaid) \in Nat
<1>1. IsFiniteSet(DOMAIN runs)
  <2>1. DOMAIN runs = 1 .. Len(runs) /\ Len(runs) \in Nat
    BY DEF TypeOK
  <2> QED
    BY <2>1, FS_Interval
<1>2. Spoiled \subseteq DOMAIN runs /\ torn \subseteq DOMAIN runs
      /\ overlaid \subseteq DOMAIN runs
  BY DEF Spoiled, TypeOK
<1> QED
  BY <1>1, <1>2, FS_Subset, FS_CardinalityType

\* The new piece spoils at most the line it begins, and then uses up the
\* remnant.
LEMMA SpoilByAppend ==
  ASSUME TypeOK, ConsoleInv, IndexInv, NEW c \in Consoles, AppendPiece(c)
  PROVE  /\ ~ Remnant'
         /\ Spoiled' \subseteq Spoiled \cup {run[c]}
         /\ ~ (Spoiled' \subseteq Spoiled) => Remnant
<1> DEFINE n == Len(index) + 1
<1>1. /\ pieces[c] \in Nat /\ run[c] \in Nat \ {0}
      /\ pieces[c] + 1 \in 1 .. 2 * Fields
      /\ Piece(run[c], pieces[c] + 1) = Newline <=> pieces[c] + 1 = 2 * Fields
      /\ Len(index) \in Nat /\ Len(index') = n
      /\ DOMAIN index = 1 .. Len(index) /\ DOMAIN index' = 1 .. n
      /\ \A p \in 1 .. Len(index) : index'[p] = index[p]
      /\ index'[n] = Piece(run[c], pieces[c] + 1)
      /\ UNCHANGED runs /\ pc[c] = "append"
      /\ pieces' = [pieces EXCEPT ![c] = pieces[c] + 1]
      /\ pieces[c] + 1 # 2 * Fields => pc' = pc
      /\ overlaid \subseteq overlaid'
      /\ \A d \in Consoles \ {c} : Underway(d) => {run[c], run[d]} \subseteq overlaid'
  BY AppendEffect
<1>2. ~ Remnant'
  <2>1. pieces[c] + 1 # 2 * Fields => Underway(c)'
    BY <1>1 DEF Underway, TypeOK
  <2> QED
    BY <1>1, <2>1 DEF Remnant
<1>3. ASSUME NEW r \in Spoiled', r \notin Spoiled
      PROVE  r = run[c] /\ Remnant
  <2>1. PICK p \in DOMAIN index' :
          p > 1 /\ index'[p] = Piece(r, 1) /\ index'[p - 1] # Newline
    BY <1>3 DEF Spoiled
  <2>2. r \in DOMAIN runs \ overlaid /\ r \notin overlaid' /\ r \in Nat \ {0}
    BY <1>1, <1>3 DEF Spoiled, TypeOK
  <2>3. p = n
    <3> SUFFICES ASSUME p # n PROVE FALSE
      OBVIOUS
    <3>1. /\ p \in 1 .. Len(index) /\ p - 1 \in 1 .. Len(index)
          /\ index'[p] = index[p] /\ index'[p - 1] = index[p - 1]
      BY <1>1, <2>1
    <3> QED
      BY <1>1, <1>3, <2>1, <2>2, <3>1 DEF Spoiled
  <2>4. r = run[c] /\ pieces[c] = 0
    <3>1. Piece(run[c], pieces[c] + 1) = Piece(r, 1)
      BY <1>1, <2>1, <2>3
    <3>2. run[c] = r /\ pieces[c] + 1 = 1
      BY <1>1, <2>2, <3>1, FirstPiece
    <3> QED
      BY <1>1, <3>2
  <2>5. \A d \in Consoles : ~ Underway(d)
    BY <1>1, <2>2, <2>4 DEF Underway
  <2>6. Len(index) > 0 /\ index[Len(index)] # Newline
    BY <1>1, <2>1, <2>3
  <2> QED
    BY <2>4, <2>5, <2>6 DEF Remnant
<1> QED
  BY <1>2, <1>3

\* A step that writes no piece leaves Spoiled alone, and leaves a remnant only
\* by tearing a line.
LEMMA SpoilByOther ==
  ASSUME TypeOK, ConsoleInv, IndexInv, [Next]_vars,
         \A c \in Consoles : ~ AppendPiece(c)
  PROVE  /\ Spoiled' = Spoiled
         /\ \/ torn' = torn /\ (Remnant' => Remnant)
            \/ \E c \in Consoles : Underway(c) /\ torn' = torn \cup {run[c]}
<1>0. /\ \A p \in DOMAIN index : index[p].run \in Nat
      /\ \A r \in DOMAIN runs : r \in Nat \ {0}
      /\ 1 \in 1 .. 2 * Fields
  <2>1. \A p \in DOMAIN index : index[p].run \in Nat
    BY DEF TypeOK, Pieces, Tab, Newline
  <2>2. \A r \in DOMAIN runs : r \in Nat \ {0}
    BY DEF TypeOK
  <2>3. 1 \in 1 .. 2 * Fields
    BY SessionAssumption
  <2> QED
    BY <2>1, <2>2, <2>3
<1>1. ASSUME NEW c \in Consoles, NEW time \in Times, NEW slug \in Slugs,
             Begin(c, time, slug)
      PROVE  Spoiled' = Spoiled /\ torn' = torn /\ (Remnant' => Remnant)
  <2>1. /\ pc[c] = "menu" /\ Len(runs) \in Nat
        /\ \A d \in Consoles \ {c} : pc'[d] = pc[d] /\ pieces'[d] = pieces[d]
        /\ DOMAIN runs = 1 .. Len(runs) /\ DOMAIN runs' = 1 .. Len(runs) + 1
        /\ UNCHANGED <<index, torn, overlaid>>
    BY <1>1, BeginEffect DEF TypeOK
  <2>2. \A p \in DOMAIN index : index[p] # Piece(Len(runs) + 1, 1)
    <3>1. Piece(Len(runs) + 1, 1) = [run |-> Len(runs) + 1, field |-> 1]
      BY <1>0, <2>1, PieceType
    <3>2. Piece(Len(runs) + 1, 1).run = Len(runs) + 1
      BY <3>1
    <3> QED
      BY <1>0, <2>1, <3>2 DEF IndexInv
  <2>3. Spoiled' = Spoiled
    <3>1. \A r : r \in Spoiled' <=> r \in Spoiled
      BY <2>1, <2>2 DEF Spoiled
    <3> QED
      BY <3>1
  <2>4. Remnant' => Remnant
    BY <2>1 DEF Remnant, Underway
  <2> QED
    BY <2>1, <2>3, <2>4
<1>2. ASSUME NEW c \in Consoles,
             CreateFile(c) \/ WriteFile(c) \/ WriteFileFails(c) \/ OpenIndex(c)
      PROVE  Spoiled' = Spoiled /\ torn' = torn /\ (Remnant' => Remnant)
  <2>1. /\ UNCHANGED <<runs, pieces, index, torn, overlaid>> /\ pc[c] # "append"
        /\ \E where : pc' = [pc EXCEPT ![c] = where]
    BY <1>2 DEF CreateFile, WriteFile, WriteFileFails, OpenIndex, Goto, history
  <2>2. Spoiled' = Spoiled
    BY <2>1 DEF Spoiled
  <2>3. \A d \in Consoles : Underway(d) => Underway(d)'
    BY <2>1 DEF Underway, TypeOK
  <2>4. Remnant' => Remnant
    BY <2>1, <2>3 DEF Remnant
  <2> QED
    BY <2>1, <2>2, <2>4
<1>3. ASSUME NEW c \in Consoles, Abandon(c)
      PROVE  /\ Spoiled' = Spoiled
             /\ \/ torn' = torn /\ (Remnant' => Remnant)
                \/ \E d \in Consoles : Underway(d) /\ torn' = torn \cup {run[d]}
  <2>1. /\ UNCHANGED <<runs, pieces, index, overlaid>>
        /\ pc' = [pc EXCEPT ![c] = "menu"]
        /\ torn' = IF Underway(c) THEN torn \cup {run[c]} ELSE torn
    BY <1>3 DEF Abandon, Goto
  <2>2. Spoiled' = Spoiled
    BY <2>1 DEF Spoiled
  <2>3. ~ Underway(c) => (Remnant' => Remnant)
    <3> SUFFICES ASSUME ~ Underway(c) PROVE Remnant' => Remnant
      OBVIOUS
    <3>1. \A d \in Consoles : Underway(d) => Underway(d)'
      BY <2>1 DEF Underway, TypeOK
    <3> QED
      BY <2>1, <3>1 DEF Remnant
  <2> QED
    BY <2>1, <2>2, <2>3
<1>4. CASE UNCHANGED vars
  BY <1>4 DEF vars, Spoiled, Remnant, Underway
<1> QED
  BY <1>1, <1>2, <1>3, <1>4 DEF Next, Record

\* A torn line spoils at most one other, still.
LEMMA SpoilStep ==
  ASSUME TypeOK, ConsoleInv, IndexInv, SpoilInv, [Next]_vars
  PROVE  SpoilInv'
<1>0. /\ TypeOK' /\ IsFiniteSet(Spoiled) /\ Cardinality(Spoiled) \in Nat
      /\ IsFiniteSet(torn) /\ Cardinality(torn) \in Nat
  BY TypeStep, SpoiledFinite
<1>1. ASSUME NEW d \in Consoles, pc'[d] # "menu"
      PROVE  run'[d] \notin torn'
  <2>1. ASSUME NEW c \in Consoles, NEW time \in Times, NEW slug \in Slugs,
               Begin(c, time, slug)
        PROVE  run'[d] \notin torn'
    <3>1. /\ pc' = [pc EXCEPT ![c] = "create"] /\ UNCHANGED torn
          /\ run' = [run EXCEPT ![c] = Len(runs) + 1]
          /\ Len(runs) + 1 \notin DOMAIN runs
      BY <2>1, BeginEffect
    <3> QED
      BY <1>1, <3>1 DEF TypeOK, SpoilInv
  <2>2. ASSUME NEW c \in Consoles,
               CreateFile(c) \/ WriteFile(c) \/ WriteFileFails(c) \/ OpenIndex(c)
        PROVE  run'[d] \notin torn'
    <3>1. UNCHANGED <<run, torn>> /\ pc[c] # "menu"
          /\ \E where : pc' = [pc EXCEPT ![c] = where]
      BY <2>2 DEF CreateFile, WriteFile, WriteFileFails, OpenIndex, Goto, history
    <3> QED
      BY <1>1, <3>1 DEF TypeOK, SpoilInv
  <2>3. ASSUME NEW c \in Consoles, AppendPiece(c)
        PROVE  run'[d] \notin torn'
    <3>1. UNCHANGED <<run, torn>> /\ (pc' = pc \/ pc' = [pc EXCEPT ![c] = "menu"])
      BY <2>3, AppendEffect
    <3> QED
      BY <1>1, <3>1 DEF TypeOK, SpoilInv
  <2>4. ASSUME NEW c \in Consoles, Abandon(c)
        PROVE  run'[d] \notin torn'
    <3>1. /\ UNCHANGED run /\ pc[c] # "menu" /\ pc' = [pc EXCEPT ![c] = "menu"]
          /\ torn' = IF Underway(c) THEN torn \cup {run[c]} ELSE torn
      BY <2>4 DEF Abandon, Goto
    <3>2. d # c /\ pc[d] # "menu"
      BY <1>1, <3>1 DEF TypeOK
    <3>3. run[d] # run[c]
      BY <3>1, <3>2 DEF ConsoleInv
    <3> QED
      BY <3>1, <3>2, <3>3 DEF SpoilInv
  <2>5. CASE UNCHANGED vars
    BY <1>1, <2>5 DEF vars, SpoilInv
  <2> QED
    BY <2>1, <2>2, <2>3, <2>4, <2>5 DEF Next, Record
<1>2. ASSUME NEW c \in Consoles, AppendPiece(c)
      PROVE  SpoilInv'
  <2>1. /\ ~ Remnant' /\ Spoiled' \subseteq Spoiled \cup {run[c]}
        /\ ~ (Spoiled' \subseteq Spoiled) => Remnant
    BY <1>2, SpoilByAppend
  <2>2. torn' = torn
    BY <1>2, AppendEffect
  <2>3. CASE Spoiled' \subseteq Spoiled
    <3>1. /\ Cardinality(Spoiled') <= Cardinality(Spoiled)
          /\ IsFiniteSet(Spoiled')
      BY <1>0, <2>3, FS_Subset
    <3>2. Cardinality(Spoiled') \in Nat
      BY <3>1, FS_CardinalityType
    <3> QED
      BY <1>0, <1>1, <2>1, <2>2, <3>1, <3>2 DEF SpoilInv
  <2>4. CASE Remnant
    <3>1. /\ IsFiniteSet(Spoiled \cup {run[c]})
          /\ Cardinality(Spoiled \cup {run[c]}) <= Cardinality(Spoiled) + 1
          /\ Cardinality(Spoiled \cup {run[c]}) \in Nat
      BY <1>0, FS_AddElement
    <3>2. /\ Cardinality(Spoiled') <= Cardinality(Spoiled \cup {run[c]})
          /\ IsFiniteSet(Spoiled')
      BY <2>1, <3>1, FS_Subset
    <3>3. Cardinality(Spoiled') \in Nat
      BY <3>2, FS_CardinalityType
    <3> QED
      BY <1>0, <1>1, <2>1, <2>2, <2>4, <3>1, <3>2, <3>3 DEF SpoilInv
  <2> QED
    BY <2>1, <2>3, <2>4
<1>3. ASSUME \A c \in Consoles : ~ AppendPiece(c)
      PROVE  SpoilInv'
  <2>1. /\ Spoiled' = Spoiled
        /\ \/ torn' = torn /\ (Remnant' => Remnant)
           \/ \E c \in Consoles : Underway(c) /\ torn' = torn \cup {run[c]}
    BY <1>3, SpoilByOther
  <2>2. CASE torn' = torn /\ (Remnant' => Remnant)
    BY <1>0, <1>1, <2>1, <2>2 DEF SpoilInv
  <2>3. ASSUME NEW c \in Consoles, Underway(c), torn' = torn \cup {run[c]}
        PROVE  SpoilInv'
    <3>1. run[c] \notin torn /\ ~ Remnant
      BY <2>3 DEF SpoilInv, Underway, Remnant
    <3>2. Cardinality(torn') = Cardinality(torn) + 1
      BY <1>0, <2>3, <3>1, FS_AddElement
    <3> QED
      BY <1>0, <1>1, <2>1, <3>1, <3>2 DEF SpoilInv
  <2> QED
    BY <2>1, <2>2, <2>3
<1> QED
  BY <1>2, <1>3

-----------------------------------------------------------------------------
(* A line in one piece, read back. *)

\* Every second position of a line.
LEMMA EverySecond ==
  ASSUME NEW s \in Nat, NEW m \in Nat
  PROVE  /\ IsFiniteSet({s + 2 * i - 1 : i \in 1 .. m})
         /\ Cardinality({s + 2 * i - 1 : i \in 1 .. m}) = m
<1> DEFINE f == [i \in 1 .. m |-> s + 2 * i - 1]
           S == {s + 2 * i - 1 : i \in 1 .. m}
<1>1. IsFiniteSet(1 .. m) /\ Cardinality(1 .. m) = m
  <2>1. /\ IsFiniteSet(1 .. m)
        /\ Cardinality(1 .. m) = IF 1 > m THEN 0 ELSE m - 1 + 1
    BY FS_Interval
  <2> QED
    BY <2>1
<1>2. f \in Bijection(1 .. m, S)
  <2>1. f \in [1 .. m -> S]
    OBVIOUS
  <2>2. \A i, j \in 1 .. m : f[i] = f[j] => i = j
    OBVIOUS
  <2>3. \A x \in S : \E i \in 1 .. m : f[i] = x
    OBVIOUS
  <2> HIDE DEF f, S
  <2> QED
    BY <2>1, <2>2, <2>3 DEF Bijection, Injection, IsInjective, Surjection
<1> QED
  BY <1>1, <1>2, FS_Bijection DEF ExistsBijection

\* Where a whole line that begins a line stands: all of a line of the index,
\* its tabs at every second place.
LEMMA WholeLineParts ==
  ASSUME TypeOK, NEW r \in DOMAIN runs, NEW s \in DOMAIN index, WholeLine(r, s),
         s = 1 \/ index[s - 1] = Newline
  PROVE  /\ \A q \in 1 .. Len(index) + 1 :
              LineOf(q) = LineOf(s) <=> q \in s .. s + 2 * Fields - 1
         /\ {i \in DOMAIN index : index[i] = Tab /\ LineOf(i) = LineOf(s)}
              = {s + 2 * i - 1 : i \in 1 .. Fields - 1}
         /\ \A j \in 1 .. Fields : TabsBefore(s + 2 * j - 2)
              = {s + 2 * i - 1 : i \in 1 .. j - 1}
<1> DEFINE e == s + 2 * Fields - 1
<1>1. /\ Fields \in Nat \ {0, 1} /\ Len(index) \in Nat /\ r \in Nat \ {0}
      /\ DOMAIN index = 1 .. Len(index) /\ s \in Nat \ {0}
  BY SessionAssumption DEF TypeOK
<1>2. e <= Len(index) /\ e \in Nat /\ s <= e
      /\ \A k \in 1 .. 2 * Fields : index[s + k - 1] = Piece(r, k)
  BY <1>1 DEF WholeLine, LineAt
<1>3. index[e] = Newline
  <2>1. 2 * Fields \in 1 .. 2 * Fields /\ s + 2 * Fields - 1 = e
    BY <1>1
  <2> QED
    BY <1>1, <1>2, <2>1, PieceKinds
<1>4. \A p \in s .. e - 1 : index[p] # Newline
  <2> SUFFICES ASSUME NEW p \in s .. e - 1 PROVE index[p] # Newline
    OBVIOUS
  <2>1. PICK k \in 1 .. 2 * Fields : p = s + k - 1 /\ k # 2 * Fields
    <3>1. p - s + 1 \in 1 .. 2 * Fields /\ p = s + (p - s + 1) - 1
          /\ p - s + 1 # 2 * Fields
      BY <1>1
    <3> QED
      BY <3>1
  <2> QED
    BY <1>1, <1>2, <2>1, PieceType
<1>5. \A q \in 1 .. Len(index) + 1 : LineOf(q) = LineOf(s) <=> q \in s .. e
  <2> SUFFICES ASSUME NEW q \in 1 .. Len(index) + 1
               PROVE  LineOf(q) = LineOf(s) <=> q \in s .. e
    OBVIOUS
  <2>1. CASE q < s
    <3>1. ~ SameLine(q, s)
      BY <1>1, <2>1 DEF SameLine
    <3> QED
      BY <1>1, <2>1, <3>1, SameLineOf
  <2>2. CASE s <= q
    <3>1. SameLine(s, q) <=> q <= e
      BY <1>1, <1>2, <1>3, <1>4, <2>2 DEF SameLine
    <3> QED
      BY <1>1, <2>2, <3>1, SameLineOf
  <2> QED
    BY <1>1, <2>1, <2>2
<1>6. \A i \in s .. e : index[i] = Tab <=> \E j \in 1 .. Fields - 1 : i = s + 2 * j - 1
  <2> SUFFICES ASSUME NEW i \in s .. e
               PROVE  index[i] = Tab <=> \E j \in 1 .. Fields - 1 : i = s + 2 * j - 1
    OBVIOUS
  <2>1. PICK k \in 1 .. 2 * Fields : i = s + k - 1 /\ index[i] = Piece(r, k)
    <3>1. i - s + 1 \in 1 .. 2 * Fields /\ i = s + (i - s + 1) - 1
      BY <1>1
    <3> QED
      BY <1>2, <3>1
  <2>2. CASE k = 2 * Fields
    <3>1. index[i] # Tab
      BY <1>1, <2>1, <2>2, PieceKinds DEF Tab, Newline
    <3> QED
      BY <1>1, <2>1, <2>2, <3>1
  <2>3. ASSUME NEW j \in 1 .. Fields, k = 2 * j - 1
        PROVE  index[i] = Tab <=> \E x \in 1 .. Fields - 1 : i = s + 2 * x - 1
    <3>1. index[i] # Tab
      <4>1. index[i] = [run |-> r, field |-> j]
        BY <1>1, <2>1, <2>3, PieceKinds
      <4>2. index[i].run = r /\ Tab.run = 0
        BY <4>1 DEF Tab
      <4> QED
        BY <1>1, <4>2
    <3> QED
      BY <1>1, <2>1, <2>3, <3>1
  <2>4. ASSUME NEW j \in 1 .. Fields - 1, k = 2 * j
        PROVE  index[i] = Tab <=> \E x \in 1 .. Fields - 1 : i = s + 2 * x - 1
    BY <1>1, <2>1, <2>4, PieceKinds
  <2> QED
    BY <1>1, <2>2, <2>3, <2>4, PieceKinds
<1>7. {i \in DOMAIN index : index[i] = Tab /\ LineOf(i) = LineOf(s)}
        = {s + 2 * i - 1 : i \in 1 .. Fields - 1}
  <2>1. \A i \in 1 .. Fields - 1 : s + 2 * i - 1 \in s .. e
    BY <1>1
  <2>2. \A i \in DOMAIN index : LineOf(i) = LineOf(s) <=> i \in s .. e
    BY <1>1, <1>5
  <2>3. s .. e \subseteq DOMAIN index
    BY <1>1, <1>2
  <2> HIDE DEF e
  <2> QED
    BY <1>6, <2>1, <2>2, <2>3
<1>8. ASSUME NEW j \in 1 .. Fields
      PROVE  TabsBefore(s + 2 * j - 2) = {s + 2 * i - 1 : i \in 1 .. j - 1}
  <2> DEFINE q == s + 2 * j - 2
  <2>1. q \in s .. e /\ q \in 1 .. Len(index) + 1
    BY <1>1, <1>2
  <2>2. LineOf(q) = LineOf(s)
    BY <1>5, <2>1
  <2>3. \A i \in 1 .. q - 1 : i \in 1 .. Len(index) + 1
    BY <1>1, <2>1
  <2>4. \A i \in 1 .. q - 1 : index[i] = Tab /\ LineOf(i) = LineOf(q)
          <=> \E x \in 1 .. j - 1 : i = s + 2 * x - 1
    <3> SUFFICES ASSUME NEW i \in 1 .. q - 1
                 PROVE  index[i] = Tab /\ LineOf(i) = LineOf(q)
                          <=> \E x \in 1 .. j - 1 : i = s + 2 * x - 1
      OBVIOUS
    <3>1. LineOf(i) = LineOf(q) <=> i \in s .. e
      BY <1>5, <2>2, <2>3
    <3>2. \A x \in 1 .. Fields - 1 : i = s + 2 * x - 1 => x \in 1 .. j - 1
      BY <1>1
    <3>3. \A x \in 1 .. j - 1 : x \in 1 .. Fields - 1 /\ s + 2 * x - 1 \in s .. e
      BY <1>1
    <3> HIDE DEF q, e
    <3> QED
      BY <1>6, <3>1, <3>2, <3>3
  <2>5. \A x \in 1 .. j - 1 : s + 2 * x - 1 \in 1 .. q - 1
    BY <1>1
  <2>6. TabsBefore(q) = {i \in 1 .. q - 1 : index[i] = Tab /\ LineOf(i) = LineOf(q)}
    BY DEF TabsBefore
  <2> HIDE DEF q
  <2>7. TabsBefore(q) = {s + 2 * i - 1 : i \in 1 .. j - 1}
    BY <2>4, <2>5, <2>6
  <2> QED
    BY <2>7 DEF q
<1> QED
  BY <1>5, <1>7, <1>8

\* list_recent reads such a line as an entry whose parts are the run's fields.
LEMMA WholeLineListed ==
  ASSUME TypeOK, NEW r \in DOMAIN runs, NEW s \in DOMAIN index, WholeLine(r, s),
         s = 1 \/ index[s - 1] = Newline
  PROVE  r \in Listed
<1> DEFINE l == LineOf(s)
           e == s + 2 * Fields - 1
<1>1. /\ Fields \in Nat \ {0, 1} /\ Len(index) \in Nat /\ r \in Nat \ {0}
      /\ DOMAIN index = 1 .. Len(index) /\ s \in Nat \ {0}
  BY SessionAssumption DEF TypeOK
<1>2. e <= Len(index) /\ \A k \in 1 .. 2 * Fields : index[s + k - 1] = Piece(r, k)
  BY <1>1 DEF WholeLine, LineAt
<1>3. /\ \A q \in 1 .. Len(index) + 1 : LineOf(q) = l <=> q \in s .. e
      /\ {i \in DOMAIN index : index[i] = Tab /\ LineOf(i) = l}
           = {s + 2 * i - 1 : i \in 1 .. Fields - 1}
      /\ \A j \in 1 .. Fields : TabsBefore(s + 2 * j - 2)
           = {s + 2 * i - 1 : i \in 1 .. j - 1}
  BY WholeLineParts
<1>4. \A j \in 1 .. Fields : Cardinality(TabsBefore(s + 2 * j - 2)) = j - 1
  <2> SUFFICES ASSUME NEW j \in 1 .. Fields
               PROVE  Cardinality(TabsBefore(s + 2 * j - 2)) = j - 1
    OBVIOUS
  <2>1. j - 1 \in Nat /\ s \in Nat
    BY <1>1
  <2>2. Cardinality({s + 2 * i - 1 : i \in 1 .. j - 1}) = j - 1
    BY <2>1, EverySecond
  <2> QED
    BY <1>3, <2>2
<1>5. \A j \in 1 .. Fields : /\ s + 2 * j - 2 \in DOMAIN index
                             /\ LineOf(s + 2 * j - 2) = l
                             /\ index[s + 2 * j - 2] = [run |-> r, field |-> j]
                             /\ index[s + 2 * j - 2] \notin {Tab, Newline}
  <2> SUFFICES ASSUME NEW j \in 1 .. Fields
               PROVE  /\ s + 2 * j - 2 \in DOMAIN index
                      /\ LineOf(s + 2 * j - 2) = l
                      /\ index[s + 2 * j - 2] = [run |-> r, field |-> j]
                      /\ index[s + 2 * j - 2] \notin {Tab, Newline}
    OBVIOUS
  <2>1. s + 2 * j - 2 \in s .. e /\ s + 2 * j - 2 \in 1 .. Len(index)
    BY <1>1, <1>2
  <2>2. LineOf(s + 2 * j - 2) = l
    BY <1>1, <1>3, <2>1
  <2>3. 2 * j - 1 \in 1 .. 2 * Fields /\ s + (2 * j - 1) - 1 = s + 2 * j - 2
    BY <1>1
  <2>4. index[s + 2 * j - 2] = [run |-> r, field |-> j]
    BY <1>1, <1>2, <2>3, PieceKinds
  <2>5. index[s + 2 * j - 2].run = r /\ Tab.run = 0 /\ Newline.run = 0
    BY <2>4 DEF Tab, Newline
  <2> QED
    BY <1>1, <2>1, <2>2, <2>4, <2>5
<1>6. ASSUME NEW q \in DOMAIN index, LineOf(q) = l, index[q] \notin {Tab, Newline}
      PROVE  \E j \in 1 .. Fields : q = s + 2 * j - 2
  <2>1. q \in s .. e
    BY <1>1, <1>3, <1>6
  <2>2. PICK k \in 1 .. 2 * Fields : q = s + k - 1
    <3>1. q - s + 1 \in 1 .. 2 * Fields /\ q = s + (q - s + 1) - 1
      BY <1>1, <2>1
    <3> QED
      BY <3>1
  <2>3. index[q] = Piece(r, k)
    BY <1>2, <2>2
  <2>4. k # 2 * Fields
    BY <1>1, <1>6, <2>3, PieceKinds
  <2>5. \A j \in 1 .. Fields - 1 : k # 2 * j
    <3> SUFFICES ASSUME NEW j \in 1 .. Fields - 1, k = 2 * j
                 PROVE  FALSE
      OBVIOUS
    <3>1. Piece(r, 2 * j) = Tab
      BY <1>1, PieceKinds
    <3>2. index[q] = Tab
      BY <2>3, <3>1
    <3> QED
      BY <1>6, <3>2
  <2>6. PICK j \in 1 .. Fields : k = 2 * j - 1
    BY <1>1, <2>4, <2>5, PieceKinds
  <2>7. q = s + 2 * j - 2
    BY <1>1, <2>2, <2>6
  <2> QED
    BY <2>7
<1>7. \A k \in 1 .. Fields : Part(l, k) = {[run |-> r, field |-> k]}
  <2> SUFFICES ASSUME NEW k \in 1 .. Fields
               PROVE  Part(l, k) = {[run |-> r, field |-> k]}
    OBVIOUS
  <2>1. [run |-> r, field |-> k] \in Part(l, k)
    <3> DEFINE q == s + 2 * k - 2
    <3>1. /\ q \in DOMAIN index /\ LineOf(q) = l
          /\ Cardinality(TabsBefore(q)) = k - 1
          /\ index[q] \notin {Tab, Newline}
          /\ index[q] = [run |-> r, field |-> k]
      BY <1>4, <1>5
    <3> HIDE DEF q
    <3> QED
      BY <3>1 DEF Part
  <2>2. ASSUME NEW piece \in Part(l, k)
        PROVE  piece = [run |-> r, field |-> k]
    <3>1. PICK q \in DOMAIN index :
            /\ LineOf(q) = l /\ Cardinality(TabsBefore(q)) = k - 1
            /\ index[q] \notin {Tab, Newline} /\ index[q] = piece
      BY <2>2 DEF Part
    <3>2. PICK j \in 1 .. Fields : q = s + 2 * j - 2
      BY <1>6, <3>1
    <3>3. j - 1 = k - 1
      BY <1>4, <3>1, <3>2
    <3>4. j = k
      BY <1>1, <3>3
    <3> QED
      BY <1>5, <3>1, <3>2, <3>4
  <2> QED
    BY <2>1, <2>2
<1>8. l \in Entries
  <2>1. Cardinality({i \in DOMAIN index : index[i] = Tab /\ LineOf(i) = l}) = Fields - 1
    <3>1. Fields - 1 \in Nat /\ s \in Nat
      BY <1>1
    <3>2. Cardinality({s + 2 * i - 1 : i \in 1 .. Fields - 1}) = Fields - 1
      BY <3>1, EverySecond
    <3> QED
      BY <1>3, <3>2
  <2>2. \A k \in Numbers : Part(l, k) # {}
    BY <1>7, SessionAssumption
  <2>3. l \in 1 .. LineOf(Len(index) + 1)
    <3>1. /\ l \in Nat /\ LineOf(Len(index) + 1) \in Nat
          /\ l <= LineOf(Len(index) + 1)
      <4>1. /\ s \in 1 .. Len(index) + 1 /\ Len(index) + 1 \in 1 .. Len(index) + 1
            /\ s <= Len(index) + 1
        BY <1>1
      <4> QED
        BY <4>1, SameLineOf
    <3>2. l >= 1
      <4> DEFINE before == {i \in 1 .. s - 1 : index[i] = Newline}
      <4>1. IsFiniteSet(1 .. s - 1)
        BY <1>1, FS_Interval
      <4>2. IsFiniteSet(before)
        BY <4>1, FS_Subset
      <4>3. Cardinality(before) \in Nat
        BY <4>2, FS_CardinalityType
      <4>4. l = 1 + Cardinality(before)
        BY DEF LineOf
      <4> HIDE DEF before
      <4> QED
        BY <4>3, <4>4
    <3> HIDE DEF l
    <3> QED
      BY <3>1, <3>2
  <2> HIDE DEF l
  <2> QED
    BY <2>1, <2>2, <2>3 DEF Entries
<1>9. Shows(l, r)
  BY <1>1, <1>7 DEF Shows
<1> HIDE DEF l
<1> QED
  BY <1>8, <1>9 DEF Listed

-----------------------------------------------------------------------------
(* The properties of the sessions run. *)

LEMMA InvariantInit == Init => Inv
<1> SUFFICES ASSUME Init PROVE Inv
  OBVIOUS
<1>1. /\ pc = [c \in Consoles |-> "menu"] /\ run = [c \in Consoles |-> 0]
      /\ pieces = [c \in Consoles |-> 0] /\ runs = <<>> /\ index = <<>>
      /\ acked = {} /\ torn = {} /\ overlaid = {}
  BY DEF Init
<1>2. TypeOK
  <2>1. 0 \in 0 .. 2 * Fields
    BY SessionAssumption
  <2> QED
    BY <1>1, <2>1 DEF TypeOK
<1>3. ConsoleInv /\ IndexInv /\ FileInv
  BY <1>1 DEF ConsoleInv, IndexInv, FileInv
<1>4. MixInv /\ LineInv
  BY <1>1 DEF MixInv, LineInv, Underway
<1>5. SpoilInv
  <2>1. Spoiled = {} /\ ~ Remnant
    BY <1>1 DEF Spoiled, Remnant
  <2> QED
    BY <1>1, <2>1, FS_EmptySet DEF SpoilInv
<1> QED
  BY <1>2, <1>3, <1>4, <1>5 DEF Inv

\* In every reachable state each console is where its files and lines say it
\* is, and each torn or overlaid line answers for the entries it spoils.
THEOREM Invariant == Spec => []Inv
<1>1. Inv /\ [Next]_vars => Inv'
  BY TypeStep, IndexStep, FileStep, MixStep, LineStep, SpoilStep DEF Inv
<1> QED
  BY <1>1, InvariantInit, PTL DEF Spec

\* A run that list_recent shows has its report on disk, under the name of its
\* millisecond and slug.
THEOREM ListedRunsReadable == Spec => []ListedRunReadable
<1>1. Inv => ListedRunReadable
  <2> SUFFICES ASSUME Inv, NEW r \in Listed
               PROVE  /\ FileName(r) \in DOMAIN files
                      /\ \/ files[FileName(r)] = r
                         \/ \E other \in DOMAIN runs \ {r} : runs[other] = runs[r]
    BY DEF ListedRunReadable
  <2>1. PICK l \in Entries : Part(l, Fields) = {[run |-> r, field |-> Fields]}
    BY DEF Listed, Shows
  <2>2. PICK p \in DOMAIN index : index[p] = [run |-> r, field |-> Fields]
    BY <2>1 DEF Part
  <2>3. Reached(r) /\ r \in DOMAIN runs
    BY <2>2 DEF Reached, Listed
  <2> QED
    BY <2>3 DEF Inv, FileInv, Kept, HasTwin
<1> QED
  BY <1>1, Invariant, PTL

\* An entry of the list shows the fields of one run, unless a line of it was
\* torn or overlaid.
THEOREM EntriesShowOneRun == Spec => []EntriesOfOneRun
<1>1. Inv => EntriesOfOneRun
  BY EntriesUnmixed DEF Inv
<1> QED
  BY <1>1, Invariant, PTL

\* Recorded runs missing from the list are at most as many as lines were torn
\* or overlaid, however many consoles crashed and where.
THEOREM LossIsBounded == Spec => []LossBounded
<1>1. Inv => LossBounded
  <2> SUFFICES ASSUME Inv PROVE LossBounded
    OBVIOUS
  <2>1. acked \ Listed \subseteq Spoiled \cup overlaid
    <3> SUFFICES ASSUME NEW r \in acked, r \notin Spoiled, r \notin overlaid
                 PROVE  r \in Listed
      OBVIOUS
    <3>1. PICK s \in DOMAIN index : WholeLine(r, s)
      BY DEF Inv, LineInv
    <3>2. r \in DOMAIN runs
      BY DEF Inv, TypeOK
    <3>3. index[s] = Piece(r, 1)
      <4>1. 1 \in 1 .. 2 * Fields /\ s + 1 - 1 = s
        BY SessionAssumption DEF Inv, TypeOK
      <4> QED
        BY <3>1, <4>1 DEF WholeLine, LineAt
    <3>4. s = 1 \/ index[s - 1] = Newline
      <4>1. s > 1 \/ s = 1
        BY DEF Inv, TypeOK
      <4> QED
        BY <3>2, <3>3, <4>1 DEF Spoiled
    <3> QED
      BY <3>1, <3>2, <3>4, WholeLineListed DEF Inv
  <2>2. /\ IsFiniteSet(Spoiled) /\ Cardinality(Spoiled) \in Nat
        /\ Cardinality(torn) \in Nat
        /\ IsFiniteSet(overlaid) /\ Cardinality(overlaid) \in Nat
    BY SpoiledFinite DEF Inv
  <2>3. /\ IsFiniteSet(Spoiled \cup overlaid) /\ IsFiniteSet(Spoiled \cap overlaid)
        /\ Cardinality(Spoiled \cup overlaid)
             = Cardinality(Spoiled) + Cardinality(overlaid)
                 - Cardinality(Spoiled \cap overlaid)
    BY <2>2, FS_Union, FS_Intersection
  <2>4. Cardinality(Spoiled \cap overlaid) \in Nat
    BY <2>3, FS_CardinalityType
  <2>5. /\ Cardinality(acked \ Listed) <= Cardinality(Spoiled \cup overlaid)
        /\ IsFiniteSet(acked \ Listed)
    BY <2>1, <2>3, FS_Subset
  <2>6. Cardinality(acked \ Listed) \in Nat
    BY <2>5, FS_CardinalityType
  <2>7. Cardinality(Spoiled) <= Cardinality(torn)
    BY <2>2 DEF Inv, SpoilInv
  <2> QED
    BY <2>2, <2>3, <2>4, <2>5, <2>6, <2>7 DEF LossBounded
<1> QED
  BY <1>1, Invariant, PTL
=============================================================================
