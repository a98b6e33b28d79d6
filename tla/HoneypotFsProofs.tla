-------------------------- MODULE HoneypotFsProofs --------------------------
(***************************************************************************)
(* What HoneypotFs promises, for every set of names and decoys and for     *)
(* every path however it is spelled.  First that the loop of               *)
(* normalized_path finds what a path denotes: after n components it holds  *)
(* the names of the first n that no later ".." among them takes back, and  *)
(* behind each of those as many stand as names outnumber the ".." behind   *)
(* it.  Then that the root file system stays a tree, and from both what a  *)
(* call does to the decoys and to the list of events.                      *)
(***************************************************************************)
EXTENDS HoneypotFs, FiniteSetTheorems, SequenceTheorems,
        WellFoundedInduction, TLAPS

Components == Names \cup {"/", ".", ".."}

-----------------------------------------------------------------------------
(* Numbers and the places of the numbers of a set. *)

\* What does not hold for every number fails first somewhere.
LEMMA FirstFailure ==
  ASSUME NEW S, S \subseteq Nat, S # {}, 0 \notin S
  PROVE  \E n \in Nat : n \notin S /\ n + 1 \in S
<1>1. PICK m \in S : \A j \in S : ~(<<j, m>> \in OpToRel(<, Nat))
  BY NatLessThanWellFounded, WFMin
<1>2. \A j \in S : ~(j < m)
  BY <1>1 DEF OpToRel
<1>3. m - 1 \in Nat /\ m - 1 \notin S /\ (m - 1) + 1 = m
  BY <1>2
<1> QED
  BY <1>3

\* Each number of a finite set has a place of its own, the first to the last
\* are all taken, and a number before another is placed before it.
LEMMA Places ==
  ASSUME NEW M, M \subseteq Nat, IsFiniteSet(M)
  PROVE  /\ Cardinality(M) \in Nat
         /\ \A i \in M : PlaceAmong(M, i) \in 1 .. Cardinality(M)
         /\ \A i, j \in M : i < j => PlaceAmong(M, i) < PlaceAmong(M, j)
         /\ \A i, j \in M : PlaceAmong(M, i) = PlaceAmong(M, j) => i = j
         /\ \A k \in 1 .. Cardinality(M) : \E i \in M : PlaceAmong(M, i) = k
<1> DEFINE n == Cardinality(M)
           UpTo(i) == {k \in M : k <= i}
<1>1. n \in Nat
  BY FS_CardinalityType
<1>2. ASSUME NEW i \in M
      PROVE  /\ IsFiniteSet(UpTo(i)) /\ Cardinality(UpTo(i)) \in Nat
             /\ Cardinality(UpTo(i)) <= n
  <2>1. UpTo(i) \in SUBSET M
    OBVIOUS
  <2>2. IsFiniteSet(UpTo(i)) /\ Cardinality(UpTo(i)) <= n
    BY <2>1, FS_Subset
  <2> QED
    BY <2>2, FS_CardinalityType
<1>3. ASSUME NEW i \in M, NEW j \in M, i < j
      PROVE  PlaceAmong(M, i) < PlaceAmong(M, j)
  <2>1. i \in Nat /\ j \in Nat /\ \A k \in M : k \in Nat
    OBVIOUS
  <2>2. /\ UpTo(i) \in SUBSET UpTo(j)
        /\ j \in UpTo(j) /\ j \notin UpTo(i)
    <3>1. \A k \in M : k <= i => k <= j
      BY <1>3, <2>1
    <3>2. j <= j /\ ~(j <= i)
      BY <1>3, <2>1
    <3> QED
      BY <3>1, <3>2
  <2>3. IsFiniteSet(UpTo(j))
    BY <1>2
  <2>4. /\ Cardinality(UpTo(i)) <= Cardinality(UpTo(j))
        /\ Cardinality(UpTo(i)) # Cardinality(UpTo(j))
    BY <2>2, <2>3, FS_Subset
  <2>5. Cardinality(UpTo(i)) \in Nat /\ Cardinality(UpTo(j)) \in Nat
    BY <1>2
  <2> QED
    BY <2>4, <2>5 DEF PlaceAmong
<1>4. ASSUME NEW i \in M
      PROVE  PlaceAmong(M, i) \in 1 .. n
  <2>1. i \in UpTo(i)
    OBVIOUS
  <2>2. Cardinality(UpTo(i)) # 0
    BY <1>2, <2>1, FS_EmptySet
  <2> QED
    BY <1>1, <1>2, <2>2 DEF PlaceAmong
<1>5. ASSUME NEW i \in M, NEW j \in M, PlaceAmong(M, i) = PlaceAmong(M, j)
      PROVE  i = j
  <2>1. ~(i < j) /\ ~(j < i)
    BY <1>1, <1>3, <1>4, <1>5
  <2> QED
    BY <2>1
<1> DEFINE place == [i \in M |-> PlaceAmong(M, i)]
<1>6. IsFiniteSet(1 .. n) /\ Cardinality(1 .. n) = n
  <2>1. /\ IsFiniteSet(1 .. n)
        /\ Cardinality(1 .. n) = IF 1 > n THEN 0 ELSE n - 1 + 1
    BY <1>1, FS_Interval
  <2> QED
    BY <1>1, <2>1
<1>7. place \in Injection(M, 1 .. n)
  BY <1>4, <1>5 DEF Injection, IsInjective
<1>8. place \in Surjection(M, 1 .. n)
  BY <1>6, <1>7, FS_Injection
<1> QED
  BY <1>1, <1>3, <1>4, <1>5, <1>8 DEF Surjection

-----------------------------------------------------------------------------
(* The loop of normalized_path. *)

\* w holds what the loop has after each of the first m components.
Walks(path, m, w) ==
  w = [n \in 0 .. m |-> IF n = 0 THEN <<>> ELSE Walk(w[n - 1], path[n])]

\* The loop runs to its end.
LEMMA WalkExists ==
  ASSUME NEW path, NEW m \in Nat
  PROVE  \E w : Walks(path, m, w)
<1> DEFINE Stuck == {n \in Nat : \A w : ~Walks(path, n, w)}
<1>1. 0 \notin Stuck
  <2> DEFINE w == [n \in 0 .. 0 |-> <<>>]
  <2>1. w = [n \in 0 .. 0 |-> IF n = 0 THEN <<>> ELSE Walk(w[n - 1], path[n])]
    OBVIOUS
  <2> HIDE DEF w
  <2> QED
    BY <2>1 DEF Walks
<1>2. ASSUME NEW n \in Nat, n \notin Stuck
      PROVE  n + 1 \notin Stuck
  <2>1. PICK w : Walks(path, n, w)
    BY <1>2
  <2> DEFINE longer == [k \in 0 .. n + 1 |->
                          IF k = n + 1 THEN Walk(w[n], path[n + 1]) ELSE w[k]]
             again == [k \in 0 .. n + 1 |->
                         IF k = 0 THEN <<>> ELSE Walk(longer[k - 1], path[k])]
  <2>2. \A k \in 0 .. n :
          w[k] = IF k = 0 THEN <<>> ELSE Walk(w[k - 1], path[k])
    BY <2>1 DEF Walks
  <2>3. ASSUME NEW k \in 0 .. n + 1
        PROVE  longer[k] = again[k]
    <3>1. CASE k = n + 1
      <4>1. longer[k - 1] = w[n] /\ k # 0
        BY <3>1
      <4> QED
        BY <3>1, <4>1
    <3>2. CASE k # n + 1 /\ k # 0
      <4>1. longer[k - 1] = w[k - 1] /\ longer[k] = w[k] /\ k \in 0 .. n
        BY <3>2
      <4> QED
        BY <2>2, <3>2, <4>1
    <3>3. CASE k = 0
      BY <2>2, <3>3
    <3> QED
      BY <3>1, <3>2, <3>3
  <2>4. longer = again
    BY <2>3
  <2> HIDE DEF longer
  <2>5. Walks(path, n + 1, longer)
    BY <2>4 DEF Walks
  <2> QED
    BY <2>5
<1> HIDE DEF Stuck
<1>3. Stuck = {}
  <2>1. Stuck \subseteq Nat
    BY DEF Stuck
  <2> QED
    BY <1>1, <1>2, <2>1, FirstFailure
<1> QED
  BY <1>3 DEF Stuck

\* What normalized_path returns is what its loop ends with.
LEMMA Walked ==
  ASSUME NEW path, Len(path) \in Nat
  PROVE  \E w : /\ w[0] = <<>>
                /\ \A n \in 0 .. Len(path) - 1 :
                     w[n + 1] = Walk(w[n], path[n + 1])
                /\ NormalizedPath(path) = w[Len(path)]
<1> DEFINE W == CHOOSE w : Walks(path, Len(path), w)
<1>1. Walks(path, Len(path), W)
  BY WalkExists
<1>2. NormalizedPath(path) = W[Len(path)]
  BY DEF NormalizedPath, Walks
<1> HIDE DEF W
<1>3. \A k \in 0 .. Len(path) :
        W[k] = IF k = 0 THEN <<>> ELSE Walk(W[k - 1], path[k])
  BY <1>1 DEF Walks
<1>4. ASSUME NEW n \in 0 .. Len(path) - 1
      PROVE  W[n + 1] = Walk(W[n], path[n + 1])
  <2>1. n + 1 \in 0 .. Len(path) /\ n + 1 # 0 /\ (n + 1) - 1 = n
    OBVIOUS
  <2> QED
    BY <1>3, <2>1
<1>5. W[0] = <<>>
  BY <1>3
<1> QED
  BY <1>2, <1>4, <1>5

-----------------------------------------------------------------------------
(* What the loop holds. *)

\* Of the first n components of a path, the names no later one takes back.
Kept(path, n) ==
  {i \in 1 .. n :
     /\ path[i] \in Names
     /\ \A j \in i + 1 .. n :
          Count(path, i, j, {".."}) <= Count(path, i, j, Names)}

Behind(path, n, i) == {k \in Kept(path, n) : k > i}

\* Behind a name that is kept, as many are kept as a ".." each would take to
\* get back to it.
Balanced(path, n) ==
  \A i \in Kept(path, n) :
    Count(path, i, n, {".."}) + Cardinality(Behind(path, n, i))
      = Count(path, i, n, Names)

\* parts is the names kept, in their order.
Shows(path, n, parts) ==
  LET kept == Kept(path, n)
  IN /\ parts \in Seq(Names) /\ Len(parts) = Cardinality(kept)
     /\ \A i \in kept : parts[PlaceAmong(kept, i)] = path[i]

\* Counting one component more.
LEMMA CountNext ==
  ASSUME NEW path, NEW i \in Nat, NEW n \in Nat, i <= n, NEW C
  PROVE  /\ Count(path, i, n, C) \in Nat
         /\ Count(path, i, i, C) = 0
         /\ path[n + 1] \in C => Count(path, i, n + 1, C) = Count(path, i, n, C) + 1
         /\ path[n + 1] \notin C => Count(path, i, n + 1, C) = Count(path, i, n, C)
<1> DEFINE At(j) == {k \in i + 1 .. j : path[k] \in C}
<1>1. IsFiniteSet(At(n)) /\ Cardinality(At(n)) \in Nat
  <2>1. IsFiniteSet(i + 1 .. n)
    BY FS_Interval
  <2>2. At(n) \in SUBSET (i + 1 .. n)
    OBVIOUS
  <2>3. IsFiniteSet(At(n))
    BY <2>1, <2>2, FS_Subset
  <2> QED
    BY <2>3, FS_CardinalityType
<1>2. At(i) = {}
  OBVIOUS
<1>3. path[n + 1] \in C => At(n + 1) = At(n) \cup {n + 1} /\ n + 1 \notin At(n)
  OBVIOUS
<1>4. path[n + 1] \notin C => At(n + 1) = At(n)
  <2> SUFFICES ASSUME path[n + 1] \notin C PROVE At(n + 1) = At(n)
    OBVIOUS
  <2>1. \A k \in i + 1 .. n + 1 : path[k] \in C => k \in i + 1 .. n
    OBVIOUS
  <2>2. \A k \in i + 1 .. n : k \in i + 1 .. n + 1
    OBVIOUS
  <2> QED
    BY <2>1, <2>2
<1> HIDE DEF At
<1>5. Cardinality(At(i)) = 0
  BY <1>2, FS_EmptySet
<1>6. path[n + 1] \in C => Cardinality(At(n + 1)) = Cardinality(At(n)) + 1
  BY <1>1, <1>3, FS_AddElement
<1> QED
  BY <1>1, <1>4, <1>5, <1>6 DEF At, Count

\* What is kept is finite, and none of it is taken back by what comes next.
LEMMA KeptFacts ==
  ASSUME NEW path, NEW n \in Nat
  PROVE  /\ IsFiniteSet(Kept(path, n)) /\ Kept(path, n) \subseteq Nat
         /\ \A i \in Kept(path, n) :
              /\ i \in 1 .. n /\ path[i] \in Names
              /\ Count(path, i, n, {".."}) <= Count(path, i, n, Names)
              /\ IsFiniteSet(Behind(path, n, i))
              /\ Cardinality(Behind(path, n, i)) \in Nat
<1>1. IsFiniteSet(1 .. n)
  BY FS_Interval
<1>2. Kept(path, n) \in SUBSET (1 .. n)
  BY DEF Kept
<1>3. IsFiniteSet(Kept(path, n)) /\ Kept(path, n) \subseteq Nat
  BY <1>1, <1>2, FS_Subset
<1>4. ASSUME NEW i \in Kept(path, n)
      PROVE  /\ i \in 1 .. n /\ path[i] \in Names
             /\ Count(path, i, n, {".."}) <= Count(path, i, n, Names)
  <2>1. i \in 1 .. n /\ path[i] \in Names
    BY DEF Kept
  <2>2. CASE i = n
    <3>1. Count(path, i, i, {".."}) = 0 /\ Count(path, i, i, Names) = 0
      BY <2>1, CountNext
    <3> QED
      BY <2>1, <2>2, <3>1
  <2>3. CASE i # n
    <3>1. n \in i + 1 .. n
      BY <2>1, <2>3
    <3> QED
      BY <2>1, <3>1 DEF Kept
  <2> QED
    BY <2>1, <2>2, <2>3
<1>5. ASSUME NEW i \in Kept(path, n)
      PROVE  /\ IsFiniteSet(Behind(path, n, i))
             /\ Cardinality(Behind(path, n, i)) \in Nat
  <2>1. Behind(path, n, i) \in SUBSET Kept(path, n)
    BY DEF Behind
  <2>2. IsFiniteSet(Behind(path, n, i))
    BY <1>3, <2>1, FS_Subset
  <2> QED
    BY <2>2, FS_CardinalityType
<1> QED
  BY <1>3, <1>4, <1>5

\* What of the names kept is still kept with one component more.
LEMMA KeptNext ==
  ASSUME NEW path, NEW n \in Nat
  PROVE  /\ \A i \in 1 .. n :
              i \in Kept(path, n + 1) <=>
                /\ i \in Kept(path, n)
                /\ Count(path, i, n + 1, {".."}) <= Count(path, i, n + 1, Names)
         /\ n + 1 \in Kept(path, n + 1) <=> path[n + 1] \in Names
         /\ \A i \in Kept(path, n + 1) : i \in 1 .. n \/ i = n + 1
<1>1. ASSUME NEW i \in 1 .. n
      PROVE  i \in Kept(path, n + 1) <=>
               /\ i \in Kept(path, n)
               /\ Count(path, i, n + 1, {".."}) <= Count(path, i, n + 1, Names)
  <2>1. i + 1 .. n + 1 = (i + 1 .. n) \cup {n + 1}
    OBVIOUS
  <2>2. i \in 1 .. n + 1
    OBVIOUS
  <2> QED
    BY <2>1, <2>2 DEF Kept
<1>2. n + 1 \in Kept(path, n + 1) <=> path[n + 1] \in Names
  <2>1. (n + 1) + 1 .. n + 1 = {} /\ n + 1 \in 1 .. n + 1
    OBVIOUS
  <2> QED
    BY <2>1 DEF Kept
<1>3. \A i \in Kept(path, n + 1) : i \in 1 .. n \/ i = n + 1
  <2>1. \A i \in Kept(path, n + 1) : i \in 1 .. n + 1
    BY DEF Kept
  <2> QED
    BY <2>1
<1> QED
  BY <1>1, <1>2, <1>3

\* "/" and "." change nothing.
LEMMA StayStep ==
  ASSUME NEW path, NEW n \in Nat, NEW parts, path[n + 1] \in {"/", "."},
         Shows(path, n, parts), Balanced(path, n)
  PROVE  Shows(path, n + 1, Walk(parts, path[n + 1])) /\ Balanced(path, n + 1)
<1>1. path[n + 1] \notin Names /\ path[n + 1] \notin {".."}
  BY FsAssumption
<1>2. ASSUME NEW i \in 1 .. n
      PROVE  /\ Count(path, i, n + 1, {".."}) = Count(path, i, n, {".."})
             /\ Count(path, i, n + 1, Names) = Count(path, i, n, Names)
  BY <1>1, CountNext
<1>3. Kept(path, n + 1) = Kept(path, n)
  <2>1. \A i \in 1 .. n : i \in Kept(path, n + 1) <=> i \in Kept(path, n)
    BY <1>2, KeptNext, KeptFacts
  <2>2. \A i \in Kept(path, n + 1) : i \in 1 .. n
    <3>1. n + 1 \notin Kept(path, n + 1)
      BY <1>1, KeptNext
    <3> QED
      BY <3>1, KeptNext
  <2>3. \A i \in Kept(path, n) : i \in 1 .. n
    BY KeptFacts
  <2> QED
    BY <2>1, <2>2, <2>3
<1>4. Walk(parts, path[n + 1]) = parts
  BY DEF Walk
<1>5. \A i \in Kept(path, n) : i \in 1 .. n /\ Behind(path, n + 1, i) = Behind(path, n, i)
  BY <1>3, KeptFacts DEF Behind
<1>6. Balanced(path, n + 1)
  BY <1>2, <1>3, <1>5 DEF Balanced
<1> QED
  BY <1>3, <1>4, <1>6 DEF Shows

\* A name is kept, behind all others.
LEMMA NameStep ==
  ASSUME NEW path, NEW n \in Nat, NEW parts, path[n + 1] \in Names,
         Shows(path, n, parts), Balanced(path, n)
  PROVE  Shows(path, n + 1, Walk(parts, path[n + 1])) /\ Balanced(path, n + 1)
<1> DEFINE kept == Kept(path, n)
           more == Kept(path, n + 1)
           name == path[n + 1]
<1>1. name \notin {"/", ".", ".."}
  BY FsAssumption
<1>2. ASSUME NEW i \in 1 .. n
      PROVE  /\ Count(path, i, n + 1, {".."}) = Count(path, i, n, {".."})
             /\ Count(path, i, n + 1, Names) = Count(path, i, n, Names) + 1
             /\ Count(path, i, n, {".."}) \in Nat /\ Count(path, i, n, Names) \in Nat
  BY <1>1, CountNext
<1>3. /\ IsFiniteSet(kept) /\ kept \subseteq Nat
      /\ \A i \in kept : /\ i \in 1 .. n /\ ~(n + 1 <= i) /\ i <= n + 1
                         /\ Count(path, i, n, {".."}) <= Count(path, i, n, Names)
  BY KeptFacts
<1>4. more = kept \cup {n + 1} /\ n + 1 \notin kept
  <2>1. ASSUME NEW i \in kept
        PROVE  i \in more
    <3>1. Count(path, i, n + 1, {".."}) <= Count(path, i, n + 1, Names)
      BY <1>2, <1>3
    <3> QED
      BY <1>3, <3>1, KeptNext
  <2>2. ASSUME NEW i \in more, i # n + 1
        PROVE  i \in kept
    <3>1. i \in 1 .. n
      BY <2>2, KeptNext
    <3> QED
      BY <3>1, KeptNext
  <2>3. n + 1 \in more
    BY KeptNext
  <2> QED
    BY <1>3, <2>1, <2>2, <2>3
<1> HIDE DEF kept, more, name
<1>5. Cardinality(more) = Cardinality(kept) + 1 /\ Cardinality(kept) \in Nat
  BY <1>3, <1>4, FS_AddElement, FS_CardinalityType
<1>6. Walk(parts, name) = Append(parts, name)
  BY <1>1 DEF Walk
<1>7. /\ Append(parts, name) \in Seq(Names)
      /\ Len(Append(parts, name)) = Len(parts) + 1
      /\ \A k \in 1 .. Len(parts) : Append(parts, name)[k] = parts[k]
      /\ Append(parts, name)[Len(parts) + 1] = name
  BY AppendProperties DEF Shows, name
<1>8. ASSUME NEW i \in kept
      PROVE  Append(parts, name)[PlaceAmong(more, i)] = path[i]
  <2>1. {k \in more : k <= i} = {k \in kept : k <= i}
    BY <1>3, <1>4
  <2>2. PlaceAmong(more, i) = PlaceAmong(kept, i)
    BY <2>1 DEF PlaceAmong
  <2>3. PlaceAmong(kept, i) \in 1 .. Len(parts) /\ parts[PlaceAmong(kept, i)] = path[i]
    BY <1>3, Places DEF Shows, kept
  <2> QED
    BY <1>7, <2>2, <2>3
<1>9. Append(parts, name)[PlaceAmong(more, n + 1)] = path[n + 1]
  <2>1. {k \in more : k <= n + 1} = more
    <3>1. \A k \in more : k <= n + 1
      BY <1>3, <1>4
    <3> QED
      BY <3>1
  <2>2. PlaceAmong(more, n + 1) = Len(parts) + 1
    BY <1>5, <2>1 DEF PlaceAmong, Shows, kept
  <2> QED
    BY <1>7, <2>2 DEF name
<1>10. Shows(path, n + 1, Append(parts, name))
  <2>1. Len(Append(parts, name)) = Cardinality(more)
    BY <1>5, <1>7 DEF Shows, kept
  <2> QED
    BY <1>4, <1>7, <1>8, <1>9, <2>1 DEF Shows, more
<1>11. Balanced(path, n + 1)
  <2>1. ASSUME NEW i \in kept
        PROVE  Count(path, i, n + 1, {".."}) + Cardinality(Behind(path, n + 1, i))
                 = Count(path, i, n + 1, Names)
    <3>1. Behind(path, n + 1, i) = Behind(path, n, i) \cup {n + 1}
      BY <1>3, <1>4 DEF Behind, kept, more
    <3>2. /\ IsFiniteSet(Behind(path, n, i)) /\ n + 1 \notin Behind(path, n, i)
          /\ Cardinality(Behind(path, n, i)) \in Nat
      BY <1>4, KeptFacts DEF Behind, kept
    <3>3. Cardinality(Behind(path, n + 1, i)) = Cardinality(Behind(path, n, i)) + 1
      BY <3>1, <3>2, FS_AddElement
    <3>4. Count(path, i, n, {".."}) + Cardinality(Behind(path, n, i))
            = Count(path, i, n, Names)
      BY DEF Balanced, kept
    <3> QED
      BY <1>2, <1>3, <3>2, <3>3, <3>4
  <2>2. Count(path, n + 1, n + 1, {".."}) + Cardinality(Behind(path, n + 1, n + 1))
          = Count(path, n + 1, n + 1, Names)
    <3>1. \A k \in more : ~(k > n + 1)
      BY <1>3, <1>4
    <3>2. Behind(path, n + 1, n + 1) = {}
      BY <3>1 DEF Behind, more
    <3>3. Cardinality(Behind(path, n + 1, n + 1)) = 0
      BY <3>2, FS_EmptySet
    <3>4. n + 1 \in Nat /\ n + 1 <= n + 1
      OBVIOUS
    <3>5. \A C : Count(path, n + 1, n + 1, C) = 0
      BY <3>4, CountNext
    <3> QED
      BY <3>3, <3>5
  <2> QED
    BY <1>4, <2>1, <2>2 DEF Balanced, more
<1> QED
  BY <1>6, <1>10, <1>11 DEF name

\* ".." takes back the last name that is kept, if there is one.
LEMMA ParentStep ==
  ASSUME NEW path, NEW n \in Nat, NEW parts, path[n + 1] = "..",
         Shows(path, n, parts), Balanced(path, n)
  PROVE  Shows(path, n + 1, Walk(parts, path[n + 1])) /\ Balanced(path, n + 1)
<1> DEFINE kept == Kept(path, n)
           rest == Kept(path, n + 1)
<1>1. path[n + 1] \in {".."} /\ path[n + 1] \notin Names
  BY FsAssumption
<1>2. ASSUME NEW i \in 1 .. n
      PROVE  /\ Count(path, i, n + 1, {".."}) = Count(path, i, n, {".."}) + 1
             /\ Count(path, i, n + 1, Names) = Count(path, i, n, Names)
             /\ Count(path, i, n, {".."}) \in Nat /\ Count(path, i, n, Names) \in Nat
  BY <1>1, CountNext
<1>3. /\ IsFiniteSet(kept) /\ kept \subseteq Nat
      /\ \A i \in kept : /\ i \in 1 .. n
                         /\ IsFiniteSet(Behind(path, n, i))
                         /\ Cardinality(Behind(path, n, i)) \in Nat
                         /\ Count(path, i, n, {".."}) + Cardinality(Behind(path, n, i))
                              = Count(path, i, n, Names)
  BY KeptFacts DEF Balanced
<1>4. rest = {i \in kept : Behind(path, n, i) # {}}
  <2>1. ASSUME NEW i \in kept
        PROVE  i \in rest <=> Behind(path, n, i) # {}
    <3>1. i \in rest <=> Cardinality(Behind(path, n, i)) >= 1
      BY <1>2, <1>3, KeptNext
    <3>2. Cardinality(Behind(path, n, i)) = 0 <=> Behind(path, n, i) = {}
      BY <1>3, FS_EmptySet
    <3> QED
      BY <1>3, <3>1, <3>2
  <2>2. ASSUME NEW i \in rest
        PROVE  i \in kept
    <3>1. n + 1 \notin rest
      BY <1>1, KeptNext
    <3>2. i \in 1 .. n
      BY <3>1, KeptNext
    <3> QED
      BY <3>2, KeptNext
  <2> QED
    BY <2>1, <2>2
<1>5. CASE kept = {}
  <2>1. rest = {}
    BY <1>4, <1>5
  <2>2. Len(parts) = 0
    BY <1>5, FS_EmptySet DEF Shows
  <2>3. parts = <<>>
    BY <2>2, EmptySeq DEF Shows
  <2>4. Walk(parts, path[n + 1]) = parts
    BY <2>3 DEF Walk
  <2> QED
    BY <1>5, <2>1, <2>4 DEF Shows, Balanced
<1>6. CASE kept # {}
  <2>1. Cardinality(kept) \in Nat /\ Cardinality(kept) # 0
    BY <1>3, <1>6, FS_EmptySet, FS_CardinalityType
  <2>2. PICK last \in kept : PlaceAmong(kept, last) = Cardinality(kept)
    BY <1>3, <2>1, Places
  <2>3. \A i \in kept : PlaceAmong(kept, i) \in Nat /\ PlaceAmong(kept, i) <= Cardinality(kept)
    BY <1>3, Places
  <2>4. \A i \in kept : i <= last
    <3> SUFFICES ASSUME NEW i \in kept, last < i PROVE FALSE
      BY <1>3
    <3>1. PlaceAmong(kept, last) < PlaceAmong(kept, i)
      BY <1>3, Places
    <3> QED
      BY <2>1, <2>2, <2>3, <3>1
  <2>5. rest = kept \ {last}
    <3>1. Behind(path, n, last) = {}
      BY <1>3, <2>4 DEF Behind
    <3>2. \A i \in kept \ {last} : last \in Behind(path, n, i)
      BY <1>3, <2>4 DEF Behind
    <3> QED
      BY <1>4, <3>1, <3>2
  <2>6. Cardinality(rest) = Cardinality(kept) - 1
    BY <1>3, <2>5, FS_RemoveElement
  <2>7. Walk(parts, path[n + 1]) = SubSeq(parts, 1, Len(parts) - 1)
    <3>1. parts # <<>>
      BY <2>1, EmptySeq DEF Shows
    <3> QED
      BY <3>1 DEF Walk, Front
  <2> DEFINE front == SubSeq(parts, 1, Len(parts) - 1)
  <2>8. /\ parts \in Seq(Names) /\ Len(parts) = Cardinality(kept)
        /\ \A i \in kept : parts[PlaceAmong(kept, i)] = path[i]
    BY DEF Shows
  <2> HIDE DEF kept, rest
  <2>9. /\ front \in Seq(Names) /\ Len(front) = Len(parts) - 1
        /\ \A k \in 1 .. Len(parts) - 1 : front[k] = parts[k]
    <3>1. \A k \in 1 .. Len(parts) - 1 : parts[k] \in Names
      BY <2>8, ElementOfSeq
    <3>2. 1 \in Int /\ Len(parts) - 1 \in Int
      BY <2>1, <2>8
    <3>3. /\ front \in Seq(Names)
          /\ Len(front) = IF 1 <= Len(parts) - 1 THEN Len(parts) - 1 - 1 + 1 ELSE 0
          /\ \A k \in 1 .. Len(parts) - 1 - 1 + 1 : front[k] = parts[1 + k - 1]
      BY <3>1, <3>2, SubSeqProperties
    <3> HIDE DEF front
    <3> QED
      BY <2>1, <2>8, <3>3
  <2> HIDE DEF front
  <2>10. ASSUME NEW i \in rest
         PROVE  front[PlaceAmong(rest, i)] = path[i]
    <3>1. i \in kept /\ i # last /\ i < last
      BY <1>3, <2>4, <2>5
    <3>2. {k \in rest : k <= i} = {k \in kept : k <= i}
      BY <1>3, <2>5, <3>1
    <3>3. PlaceAmong(rest, i) = PlaceAmong(kept, i)
      BY <3>2 DEF PlaceAmong
    <3>4. /\ PlaceAmong(kept, i) \in 1 .. Cardinality(kept)
          /\ PlaceAmong(kept, i) < PlaceAmong(kept, last)
      BY <1>3, <3>1, Places
    <3>5. PlaceAmong(kept, i) \in 1 .. Len(parts) - 1
      BY <2>1, <2>2, <2>8, <3>4
    <3> QED
      BY <2>8, <2>9, <3>1, <3>3, <3>5
  <2>11. Shows(path, n + 1, front)
    BY <2>6, <2>8, <2>9, <2>10 DEF Shows, rest
  <2>12. ASSUME NEW i \in rest
         PROVE  Count(path, i, n + 1, {".."}) + Cardinality(Behind(path, n + 1, i))
                  = Count(path, i, n + 1, Names)
    <3>1. i \in kept /\ i # last
      BY <2>5
    <3>2. /\ Behind(path, n + 1, i) = Behind(path, n, i) \ {last}
          /\ last \in Behind(path, n, i)
      BY <1>3, <2>4, <2>5, <3>1 DEF Behind, kept, rest
    <3>3. Cardinality(Behind(path, n + 1, i)) = Cardinality(Behind(path, n, i)) - 1
      BY <1>3, <3>1, <3>2, FS_RemoveElement
    <3> QED
      BY <1>2, <1>3, <3>1, <3>3
  <2>13. Balanced(path, n + 1)
    BY <2>12 DEF Balanced, rest
  <2> QED
    BY <2>7, <2>11, <2>13 DEF front
<1> QED
  BY <1>5, <1>6

\* normalized_path finds what a path denotes.
LEMMA Normalized ==
  ASSUME NEW path \in Seq(Components)
  PROVE  NormalizedPath(path) = Denotes(path) /\ NormalizedPath(path) \in Locations
<1> DEFINE L == Len(path)
<1>1. L \in Nat /\ DOMAIN path = 1 .. L /\ \A i \in 1 .. L : path[i] \in Components
  BY LenProperties, ElementOfSeq
<1>2. PICK w : /\ w[0] = <<>>
               /\ \A n \in 0 .. L - 1 : w[n + 1] = Walk(w[n], path[n + 1])
               /\ NormalizedPath(path) = w[L]
  BY <1>1, Walked
<1> HIDE DEF L
<1> DEFINE Right(n) == Shows(path, n, w[n]) /\ Balanced(path, n)
           Wrong == {n \in 0 .. L : ~Right(n)}
<1>3. Right(0)
  <2>1. Kept(path, 0) = {}
    BY DEF Kept
  <2>2. Cardinality({}) = 0 /\ <<>> \in Seq(Names) /\ Len(<<>>) = 0
    BY FS_EmptySet, EmptySeq
  <2> QED
    BY <1>2, <2>1, <2>2 DEF Shows, Balanced
<1>4. ASSUME NEW n \in Nat, n + 1 \in 0 .. L, Right(n)
      PROVE  Right(n + 1)
  <2>1. n \in 0 .. L - 1 /\ n + 1 \in 1 .. L
    BY <1>1, <1>4
  <2>2. w[n + 1] = Walk(w[n], path[n + 1])
    BY <1>2, <2>1
  <2>3. path[n + 1] \in {"/", "."} \/ path[n + 1] \in Names \/ path[n + 1] = ".."
    BY <1>1, <2>1 DEF Components
  <2>4. Shows(path, n + 1, Walk(w[n], path[n + 1])) /\ Balanced(path, n + 1)
    BY <1>4, <2>3, StayStep, NameStep, ParentStep
  <2> QED
    BY <2>2, <2>4
<1>5. Wrong = {}
  <2>1. Wrong \subseteq Nat /\ 0 \notin Wrong
    BY <1>3
  <2>2. \A n \in Nat : n \notin Wrong => n + 1 \notin Wrong
    <3> SUFFICES ASSUME NEW n \in Nat, n \notin Wrong, n + 1 \in 0 .. L
                 PROVE  Right(n + 1)
      OBVIOUS
    <3>1. n \in 0 .. L
      BY <1>1
    <3> QED
      BY <1>4, <3>1
  <2> HIDE DEF Wrong
  <2> QED
    BY <2>1, <2>2, FirstFailure
<1>6. Shows(path, L, w[L])
  <2>1. L \in 0 .. L
    BY <1>1
  <2> QED
    BY <1>5, <2>1
<1> DEFINE kept == {i \in DOMAIN path : Survives(path, i)}
           At(k) == CHOOSE i \in kept : PlaceAmong(kept, i) = k
<1>7. kept = Kept(path, L)
  BY <1>1 DEF Kept, Survives, L
<1>8. IsFiniteSet(kept) /\ kept \subseteq Nat
  BY <1>1, <1>7, KeptFacts
<1>9. /\ w[L] \in Seq(Names) /\ Len(w[L]) = Cardinality(kept)
      /\ \A i \in kept : w[L][PlaceAmong(kept, i)] = path[i]
  BY <1>6, <1>7 DEF Shows
<1>10. Denotes(path) = [k \in 1 .. Cardinality(kept) |-> path[At(k)]]
  BY DEF Denotes
<1> HIDE DEF kept
<1>11. ASSUME NEW k \in 1 .. Cardinality(kept)
       PROVE  w[L][k] = path[At(k)]
  <2>1. At(k) \in kept /\ PlaceAmong(kept, At(k)) = k
    BY <1>8, Places
  <2> HIDE DEF At
  <2> QED
    BY <1>9, <2>1
<1> HIDE DEF At
<1>12. w[L] = [k \in 1 .. Cardinality(kept) |-> w[L][k]]
  BY <1>9
<1>13. w[L] = Denotes(path)
  BY <1>10, <1>11, <1>12
<1> QED
  BY <1>2, <1>9, <1>13 DEF Locations

\* No path a guest passes is taken for another.
LEMMA GuestPathNormalized ==
  ASSUME NEW path \in GuestPaths
  PROVE  /\ NormalizedPath(path) = Denotes(path)
         /\ NormalizedPath(path) \in Locations
<1>1. path \in Seq(Components)
  BY FsAssumption DEF Components
<1> QED
  BY <1>1, Normalized

-----------------------------------------------------------------------------
(* Prefixes, parents and moved nodes. *)

\* A prefix is a shorter sequence with the same elements.
LEMMA PrefixElements ==
  ASSUME NEW s \in Locations, NEW t \in Locations
  PROVE  /\ IsPrefix(s, t) <=>
              Len(s) <= Len(t) /\ \A k \in 1 .. Len(s) : s[k] = t[k]
         /\ Len(s) \in Nat /\ Len(t) \in Nat
<1>1. Len(s) \in Nat /\ Len(t) \in Nat /\ s \in Seq(Names) /\ t \in Seq(Names)
  BY LenProperties DEF Locations
<1>2. SubSeq(s, 1, Len(s)) = s
  BY <1>1, SubSeqFull
<1>3. ASSUME Len(s) <= Len(t)
      PROVE  /\ SubSeq(t, 1, Len(s)) \in Seq(Names)
             /\ Len(SubSeq(t, 1, Len(s))) = Len(s)
             /\ \A k \in 1 .. Len(s) : SubSeq(t, 1, Len(s))[k] = t[k]
  <2>1. \A k \in 1 .. Len(s) : t[k] \in Names
    BY <1>1, <1>3, ElementOfSeq
  <2> DEFINE n == Len(s)
             part == SubSeq(t, 1, n)
  <2>2. n \in Nat
    BY <1>1
  <2> HIDE DEF n
  <2>3. /\ part \in Seq(Names)
        /\ Len(part) = IF 1 <= n THEN n - 1 + 1 ELSE 0
        /\ \A k \in 1 .. n - 1 + 1 : part[k] = t[1 + k - 1]
    BY <1>1, <2>1, <2>2, SubSeqProperties DEF n
  <2> HIDE DEF part
  <2>4. Len(part) = n /\ \A k \in 1 .. n : part[k] = t[k]
    BY <2>2, <2>3
  <2> QED
    BY <2>3, <2>4 DEF part, n
<1>4. ASSUME Len(s) <= Len(t)
      PROVE  SubSeq(t, 1, Len(s)) = s <=> \A k \in 1 .. Len(s) : s[k] = t[k]
  <2> DEFINE part == SubSeq(t, 1, Len(s))
  <2>1. /\ part \in Seq(Names) /\ Len(part) = Len(s)
        /\ \A k \in 1 .. Len(s) : part[k] = t[k]
    BY <1>3, <1>4
  <2> HIDE DEF part
  <2>2. (\A k \in 1 .. Len(s) : s[k] = t[k]) => part = s
    BY <1>1, <2>1, SeqEqual
  <2>3. part = s => \A k \in 1 .. Len(s) : s[k] = t[k]
    BY <2>1
  <2> QED
    BY <2>2, <2>3 DEF part
<1> QED
  BY <1>1, <1>2, <1>4 DEF IsPrefix

\* What a parent is, and that nothing between a node and its parent begins
\* the one and not the other.
LEMMA ParentFacts ==
  ASSUME NEW s \in Locations, s # <<>>
  PROVE  /\ Parent(s) \in Locations /\ Len(Parent(s)) = Len(s) - 1
         /\ Len(s) \in Nat \ {0}
         /\ \A k \in 1 .. Len(s) - 1 : Parent(s)[k] = s[k]
         /\ IsStrictPrefix(Parent(s), s)
         /\ \A t \in Locations : IsPrefix(t, Parent(s)) => IsStrictPrefix(t, s)
         /\ \A t \in Locations : IsPrefix(t, s) /\ t # s => IsPrefix(t, Parent(s))
<1> DEFINE n == Len(s) - 1
           up == SubSeq(s, 1, n)
<1>1. s \in Seq(Names) /\ Len(s) \in Nat /\ Len(s) # 0
  BY LenProperties, EmptySeq DEF Locations
<1>2. n \in Nat /\ Len(s) = n + 1
  BY <1>1
<1>3. \A k \in 1 .. n : s[k] \in Names
  BY <1>1, ElementOfSeq
<1> HIDE DEF n
<1>4. /\ up \in Seq(Names)
      /\ Len(up) = IF 1 <= n THEN n - 1 + 1 ELSE 0
      /\ \A k \in 1 .. n - 1 + 1 : up[k] = s[1 + k - 1]
  BY <1>2, <1>3, SubSeqProperties
<1> HIDE DEF up
<1>5. up \in Locations /\ Len(up) = n /\ \A k \in 1 .. n : up[k] = s[k]
  BY <1>2, <1>4 DEF Locations
<1>6. Parent(s) = up
  BY DEF Parent, Front, up, n
<1>7. IsStrictPrefix(up, s)
  BY <1>2, <1>5, PrefixElements DEF IsStrictPrefix
<1>8. ASSUME NEW t \in Locations, IsPrefix(t, up)
      PROVE  IsStrictPrefix(t, s)
  <2>1. /\ Len(t) <= n /\ Len(t) \in Nat
        /\ \A k \in 1 .. Len(t) : t[k] = up[k]
    BY <1>5, <1>8, PrefixElements
  <2>2. Len(t) <= Len(s) /\ Len(t) # Len(s) /\ \A k \in 1 .. Len(t) : t[k] = s[k]
    BY <1>2, <1>5, <2>1
  <2> QED
    BY <2>2, PrefixElements DEF IsStrictPrefix
<1>9. ASSUME NEW t \in Locations, IsPrefix(t, s), t # s
      PROVE  IsPrefix(t, up)
  <2>1. /\ Len(t) <= Len(s) /\ Len(t) \in Nat
        /\ \A k \in 1 .. Len(t) : t[k] = s[k]
    BY <1>9, PrefixElements
  <2>2. Len(t) # Len(s)
    <3> SUFFICES ASSUME Len(t) = Len(s) PROVE FALSE
      OBVIOUS
    <3>1. t \in Seq(Names)
      BY DEF Locations
    <3> QED
      BY <1>1, <1>9, <2>1, <3>1, SeqEqual
  <2>3. Len(t) <= n /\ \A k \in 1 .. Len(t) : t[k] = up[k]
    BY <1>2, <1>5, <2>1, <2>2
  <2> QED
    BY <1>5, <2>3, PrefixElements
<1>10. Len(up) = Len(s) - 1 /\ Len(s) \in Nat \ {0}
       /\ \A k \in 1 .. Len(s) - 1 : up[k] = s[k]
  BY <1>1, <1>2, <1>5
<1> QED
  BY <1>5, <1>6, <1>7, <1>8, <1>9, <1>10

\* A moved node is its new place followed by what it was below the old one.
LEMMA MovedElements ==
  ASSUME NEW from \in Locations, NEW to \in Locations, NEW s \in Locations,
         IsPrefix(from, s)
  PROVE  LET moved == MovedTo(s, from, to)
         IN /\ moved \in Locations
            /\ Len(moved) = Len(to) + (Len(s) - Len(from))
            /\ Len(from) \in Nat /\ Len(to) \in Nat /\ Len(s) - Len(from) \in Nat
            /\ \A k \in 1 .. Len(from) : s[k] = from[k]
            /\ \A k \in 1 .. Len(to) : moved[k] = to[k]
            /\ \A k \in 1 .. Len(s) - Len(from) :
                 moved[Len(to) + k] = s[Len(from) + k]
<1> DEFINE a == Len(from)
           m == Len(s)
           rest == SubSeq(s, a + 1, m)
<1>1. /\ a \in Nat /\ m \in Nat /\ a <= m /\ \A k \in 1 .. a : s[k] = from[k]
      /\ Len(to) \in Nat
  BY PrefixElements
<1>2. s \in Seq(Names) /\ to \in Seq(Names)
  BY DEF Locations
<1>3. \A k \in a + 1 .. m : s[k] \in Names
  BY <1>1, <1>2, ElementOfSeq
<1> HIDE DEF a, m
<1>4. /\ rest \in Seq(Names)
      /\ Len(rest) = IF a + 1 <= m THEN m - (a + 1) + 1 ELSE 0
      /\ \A k \in 1 .. m - (a + 1) + 1 : rest[k] = s[a + 1 + k - 1]
  <2>1. a + 1 \in Int /\ m \in Int
    BY <1>1
  <2> QED
    BY <1>3, <2>1, SubSeqProperties
<1> HIDE DEF rest
<1>5. Len(rest) = m - a /\ \A k \in 1 .. m - a : rest[k] = s[a + k]
  BY <1>1, <1>4
<1>6. MovedTo(s, from, to) = to \o rest
  BY DEF MovedTo, rest, a, m
<1>7. /\ to \o rest \in Seq(Names)
      /\ Len(to \o rest) = Len(to) + Len(rest)
      /\ \A k \in 1 .. Len(to) + Len(rest) :
           (to \o rest)[k] = IF k <= Len(to) THEN to[k] ELSE rest[k - Len(to)]
  BY <1>2, <1>4, ConcatProperties
<1>8. \A k \in 1 .. Len(to) : (to \o rest)[k] = to[k]
  BY <1>1, <1>5, <1>7
<1>9. ASSUME NEW k \in 1 .. m - a
      PROVE  (to \o rest)[Len(to) + k] = s[a + k]
  <2>1. /\ Len(to) + k \in 1 .. Len(to) + Len(rest)
        /\ ~(Len(to) + k <= Len(to)) /\ (Len(to) + k) - Len(to) = k
    BY <1>1, <1>5
  <2> QED
    BY <1>5, <1>7, <2>1
<1> QED
  BY <1>1, <1>5, <1>6, <1>7, <1>8, <1>9 DEF a, m, Locations

\* The source of a move arrives at its target, and what is below the source
\* at as much below the target: its parent with it, and no two at one place.
LEMMA MovedFacts ==
  ASSUME NEW from \in Locations \ {<<>>}, NEW to \in Locations \ {<<>>}
  PROVE  /\ MovedTo(from, from, to) = to
         /\ \A s \in Locations : IsPrefix(from, s) =>
              IsPrefix(to, MovedTo(s, from, to)) /\ s # <<>>
         /\ \A s, t \in Locations :
              /\ IsPrefix(from, s) /\ IsPrefix(from, t)
              /\ MovedTo(s, from, to) = MovedTo(t, from, to)
              => s = t
         /\ \A s \in Locations : IsPrefix(from, s) /\ s # from =>
              Parent(MovedTo(s, from, to)) = MovedTo(Parent(s), from, to)
<1> DEFINE At(s) == MovedTo(s, from, to)
<1>1. /\ Len(from) \in Nat \ {0} /\ Len(to) \in Nat \ {0}
      /\ from \in Seq(Names) /\ to \in Seq(Names)
  BY ParentFacts DEF Locations
<1>2. IsPrefix(from, from)
  BY <1>1, PrefixElements
<1>3. ASSUME NEW s \in Locations, IsPrefix(from, s)
      PROVE  /\ At(s) \in Locations /\ At(s) \in Seq(Names)
             /\ Len(s) \in Nat /\ Len(from) <= Len(s)
             /\ Len(At(s)) = Len(to) + (Len(s) - Len(from))
             /\ \A k \in 1 .. Len(from) : s[k] = from[k]
             /\ \A k \in 1 .. Len(to) : At(s)[k] = to[k]
             /\ \A k \in 1 .. Len(s) - Len(from) :
                  At(s)[Len(to) + k] = s[Len(from) + k]
  <2>1. Len(s) \in Nat /\ Len(from) <= Len(s)
    BY <1>3, PrefixElements
  <2> DEFINE moved == MovedTo(s, from, to)
  <2>2. /\ moved \in Locations
        /\ Len(moved) = Len(to) + (Len(s) - Len(from))
        /\ \A k \in 1 .. Len(from) : s[k] = from[k]
        /\ \A k \in 1 .. Len(to) : moved[k] = to[k]
        /\ \A k \in 1 .. Len(s) - Len(from) :
             moved[Len(to) + k] = s[Len(from) + k]
    <3>1. from \in Locations /\ to \in Locations
      OBVIOUS
    <3>2. moved \in Locations
      BY <1>3, <3>1, MovedElements
    <3>3. Len(moved) = Len(to) + (Len(s) - Len(from))
      BY <1>3, <3>1, MovedElements
    <3>4. \A k \in 1 .. Len(from) : s[k] = from[k]
      BY <1>3, <3>1, MovedElements
    <3>5. \A k \in 1 .. Len(to) : moved[k] = to[k]
      BY <1>3, <3>1, MovedElements
    <3>6. \A k \in 1 .. Len(s) - Len(from) :
             moved[Len(to) + k] = s[Len(from) + k]
      BY <1>3, <3>1, MovedElements
    <3> QED
      BY <3>2, <3>3, <3>4, <3>5, <3>6
  <2> HIDE DEF moved
  <2>3. moved \in Seq(Names)
    BY <2>2 DEF Locations
  <2>4. At(s) = moved
    BY DEF moved
  <2> HIDE DEF At
  <2> QED
    BY <2>1, <2>2, <2>3, <2>4
<1> HIDE DEF At
<1>4. At(from) = to
  <2>1. /\ At(from) \in Seq(Names) /\ Len(At(from)) = Len(to)
        /\ \A k \in 1 .. Len(to) : At(from)[k] = to[k]
    BY <1>1, <1>2, <1>3
  <2> QED
    BY <1>1, <2>1, SeqEqual
<1>5. ASSUME NEW s \in Locations, IsPrefix(from, s)
      PROVE  IsPrefix(to, At(s)) /\ s # <<>>
  <2>1. Len(to) <= Len(At(s)) /\ \A k \in 1 .. Len(to) : to[k] = At(s)[k]
    BY <1>1, <1>3, <1>5
  <2>2. At(s) \in Locations
    BY <1>3, <1>5
  <2>3. IsPrefix(to, At(s))
    BY <2>1, <2>2, PrefixElements
  <2>4. Len(s) # 0
    BY <1>1, <1>3, <1>5
  <2> QED
    BY <2>3, <2>4, EmptySeq
<1>6. ASSUME NEW s \in Locations, NEW t \in Locations,
             IsPrefix(from, s), IsPrefix(from, t), At(s) = At(t)
      PROVE  s = t
  <2>1. Len(s) = Len(t) /\ Len(s) \in Nat
    BY <1>1, <1>3, <1>6
  <2>2. ASSUME NEW k \in 1 .. Len(s)
        PROVE  s[k] = t[k]
    <3>1. CASE k <= Len(from)
      BY <1>1, <1>3, <1>6, <2>1, <3>1
    <3>2. CASE k > Len(from)
      <4> DEFINE j == k - Len(from)
      <4>1. j \in 1 .. Len(s) - Len(from) /\ Len(from) + j = k
        BY <1>1, <2>1, <3>2
      <4> HIDE DEF j
      <4>2. s[k] = At(s)[Len(to) + j]
        BY <1>3, <1>6, <4>1
      <4>3. t[k] = At(t)[Len(to) + j]
        BY <1>3, <1>6, <2>1, <4>1
      <4> QED
        BY <1>6, <4>2, <4>3
    <3> QED
      BY <1>1, <2>1, <3>1, <3>2
  <2>3. s \in Seq(Names) /\ t \in Seq(Names)
    BY DEF Locations
  <2> QED
    BY <2>1, <2>2, <2>3, SeqEqual
<1>7. ASSUME NEW s \in Locations, IsPrefix(from, s), s # from
      PROVE  Parent(At(s)) = At(Parent(s))
  <2> DEFINE up == Parent(s)
             n == Len(s) - Len(from)
  <2>1. s # <<>> /\ IsPrefix(to, At(s)) /\ At(s) # <<>>
    <3>1. Len(At(s)) # 0
      BY <1>1, <1>3, <1>7
    <3> QED
      BY <1>5, <1>7, <3>1, EmptySeq
  <2>2. /\ up \in Locations /\ IsPrefix(from, up) /\ Len(up) = Len(s) - 1
        /\ \A k \in 1 .. Len(s) - 1 : up[k] = s[k]
    BY <1>7, <2>1, ParentFacts
  <2>3. /\ Parent(At(s)) \in Locations /\ Len(Parent(At(s))) = Len(At(s)) - 1
        /\ \A k \in 1 .. Len(At(s)) - 1 : Parent(At(s))[k] = At(s)[k]
    BY <1>3, <1>7, <2>1, ParentFacts
  <2>4. /\ At(up) \in Locations
        /\ Len(At(up)) = Len(to) + (Len(up) - Len(from))
        /\ Len(from) <= Len(up) /\ Len(up) \in Nat
        /\ \A k \in 1 .. Len(to) : At(up)[k] = to[k]
        /\ \A k \in 1 .. Len(up) - Len(from) :
             At(up)[Len(to) + k] = up[Len(from) + k]
    BY <1>3, <2>2
  <2>5. /\ Len(s) \in Nat /\ Len(At(s)) = Len(to) + n
        /\ \A k \in 1 .. Len(to) : At(s)[k] = to[k]
        /\ \A k \in 1 .. n : At(s)[Len(to) + k] = s[Len(from) + k]
    BY <1>3, <1>7
  <2> HIDE DEF up
  <2>6. n - 1 \in Nat /\ Len(up) - Len(from) = n - 1 /\ n \in Nat
    BY <1>1, <2>2, <2>4, <2>5
  <2> HIDE DEF n
  <2>7. /\ Len(At(s)) - 1 = Len(to) + n - 1
        /\ Len(At(up)) = Len(to) + n - 1 /\ Len(Parent(At(s))) = Len(to) + n - 1
    <3>1. Len(At(s)) - 1 = Len(to) + n - 1
      BY <1>1, <2>5, <2>6
    <3>2. Len(At(up)) = Len(to) + (n - 1)
      BY <2>4, <2>6
    <3>3. Len(Parent(At(s))) = Len(to) + n - 1
      BY <2>3, <3>1
    <3> QED
      BY <1>1, <2>6, <3>1, <3>2, <3>3
  <2>8. ASSUME NEW k \in 1 .. n - 1
        PROVE  up[Len(from) + k] = s[Len(from) + k]
    <3>1. Len(from) + k \in 1 .. Len(s) - 1
      BY <1>1, <2>5, <2>6 DEF n
    <3> QED
      BY <2>2, <3>1
  <2>9. ASSUME NEW k \in 1 .. Len(to) + n - 1
        PROVE  Parent(At(s))[k] = At(up)[k]
    <3>1. Parent(At(s))[k] = At(s)[k]
      BY <2>3, <2>7
    <3>2. CASE k <= Len(to)
      <4>1. k \in 1 .. Len(to)
        BY <1>1, <2>6, <3>2
      <4> QED
        BY <2>4, <2>5, <3>1, <4>1
    <3>3. CASE k > Len(to)
      <4> DEFINE j == k - Len(to)
      <4>1. j \in 1 .. n - 1 /\ j \in 1 .. n /\ Len(to) + j = k
        BY <1>1, <2>6, <3>3
      <4> HIDE DEF j
      <4>2. At(s)[k] = s[Len(from) + j]
        BY <2>5, <4>1
      <4>3. At(up)[k] = up[Len(from) + j]
        BY <2>4, <2>6, <4>1
      <4> QED
        BY <2>8, <3>1, <4>1, <4>2, <4>3
    <3> QED
      BY <1>1, <2>6, <3>2, <3>3
  <2>10. Parent(At(s)) \in Seq(Names) /\ At(up) \in Seq(Names)
    BY <2>3, <2>4 DEF Locations
  <2>11. Parent(At(s)) = At(up)
    BY <2>7, <2>9, <2>10, SeqEqual
  <2> QED
    BY <2>11 DEF up
<1> QED
  BY <1>4, <1>5, <1>6, <1>7 DEF At

-----------------------------------------------------------------------------
(* The root file system is a tree. *)

Tree(ds, fs) ==
  /\ ds \subseteq Locations /\ fs \subseteq Locations
  /\ <<>> \in ds /\ ds \cap fs = {}
  /\ \A node \in (ds \cup fs) \ {<<>>} : Parent(node) \in ds

\* A node below an existing directory is one more node of the tree.
LEMMA GrownTree ==
  ASSUME NEW ds, NEW fs, Tree(ds, fs),
         NEW location \in Locations, location # <<>>, Parent(location) \in ds,
         location \notin ds \cup fs
  PROVE  Tree(ds \cup {location}, fs) /\ Tree(ds, fs \cup {location})
  BY DEF Tree

\* A node that nothing is below can go.
LEMMA PrunedTree ==
  ASSUME NEW ds, NEW fs, Tree(ds, fs), NEW location \in Locations \ {<<>>},
         \A node \in ds \cup fs : ~IsStrictPrefix(location, node)
  PROVE  Tree(ds \ {location}, fs) /\ Tree(ds, fs \ {location})
<1>1. ASSUME NEW node \in (ds \cup fs) \ {<<>>}
      PROVE  Parent(node) # location
  <2>1. node \in Locations
    BY DEF Tree
  <2> QED
    BY <2>1, ParentFacts
<1> QED
  BY <1>1 DEF Tree

\* A subtree moved to a place that nothing is below.
LEMMA MovedTree ==
  ASSUME NEW ds, NEW fs, Tree(ds, fs),
         NEW from \in Locations \ {<<>>}, NEW to \in Locations \ {<<>>},
         Parent(to) \in ds, ~IsPrefix(from, to),
         \A node \in ds \cup fs : ~IsStrictPrefix(to, node)
  PROVE  LET moved(nodes) == {MovedTo(node, from, to) : node \in nodes \ {to}}
         IN /\ Tree(moved(ds), moved(fs))
            /\ \A node \in (ds \cup fs) \ (moved(ds) \cup moved(fs)) :
                 node = to \/ IsPrefix(from, node)
            /\ \A node \in (moved(ds) \cup moved(fs)) \ (ds \cup fs) :
                 IsPrefix(to, node)
<1> DEFINE At(node) == MovedTo(node, from, to)
           moved(nodes) == {At(node) : node \in nodes \ {to}}
<1>1. /\ \A node \in ds \cup fs : node \in Locations
      /\ <<>> \in ds /\ ds \cap fs = {}
      /\ \A node \in ds \cup fs : node # <<>> => Parent(node) \in ds
      /\ ds \subseteq ds \cup fs
  BY DEF Tree
<1>2. \A node : ~IsPrefix(from, node) => At(node) = node
  BY DEF MovedTo
<1>3. \A node \in Locations : IsPrefix(from, node) =>
        /\ At(node) \in Locations /\ IsPrefix(to, At(node)) /\ node # <<>>
        /\ node # from => Parent(At(node)) = At(Parent(node))
  <2> SUFFICES ASSUME NEW node \in Locations, IsPrefix(from, node)
               PROVE  /\ At(node) \in Locations /\ IsPrefix(to, At(node))
                      /\ node # <<>>
                      /\ node # from => Parent(At(node)) = At(Parent(node))
    OBVIOUS
  <2>1. from \in Locations /\ to \in Locations
    OBVIOUS
  <2>2. At(node) \in Locations
    BY <2>1, MovedElements
  <2> QED
    BY <2>2, MovedFacts
<1>4. /\ At(from) = to
      /\ \A s, t \in Locations :
           IsPrefix(from, s) /\ IsPrefix(from, t) /\ At(s) = At(t) => s = t
  BY MovedFacts
<1> HIDE DEF At
<1>5. ASSUME NEW s \in (ds \cup fs) \ {to}, NEW t \in (ds \cup fs) \ {to},
             At(s) = At(t)
      PROVE  s = t
  <2>1. s \in Locations /\ t \in Locations
    BY <1>1
  <2>2. ASSUME NEW x \in (ds \cup fs) \ {to}, NEW y \in (ds \cup fs) \ {to},
               x \in Locations, IsPrefix(from, x), ~IsPrefix(from, y), At(x) = At(y)
        PROVE  FALSE
    <3>1. IsPrefix(to, y)
      BY <1>2, <1>3, <2>2
    <3>2. IsStrictPrefix(to, y)
      BY <3>1 DEF IsStrictPrefix
    <3> QED
      BY <3>2
  <2>3. CASE IsPrefix(from, s) /\ IsPrefix(from, t)
    BY <1>4, <1>5, <2>1, <2>3
  <2>4. CASE ~IsPrefix(from, s) /\ ~IsPrefix(from, t)
    BY <1>2, <1>5, <2>4
  <2>5. CASE IsPrefix(from, s) /\ ~IsPrefix(from, t)
    BY <1>5, <2>1, <2>2, <2>5
  <2>6. CASE ~IsPrefix(from, s) /\ IsPrefix(from, t)
    BY <1>5, <2>1, <2>2, <2>6
  <2> QED
    BY <2>3, <2>4, <2>5, <2>6
<1>6. \A node \in ds \cup fs : At(node) \in Locations
  BY <1>1, <1>2, <1>3
<1>7. <<>> \in moved(ds)
  <2>1. <<>> \in Locations
    BY <1>1
  <2>2. ~IsPrefix(from, <<>>) /\ <<>> \in ds \ {to}
    BY <1>1, <1>3, <2>1
  <2>3. At(<<>>) = <<>>
    BY <1>2, <2>2
  <2> QED
    BY <2>2, <2>3
<1>8. moved(ds) \cap moved(fs) = {}
  BY <1>1, <1>5
<1>9. \A up \in ds \ {to} : ~IsPrefix(from, up) => up \in moved(ds)
  BY <1>2
<1>10. ASSUME NEW s \in (ds \cup fs) \ {to}, At(s) # <<>>
       PROVE  Parent(At(s)) \in moved(ds)
  <2>1. s \in Locations
    BY <1>1
  <2>2. CASE ~IsPrefix(from, s)
    <3>1. At(s) = s /\ s # <<>>
      BY <1>2, <1>10, <2>2
    <3>2. /\ IsStrictPrefix(Parent(s), s) /\ Parent(s) \in ds
          /\ IsPrefix(from, Parent(s)) => IsStrictPrefix(from, s)
      BY <1>1, <2>1, <3>1, ParentFacts
    <3>3. Parent(s) # to /\ ~IsPrefix(from, Parent(s))
      BY <2>2, <3>2 DEF IsStrictPrefix
    <3> QED
      BY <1>9, <3>1, <3>2, <3>3
  <2>3. CASE s = from
    <3>1. /\ IsStrictPrefix(Parent(to), to)
          /\ IsPrefix(from, Parent(to)) => IsStrictPrefix(from, to)
      BY ParentFacts
    <3>2. Parent(to) # to /\ ~IsPrefix(from, Parent(to))
      BY <3>1 DEF IsStrictPrefix
    <3> QED
      BY <1>4, <1>9, <2>3, <3>2
  <2>4. CASE IsPrefix(from, s) /\ s # from
    <3>1. s # <<>> /\ Parent(At(s)) = At(Parent(s))
      BY <1>3, <2>1, <2>4
    <3>2. Parent(s) \in ds /\ IsPrefix(from, Parent(s))
      BY <1>1, <2>1, <2>4, <3>1, ParentFacts
    <3>3. Parent(s) \in ds \ {to}
      BY <3>2
    <3> QED
      BY <3>1, <3>3
  <2> QED
    BY <2>2, <2>3, <2>4
<1>11. Tree(moved(ds), moved(fs))
  <2>1. moved(ds) \subseteq Locations /\ moved(fs) \subseteq Locations
    BY <1>6
  <2>2. ASSUME NEW node \in (moved(ds) \cup moved(fs)) \ {<<>>}
        PROVE  Parent(node) \in moved(ds)
    <3>1. PICK s \in (ds \cup fs) \ {to} : node = At(s)
      BY <2>2
    <3> QED
      BY <1>10, <2>2, <3>1
  <2> HIDE DEF moved
  <2> QED
    BY <1>7, <1>8, <2>1, <2>2 DEF Tree
<1>12. ASSUME NEW node \in (ds \cup fs) \ (moved(ds) \cup moved(fs)),
              node # to
       PROVE  IsPrefix(from, node)
  BY <1>2, <1>12
<1>13. ASSUME NEW node \in (moved(ds) \cup moved(fs)) \ (ds \cup fs)
       PROVE  IsPrefix(to, node)
  <2>1. PICK s \in (ds \cup fs) \ {to} : node = At(s)
    OBVIOUS
  <2>2. IsPrefix(from, s)
    BY <1>2, <2>1
  <2> QED
    BY <1>1, <1>3, <2>1, <2>2
<1> QED
  BY <1>11, <1>12, <1>13 DEF At

-----------------------------------------------------------------------------
(* What a call does. *)

\* A path has the decoy it denotes, if that is one.
LEMMA DecoyFacts ==
  ASSUME NEW path \in GuestPaths
  PROVE  /\ DecoyFor(path) = NoDecoy => Denotes(path) \notin Decoys
         /\ DecoyFor(path) # NoDecoy =>
              DecoyFor(path) = Denotes(path) /\ Denotes(path) \in Decoys
<1>1. NormalizedPath(path) = Denotes(path)
  BY GuestPathNormalized
<1>2. NoDecoy \notin Decoys
  BY FsAssumption DEF NoDecoy
<1> QED
  BY <1>1, <1>2 DEF DecoyFor

\* The call is the honeypot's: on record, answered, and the tree left alone.
Answered(call) ==
  /\ reply' = [call |-> call,
               result |-> IF call.op = "open_read" THEN "decoy" ELSE "denied"]
  /\ UNCHANGED <<dirs, files>>
  /\ call.op # "create_dir"
  /\ \E decoy \in Decoys, operation \in {"ReadDecoy", "DenyMutation"} :
       /\ Touches(call, decoy)
       /\ operation = "ReadDecoy" <=> call.op = "open_read"
       /\ events' = Recorded(events, Event(decoy, operation))

\* How a decoy's path may get a node, or lose it.
MayAppearOrGo(call, decoy) ==
  \/ decoy \in Nodes <=> decoy \in Nodes'
  \/ /\ call.op = "create_dir" /\ Denotes(call.path) = decoy
     /\ decoy \in dirs'
  \/ /\ call.op = "rename"
     /\ \/ IsStrictPrefix(Denotes(call.path), decoy)
        \/ IsStrictPrefix(Denotes(call.to), decoy)

\* The call is the root's: nothing on record, and the tree is a tree.
PassedOn(call) ==
  /\ \E result \in {"ok", "refused"} : reply' = [call |-> call, result |-> result]
  /\ UNCHANGED events
  /\ call.op = "create_dir" \/ \A decoy \in Decoys : ~Touches(call, decoy)
  /\ Tree(dirs', files')
  /\ \A decoy \in Decoys : MayAppearOrGo(call, decoy)

\* A denied mutation of a decoy is an answer of the honeypot.
LEMMA Denied ==
  ASSUME NEW call, NEW decoy \in Decoys, Deny(call, decoy), Touches(call, decoy),
         call.op \notin {"open_read", "create_dir"}
  PROVE  Answered(call)
  BY DEF Deny, Answer, Answered

\* A call the root refuses changes nothing.
LEMMA Refused ==
  ASSUME Tree(dirs, files), NEW call, RootRefuses(call), UNCHANGED events,
         call.op = "create_dir" \/ \A decoy \in Decoys : ~Touches(call, decoy)
  PROVE  PassedOn(call)
  BY DEF RootRefuses, Answer, PassedOn, MayAppearOrGo, Nodes

\* create_dir, which asks for no decoy.
LEMMA CreateDirStep ==
  ASSUME Tree(dirs, files), NEW path \in GuestPaths, CreateDir(path)
  PROVE  PassedOn(Call("create_dir", path, <<>>))
<1> DEFINE call == Call("create_dir", path, <<>>)
           location == NormalizedPath(path)
<1>1. call.op = "create_dir" /\ call.path = path
  BY DEF Call
<1>2. location \in Locations /\ location = Denotes(path)
  BY GuestPathNormalized
<1> HIDE DEF call, location
<1>3. UNCHANGED events
  BY DEF CreateDir
<1>4. CASE RootRefuses(call)
  BY <1>1, <1>3, <1>4, Refused DEF call
<1>5. CASE RootCreatesDir(location) /\ Answer(call, "ok")
  <2>1. /\ location # <<>> /\ Parent(location) \in dirs /\ location \notin dirs \cup files
        /\ dirs' = dirs \cup {location} /\ files' = files
    BY <1>5 DEF RootCreatesDir, InDirectory, Nodes
  <2>2. Tree(dirs', files')
    BY <1>2, <2>1, GrownTree
  <2>3. \A decoy \in Decoys : MayAppearOrGo(call, decoy)
    BY <1>1, <1>2, <2>1 DEF MayAppearOrGo, Nodes
  <2> QED
    BY <1>1, <1>3, <1>5, <2>2, <2>3 DEF PassedOn, Answer, call
<1> QED
  BY <1>4, <1>5 DEF CreateDir, call, location

\* remove_dir and remove_file on what is no decoy.
LEMMA RemoveStep ==
  ASSUME Tree(dirs, files), NEW path \in GuestPaths,
         RemoveDir(path) \/ RemoveFile(path)
  PROVE  \E call : Answered(call) \/ PassedOn(call)
<1> DEFINE location == NormalizedPath(path)
<1>1. PICK call \in {Call("remove_dir", path, <<>>), Call("remove_file", path, <<>>)} :
        \/ Deny(call, DecoyFor(path))
        \/ /\ DecoyFor(path) = NoDecoy /\ UNCHANGED events
           /\ \/ /\ RootRemovesDir(location) \/ RootRemovesFile(location)
                 /\ Answer(call, "ok")
              \/ RootRefuses(call)
  BY DEF RemoveDir, RemoveFile
<1>2. call.op \in {"remove_dir", "remove_file"} /\ call.path = path
  BY DEF Call
<1>3. location \in Locations /\ location = Denotes(path)
  BY GuestPathNormalized
<1> HIDE DEF location
<1>4. CASE Deny(call, DecoyFor(path))
  <2>1. DecoyFor(path) # NoDecoy
    BY <1>4 DEF Deny
  <2>2. DecoyFor(path) \in Decoys /\ Touches(call, DecoyFor(path))
    BY <1>2, <2>1, DecoyFacts DEF Touches
  <2> QED
    BY <1>2, <1>4, <2>2, Denied
<1>5. ASSUME DecoyFor(path) = NoDecoy
      PROVE  location \notin Decoys /\ \A decoy \in Decoys : ~Touches(call, decoy)
  BY <1>2, <1>3, <1>5, DecoyFacts DEF Touches
<1>6. CASE DecoyFor(path) = NoDecoy /\ UNCHANGED events /\ RootRefuses(call)
  BY <1>5, <1>6, Refused
<1>7. CASE /\ DecoyFor(path) = NoDecoy /\ UNCHANGED events
           /\ RootRemovesDir(location) \/ RootRemovesFile(location)
           /\ Answer(call, "ok")
  <2>1. \/ /\ dirs' = dirs \ {location} /\ files' = files
           /\ location # <<>> /\ \A node \in dirs \cup files : ~IsStrictPrefix(location, node)
        \/ /\ files' = files \ {location} /\ dirs' = dirs /\ location \in files
    BY <1>7 DEF RootRemovesDir, RootRemovesFile, Below, Nodes
  <2>2. Tree(dirs', files')
    <3>1. CASE dirs' = dirs \ {location} /\ files' = files /\ location # <<>>
               /\ \A node \in dirs \cup files : ~IsStrictPrefix(location, node)
      BY <1>3, <3>1, PrunedTree
    <3>2. CASE files' = files \ {location} /\ dirs' = dirs
      BY <3>2 DEF Tree
    <3> QED
      BY <2>1, <3>1, <3>2
  <2>3. \A decoy \in Decoys : MayAppearOrGo(call, decoy)
    BY <1>5, <1>7, <2>1 DEF MayAppearOrGo, Nodes
  <2> QED
    BY <1>5, <1>7, <2>2, <2>3 DEF PassedOn, Answer
<1> QED
  BY <1>1, <1>4, <1>6, <1>7

\* open, of a decoy or of what is none.
LEMMA OpenStep ==
  ASSUME Tree(dirs, files), NEW path \in GuestPaths, NEW mutates \in BOOLEAN,
         Open(path, mutates)
  PROVE  \E call : Answered(call) \/ PassedOn(call)
<1> DEFINE call == Call(IF mutates THEN "open_write" ELSE "open_read", path, <<>>)
           location == NormalizedPath(path)
           decoy == DecoyFor(path)
<1>1. /\ call.op = IF mutates THEN "open_write" ELSE "open_read"
      /\ call.path = path
  BY DEF Call
<1>2. location \in Locations /\ location = Denotes(path)
  BY GuestPathNormalized
<1>3. \/ mutates /\ Deny(call, decoy)
      \/ /\ ~mutates /\ decoy # NoDecoy
         /\ events' = Recorded(events, Event(decoy, "ReadDecoy"))
         /\ Answer(call, "decoy")
         /\ UNCHANGED <<dirs, files>>
      \/ /\ decoy = NoDecoy /\ UNCHANGED events
         /\ \/ RootOpens(location, mutates) /\ Answer(call, "ok")
            \/ RootRefuses(call)
  BY DEF Open
<1> HIDE DEF call, location
<1>4. decoy # NoDecoy => decoy \in Decoys /\ Touches(call, decoy)
  BY <1>1, DecoyFacts DEF Touches
<1>5. decoy = NoDecoy =>
        location \notin Decoys /\ \A d \in Decoys : ~Touches(call, d)
  BY <1>1, <1>2, DecoyFacts DEF Touches
<1> HIDE DEF decoy
<1>6. CASE mutates /\ Deny(call, decoy)
  <2>1. decoy # NoDecoy
    BY <1>6 DEF Deny
  <2>2. call.op = "open_write"
    BY <1>1, <1>6
  <2> QED
    BY <1>4, <1>6, <2>1, <2>2, Denied
<1>7. CASE /\ ~mutates /\ decoy # NoDecoy
           /\ events' = Recorded(events, Event(decoy, "ReadDecoy"))
           /\ Answer(call, "decoy")
           /\ UNCHANGED <<dirs, files>>
  <2>1. call.op = "open_read"
    BY <1>1, <1>7
  <2> QED
    BY <1>4, <1>7, <2>1 DEF Answered, Answer
<1>8. CASE decoy = NoDecoy /\ UNCHANGED events /\ RootRefuses(call)
  BY <1>5, <1>8, Refused
<1>9. CASE /\ decoy = NoDecoy /\ UNCHANGED events
           /\ RootOpens(location, mutates) /\ Answer(call, "ok")
  <2>1. /\ dirs' = dirs
        /\ \/ files' = files
           \/ /\ location # <<>> /\ Parent(location) \in dirs
              /\ location \notin dirs \cup files
              /\ files' = files \cup {location}
    BY <1>9 DEF RootOpens, InDirectory, Nodes
  <2>2. Tree(dirs', files')
    <3>1. CASE files' = files
      BY <2>1, <3>1
    <3>2. CASE /\ location # <<>> /\ Parent(location) \in dirs
               /\ location \notin dirs \cup files
               /\ files' = files \cup {location}
      <4>1. Tree(dirs, files \cup {location})
        BY <1>2, <3>2, GrownTree
      <4> QED
        BY <2>1, <3>2, <4>1
    <3> QED
      BY <2>1, <3>1, <3>2
  <2>3. \A d \in Decoys : MayAppearOrGo(call, d)
    BY <1>5, <1>9, <2>1 DEF MayAppearOrGo, Nodes
  <2> QED
    BY <1>5, <1>9, <2>2, <2>3 DEF PassedOn, Answer
<1> QED
  BY <1>3, <1>6, <1>7, <1>8, <1>9

\* rename of a file or a directory with what is below it.
LEMMA RenameStep ==
  ASSUME Tree(dirs, files), NEW source \in GuestPaths, NEW target \in GuestPaths,
         Rename(source, target)
  PROVE  \E call : Answered(call) \/ PassedOn(call)
<1> DEFINE call == Call("rename", source, target)
           from == NormalizedPath(source)
           to == NormalizedPath(target)
           decoy == DecoyOfRename(source, target)
<1>1. call.op = "rename" /\ call.path = source /\ call.to = target
  BY DEF Call
<1>2. /\ from \in Locations /\ from = Denotes(source)
      /\ to \in Locations /\ to = Denotes(target)
  BY GuestPathNormalized
<1>3. \/ Deny(call, decoy)
      \/ /\ decoy = NoDecoy /\ UNCHANGED events
         /\ \/ RootRenames(from, to) /\ Answer(call, "ok")
            \/ RootRefuses(call)
  BY DEF Rename
<1> HIDE DEF call, from, to
<1>4. decoy # NoDecoy => decoy \in Decoys /\ Touches(call, decoy)
  BY <1>1, DecoyFacts DEF Touches, DecoyOfRename
<1>5. decoy = NoDecoy =>
        /\ from \notin Decoys /\ to \notin Decoys
        /\ \A d \in Decoys : ~Touches(call, d)
  <2>1. decoy = NoDecoy => DecoyFor(source) = NoDecoy /\ DecoyFor(target) = NoDecoy
    BY DEF DecoyOfRename
  <2>2. decoy = NoDecoy => Denotes(source) \notin Decoys /\ Denotes(target) \notin Decoys
    BY <2>1, DecoyFacts
  <2> QED
    BY <1>1, <1>2, <2>2 DEF Touches
<1> HIDE DEF decoy
<1>6. CASE Deny(call, decoy)
  <2>1. decoy # NoDecoy
    BY <1>6 DEF Deny
  <2> QED
    BY <1>1, <1>4, <1>6, <2>1, Denied
<1>7. CASE decoy = NoDecoy /\ UNCHANGED events /\ RootRefuses(call)
  BY <1>5, <1>7, Refused
<1>8. CASE /\ decoy = NoDecoy /\ UNCHANGED events
           /\ RootRenames(from, to) /\ Answer(call, "ok")
  <2> DEFINE moved(nodes) == {MovedTo(node, from, to) : node \in nodes \ {to}}
  <2>1. /\ from # <<>> /\ to # <<>> /\ Parent(to) \in dirs
        /\ ~IsPrefix(from, to)
        /\ \A node \in dirs \cup files : ~IsStrictPrefix(to, node)
        /\ dirs' = moved(dirs) /\ files' = moved(files)
    BY <1>8 DEF RootRenames, InDirectory, Below, Nodes
  <2>2. /\ Tree(moved(dirs), moved(files))
        /\ \A node \in (dirs \cup files) \ (moved(dirs) \cup moved(files)) :
             node = to \/ IsPrefix(from, node)
        /\ \A node \in (moved(dirs) \cup moved(files)) \ (dirs \cup files) :
             IsPrefix(to, node)
    BY <1>2, <2>1, MovedTree
  <2> HIDE DEF moved
  <2>3. ASSUME NEW d \in Decoys
        PROVE  MayAppearOrGo(call, d)
    <3>1. d # from /\ d # to
      BY <1>5, <1>8
    <3>2. CASE d \in (dirs \cup files) \ (dirs' \cup files')
      <4>1. IsStrictPrefix(from, d)
        BY <2>1, <2>2, <3>1, <3>2 DEF IsStrictPrefix
      <4> QED
        BY <1>1, <1>2, <4>1 DEF MayAppearOrGo
    <3>3. CASE d \in (dirs' \cup files') \ (dirs \cup files)
      <4>1. IsStrictPrefix(to, d)
        BY <2>1, <2>2, <3>1, <3>3 DEF IsStrictPrefix
      <4> QED
        BY <1>1, <1>2, <4>1 DEF MayAppearOrGo
    <3> QED
      BY <3>2, <3>3 DEF MayAppearOrGo, Nodes
  <2>4. Tree(dirs', files')
    BY <2>1, <2>2
  <2> QED
    BY <1>5, <1>8, <2>3, <2>4 DEF PassedOn, Answer
<1> QED
  BY <1>3, <1>6, <1>7, <1>8

\* Every call is answered from the honeypot or passed on to the root.
LEMMA NextStep ==
  ASSUME Tree(dirs, files), Next
  PROVE  \E call : Answered(call) \/ PassedOn(call)
<1>1. ASSUME NEW path \in GuestPaths, CreateDir(path)
      PROVE  \E call : Answered(call) \/ PassedOn(call)
  BY <1>1, CreateDirStep
<1>2. ASSUME NEW path \in GuestPaths, RemoveDir(path) \/ RemoveFile(path)
      PROVE  \E call : Answered(call) \/ PassedOn(call)
  BY <1>2, RemoveStep
<1>3. ASSUME NEW path \in GuestPaths, NEW mutates \in BOOLEAN, Open(path, mutates)
      PROVE  \E call : Answered(call) \/ PassedOn(call)
  BY <1>3, OpenStep
<1>4. ASSUME NEW from \in GuestPaths, NEW to \in GuestPaths, Rename(from, to)
      PROVE  \E call : Answered(call) \/ PassedOn(call)
  BY <1>4, RenameStep
<1> QED
  BY <1>1, <1>2, <1>3, <1>4 DEF Next

-----------------------------------------------------------------------------
(* The properties of the file system run. *)

EventType == [path: Decoys, operation: {"ReadDecoy", "DenyMutation"}, bytes: Nat]

\* One more event of a list within its capacity: the latest ones are kept.
LEMMA RecordedEvents ==
  ASSUME NEW S, NEW evs \in Seq(S), Len(evs) <= EventCap, NEW e \in S
  PROVE  /\ Recorded(evs, e) \in Seq(S) /\ Len(Recorded(evs, e)) <= EventCap
         /\ Recorded(evs, e) = Latest(Append(evs, e))
<1> DEFINE n == Len(evs)
           all == Append(evs, e)
<1>1. n \in Nat /\ EventCap \in Nat \ {0} /\ n <= EventCap
  BY EventCapAssumption, LenProperties
<1>2. /\ all \in Seq(S) /\ Len(all) = n + 1
      /\ \A k \in 1 .. n : all[k] = evs[k]
      /\ all[n + 1] = e
  BY AppendProperties
<1>3. /\ \A k \in 1 .. n : evs[k] \in S
      /\ \A k \in 1 .. n + 1 : all[k] \in S
  BY <1>2, ElementOfSeq
<1>4. CASE n < EventCap
  <2>1. EnforceCapacity(evs) = evs
    BY <1>1, <1>4 DEF EnforceCapacity
  <2> HIDE DEF n, all
  <2>2. Latest(all) = SubSeq(all, 1, Len(all))
    <3>1. ~(Len(all) > EventCap)
      BY <1>1, <1>2, <1>4
    <3> QED
      BY <3>1 DEF Latest
  <2>3. SubSeq(all, 1, Len(all)) = all
    BY <1>2, SubSeqFull
  <2>4. Recorded(evs, e) = all
    BY <2>1 DEF Recorded, all
  <2> QED
    BY <1>1, <1>2, <1>4, <2>2, <2>3, <2>4 DEF all
<1>5. CASE n = EventCap
  <2> DEFINE room == SubSeq(evs, 2, n)
             last == SubSeq(all, 2, n + 1)
  <2>1. EnforceCapacity(evs) = room
    <3>1. n >= EventCap /\ n + 2 - EventCap = 2
      BY <1>1, <1>5
    <3> QED
      BY <3>1 DEF EnforceCapacity
  <2> HIDE DEF n, all
  <2>2. Latest(all) = last
    <3>1. Len(all) > EventCap /\ Len(all) - EventCap + 1 = 2
      BY <1>1, <1>2, <1>5
    <3> QED
      BY <1>2, <3>1 DEF Latest
  <2>3. /\ room \in Seq(S) /\ Len(room) = n - 1
        /\ \A k \in 1 .. n - 1 : room[k] = evs[k + 1]
    <3>1. \A k \in 2 .. n : evs[k] \in S
      BY <1>1, <1>3
    <3> HIDE DEF room
    <3>2. /\ room \in Seq(S)
          /\ Len(room) = IF 2 <= n THEN n - 2 + 1 ELSE 0
          /\ \A k \in 1 .. n - 2 + 1 : room[k] = evs[2 + k - 1]
      BY <1>1, <3>1, SubSeqProperties DEF room
    <3> QED
      BY <1>1, <1>5, <3>2
  <2>4. /\ last \in Seq(S) /\ Len(last) = n
        /\ \A k \in 1 .. n : last[k] = all[k + 1]
    <3>1. \A k \in 2 .. n + 1 : all[k] \in S
      BY <1>1, <1>3
    <3> HIDE DEF last
    <3>2. /\ last \in Seq(S)
          /\ Len(last) = IF 2 <= n + 1 THEN n + 1 - 2 + 1 ELSE 0
          /\ \A k \in 1 .. n + 1 - 2 + 1 : last[k] = all[2 + k - 1]
      BY <1>1, <3>1, SubSeqProperties DEF last
    <3> QED
      BY <1>1, <1>5, <3>2
  <2> HIDE DEF room, last
  <2> DEFINE kept == Append(room, e)
  <2>5. /\ kept \in Seq(S) /\ Len(kept) = n
        /\ \A k \in 1 .. n - 1 : kept[k] = room[k]
        /\ kept[n] = e
    BY <1>1, <2>3, AppendProperties
  <2> HIDE DEF kept
  <2>6. ASSUME NEW k \in 1 .. n
        PROVE  kept[k] = last[k]
    <3>1. CASE k = n
      BY <1>1, <1>2, <2>4, <2>5, <3>1
    <3>2. CASE k # n
      <4>1. k \in 1 .. n - 1 /\ k + 1 \in 1 .. n
        BY <1>1, <3>2
      <4> QED
        BY <1>2, <2>3, <2>4, <2>5, <4>1
    <3> QED
      BY <3>1, <3>2
  <2>7. kept = last
    BY <1>1, <2>4, <2>5, <2>6, SeqEqual
  <2> QED
    BY <1>1, <2>1, <2>2, <2>5, <2>7 DEF Recorded, kept, all
<1> QED
  BY <1>1, <1>4, <1>5

\* TypeOK in the words of these proofs.
LEMMA TypeParts ==
  TypeOK <=> /\ Tree(dirs, files)
             /\ events \in Seq(EventType) /\ Len(events) <= EventCap
             /\ reply.result \in {"none", "ok", "refused", "denied", "decoy"}
  BY DEF TypeOK, Tree, Nodes, EventType

\* What is recorded of a decoy is an event.
LEMMA EventFacts ==
  ASSUME NEW decoy \in Decoys, NEW operation \in {"ReadDecoy", "DenyMutation"}
  PROVE  Event(decoy, operation) \in EventType
  BY FsAssumption DEF Event, EventType

\* The root file system stays a tree, and the list of events within its
\* capacity, whatever guests make, move and remove.
THEOREM TypeInvariant == Spec => []TypeOK
<1>1. Init => TypeOK
  <2> SUFFICES ASSUME Init PROVE TypeOK
    OBVIOUS
  <2>1. Tree(dirs, files)
    <3>1. dirs \subseteq Locations /\ <<>> \in dirs /\ files = {}
      BY FsAssumption, EmptySeq DEF Init, Locations
    <3>2. \A node \in dirs \ {<<>>} : Parent(node) \in dirs
      BY FsAssumption DEF Init, Parent
    <3> QED
      BY <3>1, <3>2 DEF Tree
  <2>2. events \in Seq(EventType) /\ Len(events) <= EventCap
    BY EventCapAssumption, EmptySeq DEF Init
  <2>3. reply.result = "none"
    BY DEF Init
  <2> QED
    BY <2>1, <2>2, <2>3, TypeParts
<1>2. TypeOK /\ [Next]_vars => TypeOK'
  <2> SUFFICES ASSUME TypeOK, [Next]_vars PROVE TypeOK'
    OBVIOUS
  <2>0. /\ Tree(dirs, files)
        /\ events \in Seq(EventType) /\ Len(events) <= EventCap
    BY TypeParts
  <2>1. CASE UNCHANGED vars
    BY <2>1 DEF TypeOK, Nodes, vars
  <2>2. CASE Next
    <3>1. PICK call : Answered(call) \/ PassedOn(call)
      BY <2>0, <2>2, NextStep
    <3>2. CASE Answered(call)
      <4>1. PICK decoy \in Decoys, operation \in {"ReadDecoy", "DenyMutation"} :
              events' = Recorded(events, Event(decoy, operation))
        BY <3>2 DEF Answered
      <4>2. events' \in Seq(EventType) /\ Len(events') <= EventCap
        BY <2>0, <4>1, EventFacts, RecordedEvents
      <4>3. Tree(dirs', files') /\ reply'.result \in {"denied", "decoy"}
        BY <2>0, <3>2 DEF Answered
      <4> QED
        BY <4>2, <4>3 DEF TypeOK, Tree, Nodes, EventType
    <3>3. CASE PassedOn(call)
      <4>1. /\ events' = events /\ Tree(dirs', files')
            /\ reply'.result \in {"ok", "refused"}
        BY <3>3 DEF PassedOn
      <4> QED
        BY <2>0, <4>1 DEF TypeOK, Tree, Nodes, EventType
    <3> QED
      BY <3>1, <3>2, <3>3
  <2> QED
    BY <2>1, <2>2
<1> QED
  BY <1>1, <1>2, PTL DEF Spec

\* A call that reads or would change a decoy is answered from the honeypot and
\* put on record, and no other call is: for every path however spelled, and
\* whatever was made or renamed in the tree before.
THEOREM DecoyTouchesAlwaysRecorded == Spec => DecoyTouchesRecorded
<1> DEFINE Noted ==
      LET call == reply'.call
          touched == {decoy \in Decoys : Touches(call, decoy)}
      IN IF touched = {} \/ call.op = "create_dir"
         THEN UNCHANGED events /\ reply'.result \in {"ok", "refused"}
         ELSE /\ reply'.result = IF call.op = "open_read" THEN "decoy" ELSE "denied"
              /\ UNCHANGED <<dirs, files>>
              /\ \E decoy \in touched, operation \in {"ReadDecoy", "DenyMutation"} :
                   /\ operation = "ReadDecoy" <=> call.op = "open_read"
                   /\ events' = Latest(Append(events, Event(decoy, operation)))
<1>1. TypeOK /\ Next => Noted
  <2> SUFFICES ASSUME TypeOK, Next PROVE Noted
    OBVIOUS
  <2>1. /\ Tree(dirs, files)
        /\ events \in Seq(EventType) /\ Len(events) <= EventCap
    BY TypeParts
  <2>2. PICK call : Answered(call) \/ PassedOn(call)
    BY <2>1, NextStep
  <2>3. CASE Answered(call)
    <3>1. PICK decoy \in Decoys, operation \in {"ReadDecoy", "DenyMutation"} :
            /\ Touches(call, decoy)
            /\ operation = "ReadDecoy" <=> call.op = "open_read"
            /\ events' = Recorded(events, Event(decoy, operation))
      BY <2>3 DEF Answered
    <3>2. events' = Latest(Append(events, Event(decoy, operation)))
      BY <2>1, <3>1, EventFacts, RecordedEvents
    <3>3. /\ reply'.call = call /\ call.op # "create_dir"
          /\ reply'.result = IF call.op = "open_read" THEN "decoy" ELSE "denied"
          /\ UNCHANGED <<dirs, files>>
      BY <2>3 DEF Answered
    <3> QED
      BY <3>1, <3>2, <3>3
  <2>4. CASE PassedOn(call)
    <3>1. /\ reply'.call = call /\ reply'.result \in {"ok", "refused"}
          /\ UNCHANGED events
          /\ call.op = "create_dir" \/ \A decoy \in Decoys : ~Touches(call, decoy)
      BY <2>4 DEF PassedOn
    <3> QED
      BY <3>1
  <2> QED
    BY <2>2, <2>3, <2>4
<1> HIDE DEF Noted
<1>2. TypeOK /\ [Next]_vars => [Noted]_vars
  BY <1>1
<1>3. Spec => [][Noted]_vars
  BY <1>2, TypeInvariant, PTL DEF Spec
<1> QED
  BY <1>3, PTL DEF DecoyTouchesRecorded, Noted

\* A node appears at a decoy's path or goes from there only by create_dir of
\* that path or by renaming a directory above it.
THEOREM OnlyWaysAreTheOnlyWays == Spec => OnlyWaysToDecoyPaths
<1> DEFINE Ways ==
      \A decoy \in Decoys :
        \/ decoy \in Nodes <=> decoy \in Nodes'
        \/ /\ reply'.call.op = "create_dir" /\ Denotes(reply'.call.path) = decoy
           /\ decoy \in dirs'
        \/ /\ reply'.call.op = "rename"
           /\ \/ IsStrictPrefix(Denotes(reply'.call.path), decoy)
              \/ IsStrictPrefix(Denotes(reply'.call.to), decoy)
<1>1. TypeOK /\ Next => Ways
  <2> SUFFICES ASSUME TypeOK, Next PROVE Ways
    OBVIOUS
  <2>1. PICK call : Answered(call) \/ PassedOn(call)
    BY NextStep, TypeParts
  <2>2. CASE Answered(call)
    <3>1. Nodes' = Nodes
      BY <2>2 DEF Answered, Nodes
    <3> QED
      BY <3>1
  <2>3. CASE PassedOn(call)
    <3>1. reply'.call = call /\ \A decoy \in Decoys : MayAppearOrGo(call, decoy)
      BY <2>3 DEF PassedOn
    <3> QED
      BY <3>1 DEF MayAppearOrGo
  <2> QED
    BY <2>1, <2>2, <2>3
<1> HIDE DEF Ways
<1>2. TypeOK /\ [Next]_vars => [Ways]_vars
  BY <1>1
<1>3. Spec => [][Ways]_vars
  BY <1>2, TypeInvariant, PTL DEF Spec
<1> QED
  BY <1>3 DEF OnlyWaysToDecoyPaths, Ways
=============================================================================
