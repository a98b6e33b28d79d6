----------------------------- MODULE HoneypotFs -----------------------------
(***************************************************************************)
(* wasi_sandbox.rs: the file system a WASI guest sees.  Paths are          *)
(* normalized as text; the ones that name a decoy are answered from static *)
(* bytes, deny every mutation but create_dir, and are put on record;       *)
(* everything else goes to the root file system, a library's (external:    *)
(* a tree that may refuse any request for reasons of its own).  Guest      *)
(* threads share it through an Arc: a call takes the event lock or the     *)
(* root's lock, never one after the other, so calls are atomic.  metadata, *)
(* read_dir and readlink change nothing and record nothing.                *)
(***************************************************************************)
EXTENDS EventLog, SequencesExt

CONSTANTS
  Names,       \* names a path is made of
  Decoys,      \* the paths of decoy_for, as sequences of names
  Bytes,       \* decoy -> the bytes a reader gets
  InitialDirs, \* directories RootFileSystemBuilder makes, below the root
  GuestPaths,  \* paths guests pass: sequences of names, "/", "." and ".."
  MaxDepth,    \* bound of the model: length of a path in the tree
  MaxNodes     \* bound of the model: nodes a guest makes grow the tree to

Locations == Seq(Names)

ASSUME FsAssumption ==
  /\ {"/", ".", ".."} \cap Names = {}
  /\ Decoys \subseteq Locations \ {<<>>}
  /\ InitialDirs \subseteq Locations \ Decoys
  /\ \A location \in InitialDirs \ {<<>>} :
       Front(location) \in InitialDirs \cup {<<>>}
  /\ GuestPaths \subseteq Seq(Names \cup {"/", ".", ".."})
  /\ Bytes \in [Decoys -> Nat]
  /\ {MaxDepth, MaxNodes} \subseteq Nat

VARIABLES
  dirs, files, \* the root file system: locations of its nodes
  events,      \* the honeypot's event list
  reply        \* the latest call and what the guest was answered

vars == <<dirs, files, events, reply>>

\* What the next call depends on: everything but the latest answer.
honeypot == <<dirs, files, events>>

Call(op, path, to) == [op |-> op, path |-> path, to |-> to]
Answer(call, result) == reply' = [call |-> call, result |-> result]

Init ==
  /\ dirs = InitialDirs \cup {<<>>}
  /\ files = {}
  /\ events = <<>>
  /\ reply = [call |-> Call("none", <<>>, <<>>), result |-> "none"]

-----------------------------------------------------------------------------
(* Which decoy a path names. *)

\* One component of normalized_path: ".." at the root is dropped.
Walk(parts, component) ==
  CASE component \in {"/", "."} -> parts
    [] component = ".." -> IF parts = <<>> THEN parts ELSE Front(parts)
    [] OTHER -> Append(parts, component)

\* Faulty: ".." is dropped wherever it stands.
NormalizedPath_NoParent(path) ==
  LET IsName(component) == component \in Names
  IN SelectSeq(path, IsName)

\* normalized_path: walked[n] is what its loop holds after n components.
NormalizedPath(path) ==
  LET walked[n \in 0 .. Len(path)] ==
        IF n = 0 THEN <<>> ELSE Walk(walked[n - 1], path[n])
  IN walked[Len(path)]

NoDecoy == <<>>

\* decoy_for
DecoyFor(path) ==
  IF NormalizedPath(path) \in Decoys THEN NormalizedPath(path) ELSE NoDecoy

\* Faulty: rename asks only about the path it moves from.
DecoyOfRename_From(from, to) == DecoyFor(from)

\* rename: decoy_for(from).or_else(decoy_for(to))
DecoyOfRename(from, to) ==
  IF DecoyFor(from) # NoDecoy THEN DecoyFor(from) ELSE DecoyFor(to)

Event(decoy, operation) ==
  [path |-> decoy, operation |-> operation, bytes |-> Bytes[decoy]]

\* A mutation of a decoy: on record, refused, and the root never asked.
Deny(call, decoy) ==
  /\ decoy # NoDecoy
  /\ events' = Recorded(events, Event(decoy, "DenyMutation"))
  /\ Answer(call, "denied")
  /\ UNCHANGED <<dirs, files>>

-----------------------------------------------------------------------------
(* The root file system, external.  It takes a path as text too. *)

Nodes == dirs \cup files
Parent(location) == Front(location)
InDirectory(location) == location # <<>> /\ Parent(location) \in dirs
Below(location) == {node \in Nodes : IsStrictPrefix(location, node)}
Room == Cardinality(Nodes) < MaxNodes

RootRefuses(call) == Answer(call, "refused") /\ UNCHANGED <<dirs, files>>

RootCreatesDir(location) ==
  /\ InDirectory(location) /\ location \notin Nodes
  /\ Room /\ Len(location) <= MaxDepth
  /\ dirs' = dirs \cup {location}
  /\ UNCHANGED files

RootRemovesDir(location) ==
  /\ location \in dirs \ {<<>>} /\ Below(location) = {}
  /\ dirs' = dirs \ {location}
  /\ UNCHANGED files

RootRemovesFile(location) ==
  /\ files' = files \ {location} /\ location \in files
  /\ UNCHANGED dirs

\* Where a node is after the subtree at from has moved to to.
MovedTo(node, from, to) ==
  IF IsPrefix(from, node) THEN to \o SubSeq(node, Len(from) + 1, Len(node)) ELSE node

\* A file or an empty directory at the destination is replaced.
RootRenames(from, to) ==
  /\ from \in Nodes \ {<<>>} /\ InDirectory(to)
  /\ ~IsPrefix(from, to) /\ Below(to) = {}
  /\ \A node \in Below(from) : Len(MovedTo(node, from, to)) <= MaxDepth
  /\ Len(to) <= MaxDepth
  /\ dirs' = {MovedTo(node, from, to) : node \in dirs \ {to}}
  /\ files' = {MovedTo(node, from, to) : node \in files \ {to}}

\* open: an existing file as it is, or a new one where that is asked for.
RootOpens(location, mutates) ==
  /\ \/ location \in files /\ UNCHANGED files
     \/ /\ mutates /\ InDirectory(location) /\ location \notin Nodes
        /\ Room /\ Len(location) <= MaxDepth
        /\ files' = files \cup {location}
  /\ UNCHANGED dirs

-----------------------------------------------------------------------------
(* The calls of a guest. *)

\* create_dir, unlike every other mutation, asks for no decoy.
CreateDir(path) ==
  LET call == Call("create_dir", path, <<>>)
  IN /\ \/ RootCreatesDir(NormalizedPath(path)) /\ Answer(call, "ok")
        \/ RootRefuses(call)
     /\ UNCHANGED events

RemoveDir(path) ==
  LET call == Call("remove_dir", path, <<>>)
  IN \/ Deny(call, DecoyFor(path))
     \/ /\ DecoyFor(path) = NoDecoy
        /\ \/ RootRemovesDir(NormalizedPath(path)) /\ Answer(call, "ok")
           \/ RootRefuses(call)
        /\ UNCHANGED events

RemoveFile(path) ==
  LET call == Call("remove_file", path, <<>>)
  IN \/ Deny(call, DecoyFor(path))
     \/ /\ DecoyFor(path) = NoDecoy
        /\ \/ RootRemovesFile(NormalizedPath(path)) /\ Answer(call, "ok")
           \/ RootRefuses(call)
        /\ UNCHANGED events

Rename(from, to) ==
  LET call == Call("rename", from, to)
  IN \/ Deny(call, DecoyOfRename(from, to))
     \/ /\ DecoyOfRename(from, to) = NoDecoy
        /\ \/ /\ RootRenames(NormalizedPath(from), NormalizedPath(to))
              /\ Answer(call, "ok")
           \/ RootRefuses(call)
        /\ UNCHANGED events

\* open; mutates is would_mutate: any of write, append, create, truncate.
Open(path, mutates) ==
  LET call == Call(IF mutates THEN "open_write" ELSE "open_read", path, <<>>)
      decoy == DecoyFor(path)
  IN \/ mutates /\ Deny(call, decoy)
     \/ /\ ~mutates /\ decoy # NoDecoy
        /\ events' = Recorded(events, Event(decoy, "ReadDecoy"))
        /\ Answer(call, "decoy")
        /\ UNCHANGED <<dirs, files>>
     \/ /\ decoy = NoDecoy
        /\ \/ RootOpens(NormalizedPath(path), mutates) /\ Answer(call, "ok")
           \/ RootRefuses(call)
        /\ UNCHANGED events

Next ==
  \/ \E path \in GuestPaths :
       \/ CreateDir(path) \/ RemoveDir(path) \/ RemoveFile(path)
       \/ \E mutates \in BOOLEAN : Open(path, mutates)
  \/ \E from, to \in GuestPaths : Rename(from, to)

Spec == Init /\ [][Next]_vars

-----------------------------------------------------------------------------
\* How many of the components after the i-th, up to the j-th, are of these.
Count(path, i, j, components) ==
  Cardinality({k \in i + 1 .. j : path[k] \in components})

\* What a path means, said without walking it: a name counts unless some
\* later stretch of the path climbs above the directory it is in.
Survives(path, i) ==
  /\ path[i] \in Names
  /\ \A j \in i + 1 .. Len(path) :
       Count(path, i, j, {".."}) <= Count(path, i, j, Names)

\* The place of position i among those kept.
PlaceAmong(kept, i) == Cardinality({k \in kept : k <= i})

Denotes(path) ==
  LET kept == {i \in DOMAIN path : Survives(path, i)}
      At(k) == CHOOSE i \in kept : PlaceAmong(kept, i) = k
  IN [k \in 1 .. Cardinality(kept) |-> path[At(k)]]

TypeOK ==
  /\ dirs \subseteq Locations /\ files \subseteq Locations
  /\ <<>> \in dirs /\ dirs \cap files = {}
  /\ \A node \in Nodes \ {<<>>} : Parent(node) \in dirs
  /\ events \in Seq([path: Decoys, operation: {"ReadDecoy", "DenyMutation"},
                     bytes: Nat])
  /\ Len(events) <= EventCap
  /\ reply.result \in {"none", "ok", "refused", "denied", "decoy"}

Touches(call, decoy) ==
  Denotes(call.path) = decoy \/ (call.op = "rename" /\ Denotes(call.to) = decoy)

\* However a guest spells the path, and whatever it has made or renamed in the
\* root file system before: a call that reads or would change a decoy is
\* answered from the honeypot and leaves the tree alone, and the list then
\* ends in an event that names a decoy of the call and keeps the latest ones
\* before it; any other call, and create_dir, leaves the list alone.
DecoyTouchesRecorded ==
  [][LET call == reply'.call
         touched == {decoy \in Decoys : Touches(call, decoy)}
     IN IF touched = {} \/ call.op = "create_dir"
        THEN UNCHANGED events /\ reply'.result \in {"ok", "refused"}
        ELSE /\ reply'.result = IF call.op = "open_read" THEN "decoy" ELSE "denied"
             /\ UNCHANGED <<dirs, files>>
             /\ \E decoy \in touched, operation \in {"ReadDecoy", "DenyMutation"} :
                  /\ operation = "ReadDecoy" <=> call.op = "open_read"
                  /\ events' = Latest(Append(events, Event(decoy, operation)))]_vars

\* A node of the root file system appears at a decoy's path, or goes from
\* there, only by create_dir of that very path or by renaming a directory
\* above it: the mutations that are denied have no other way around them, and
\* a directory made at a decoy's path can never be removed by that path.
OnlyWaysToDecoyPaths ==
  [][\A decoy \in Decoys :
       \/ decoy \in Nodes <=> decoy \in Nodes'
       \/ /\ reply'.call.op = "create_dir" /\ Denotes(reply'.call.path) = decoy
          /\ decoy \in dirs'
       \/ /\ reply'.call.op = "rename"
          /\ \/ IsStrictPrefix(Denotes(reply'.call.path), decoy)
             \/ IsStrictPrefix(Denotes(reply'.call.to), decoy)]_vars
=============================================================================
