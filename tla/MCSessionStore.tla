--------------------------- MODULE MCSessionStore ---------------------------
(* Two consoles, and runs that may or may not begin in the same millisecond *)
(* with the same slug; consoles, times and slugs may be swapped for one     *)
(* another without changing what the properties say.                        *)
EXTENDS SessionStore, TLC

CONSTANTS c1, c2, t1, t2, s1, s2

MCConsoles == {c1, c2}
MCTimes == {t1, t2}
MCSlugs == {s1, s2}

Symmetric ==
  {consoles @@ times @@ slugs :
     consoles \in Permutations(MCConsoles), times \in Permutations(MCTimes),
     slugs \in Permutations(MCSlugs)}
=============================================================================
