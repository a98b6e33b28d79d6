---------------------------- MODULE MCHoneypotFs ----------------------------
(* Two decoys, as /etc/passwd, whose directory the root file system starts  *)
(* with, and /root/.ssh/id_rsa, whose directories a guest may make.         *)
EXTENDS HoneypotFs

e == "etc"
r == "root"
k == "key"

MCNames == {e, r, k}
MCDecoys == {<<e, k>>, <<r, k>>}
MCBytes == [decoy \in MCDecoys |-> IF decoy = <<e, k>> THEN 2 ELSE 1]
MCInitialDirs == {<<e>>}

MCGuestPaths ==
  {<<"/", e>>, <<r>>, <<k>>, <<k, k>>, <<"/", e, k>>, <<r, k>>, <<e, r>>,
   <<r, "..", e, ".", k>>, <<"..", e, e, "..", k>>, <<k, "..", "..", r, k>>,
   <<e, k, "..">>, <<e, k, r>>}
=============================================================================
