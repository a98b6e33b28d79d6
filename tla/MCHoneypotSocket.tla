-------------------------- MODULE MCHoneypotSocket --------------------------
(* One guest thread and one host: the calls on a socket, in every order. *)
EXTENDS NetworkHoneypot, TLC

CONSTANTS h1, t1

MCHosts == {h1}
MCThreads == {t1}
MCV4 == h1 :> "4a"
MCV6 == h1 :> "6a"
MCPeers == {"4a"}
=============================================================================
