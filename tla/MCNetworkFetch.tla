--------------------------- MODULE MCNetworkFetch ---------------------------
(* The fetching guest and one thread that makes every call, readiness among *)
(* them, where two readers poll its socket and displace each other; the     *)
(* calls on a socket come in every order.                                   *)
EXTENDS NetworkFetch, TLC

CONSTANTS h1, fetcher, other, reader, second

MCHosts == {h1}
MCThreads == {fetcher, other}
MCV4 == h1 :> "4a"
MCV6 == h1 :> "6a"
MCPeers == {"4a"}
=============================================================================
