------------------------- MODULE MCNetworkHoneypot --------------------------
(* Two threads and two hosts that share their IPv4 address, as two hosts do *)
(* whose hashes are 0 and 200; guests connect to the shared address and to  *)
(* one that no name resolves to.  Swapping the hosts with their IPv6        *)
(* addresses changes nothing, and neither does swapping the threads.        *)
EXTENDS NetworkHoneypot, TLC

CONSTANTS h1, h2, t1, t2, shared4, a6, b6, elsewhere

MCHosts == {h1, h2}
MCThreads == {t1, t2}
MCV4 == (h1 :> shared4) @@ (h2 :> shared4)
MCV6 == (h1 :> a6) @@ (h2 :> b6)
MCPeers == {shared4, elsewhere}

SwapHosts == (h1 :> h2) @@ (h2 :> h1) @@ (a6 :> b6) @@ (b6 :> a6)
SwapThreads == (t1 :> t2) @@ (t2 :> t1)

Symmetric == {SwapHosts, SwapThreads, SwapHosts @@ SwapThreads}
=============================================================================
