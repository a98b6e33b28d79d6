---------------------------- MODULE NetworkFetch ----------------------------
(***************************************************************************)
(* The demo guest wasi_network_fetch.rs and other guest threads on one     *)
(* honeypot.  The fetching guest resolves a host, connects to the first    *)
(* IPv4 address it is given, sends its request in as many pieces as the    *)
(* WASI layer takes it, and receives in chunks until the response is       *)
(* complete; each of its calls is the honeypot's, and the others call as   *)
(* they like in between.  None of the honeypot's calls it makes fails.     *)
(***************************************************************************)
EXTENDS NetworkHoneypot

CONSTANTS
  Fetcher,     \* the thread of the fetching guest
  Host,        \* HOST
  RequestLen,  \* bytes of its request, which ends in the empty line
  HeaderLen,   \* bytes of the mock response up to its body
  Chunk,       \* bytes asked for at a time
  MaxResponse  \* the most the guest takes of an unfinished response

ASSUME FetchAssumption ==
  /\ Fetcher \in Threads \ Pollers /\ Host \in Hosts
  /\ V4[Host] \in Peers
  /\ {RequestLen, Chunk} \subseteq Nat \ {0}
  /\ RequestLen <= MaxSent
  /\ HeaderLen \in 1 .. ResponseLen /\ MaxResponse \in Nat

VARIABLES
  announced, \* the mock response has a content-length; with_mock_response takes any
  step,      \* where run() is
  unsent,    \* bytes of the request send_all still holds
  received   \* bytes of the response recv_http_response holds

fetch == <<step, unsent, received>>
fetchVars == <<vars, announced, fetch>>

Others == Threads \ {Fetcher}

FetchInit ==
  /\ Init
  /\ announced \in BOOLEAN
  /\ step = "resolve"
  /\ unsent = RequestLen
  /\ received = 0

-----------------------------------------------------------------------------
(* The fetching guest.  A call that takes several locks goes on by the      *)
(* honeypot's Continue.                                                     *)

ResolveHost ==
  /\ step = "resolve" /\ Resolve(Fetcher, Host)
  /\ step' = "connect"
  /\ UNCHANGED <<announced, unsent, received>>

ConnectToFirst ==
  /\ step = "connect" /\ Connect(Fetcher, V4[Host])
  /\ step' = "send"
  /\ UNCHANGED <<announced, unsent, received>>

\* One round of send_all.
Send(n) ==
  /\ step = "send" /\ TrySend(Fetcher, n, n = unsent)
  /\ unsent' = unsent - n
  /\ step' = IF n = unsent THEN "receive" ELSE "send"
  /\ UNCHANGED <<announced, received>>

\* Faulty: the response counts as complete with its headers.
ResponseComplete_Headers(bytes) == announced /\ bytes >= HeaderLen

\* http_response_complete: without a content-length only the end of the
\* stream completes a response.
ResponseComplete(bytes) ==
  announced /\ bytes >= HeaderLen /\ bytes >= HeaderLen + (ResponseLen - HeaderLen)

\* What try_recv hands out to a reader of n bytes.
Handed(n) ==
  LET left == ResponseLen - sock[Fetcher].offset
  IN IF n < left THEN n ELSE left

\* One round of recv_http_response.
Receive ==
  LET read == Handed(Chunk)
      bytes == received + read
  IN /\ step = "receive" /\ TryRecv(Fetcher, Chunk, FALSE)
     /\ received' = bytes
     /\ step' = IF read = 0 \/ ResponseComplete(bytes) THEN "done"
                ELSE IF bytes > MaxResponse THEN "failed" ELSE "receive"
     /\ UNCHANGED <<announced, unsent>>

Guest ==
  \/ ResolveHost \/ ConnectToFirst \/ Receive
  \/ \E n \in 1 .. unsent : Send(n)
  \/ Continue(Fetcher) /\ UNCHANGED <<announced, fetch>>

\* Events of the guest's connection, and resolves of its host by anyone.
OfConnection == {i \in DOMAIN log : log[i].conn # 0 /\ log[i].conn = sock[Fetcher].conn}
Own == OfConnection \cup {i \in DOMAIN log : log[i].op = "Resolve" /\ log[i].domain = Host}

\* The bound of the model on the events leaves the guest those it needs.
Needed ==
  LET resolving == step = "resolve" \/ (step = "connect" /\ pc[Fetcher] # "idle")
  IN (IF resolving THEN 4 ELSE 3) - Cardinality(OfConnection)

Other ==
  /\ Len(log) + Needed < MaxLog
  /\ \E t \in Others : Call(t) \/ Continue(t) \/ (t \in Pollers /\ Poll(t))
  /\ UNCHANGED <<announced, fetch>>

FetchNext == Guest \/ Other

\* The guest's thread is scheduled.
FetchSpec == FetchInit /\ [][FetchNext]_fetchVars /\ WF_fetchVars(Guest)

-----------------------------------------------------------------------------
FetchTypeOK ==
  /\ announced \in BOOLEAN
  /\ step \in {"resolve", "connect", "send", "receive", "done", "failed"}
  /\ unsent \in 0 .. RequestLen
  /\ received \in 0 .. ResponseLen
  /\ resolved \in [Addresses \cup Peers -> Hosts \cup {NoHost}]
  /\ Len(events) <= EventCap

\* What is on record of the exchange: a payload counts only when it is the
\* request, as much of it as the honeypot keeps.
OnRecord ==
  LET whole == IF RequestLen <= MaxCapture THEN RequestLen ELSE MaxCapture
  IN {log[i].op : i \in {j \in Own : log[j].op = "Payload" => log[j].bytes = whole}}

Delivered ==
  CASE step # "done" -> "nothing"
    [] step = "done" /\ received = ResponseLen -> "response"
    [] OTHER -> "part"

Promise == INSTANCE Interception WITH recorded <- OnRecord, delivered <- Delivered

\* README.md, WASI Network Honeypot Demo: the guest's request is resolved,
\* connected, captured whole and answered on record, in this order, before it
\* has a response, whatever other threads do on the same honeypot; and in the
\* end it holds the whole response.
InterceptionSpec == Promise!Spec
=============================================================================
