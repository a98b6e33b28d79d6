-------------------------- MODULE NetworkHoneypot ---------------------------
(***************************************************************************)
(* wasi_sandbox.rs: the network a WASI guest sees.  Names resolve to       *)
(* synthetic addresses, every TCP connection ends in a HoneypotTcpSocket   *)
(* that captures the request and answers a mock response, and what the     *)
(* guest did is kept in a bounded event list.  Guest threads share the     *)
(* honeypot through an Arc; each access to resolved_hosts or to events     *)
(* takes a lock of its own, so the calls of several threads interleave     *)
(* between their locks.  A socket is used through &mut self: one call at a *)
(* time.  Bytes are counted, not spelled; local ports are left out; listen  *)
(* and bind always answer PermissionDenied and change nothing.             *)
(***************************************************************************)
EXTENDS EventLog, FiniteSets

CONSTANTS
  Threads,      \* guest threads, each with at most one socket at a time
  Pollers,      \* those whose socket is polled for readiness
  Readers,      \* the tasks that may poll one socket
  Hosts,        \* host names guests resolve
  V4, V6,       \* deterministic_honeypot_ips: host -> its two addresses
  Peers,        \* addresses guests connect to, resolved before or not
  NoHost,       \* Option::None for a domain
  HostCap,      \* RESOLVED_HOST_CAPACITY
  MaxCapture,   \* MAX_CAPTURED_REQUEST_BYTES
  ResponseLen,  \* bytes of the mock response
  MaxSent,      \* bound of the model: bytes a guest sends on one socket
  MaxLog        \* bound of the model: events a behaviour may record

Addresses == {V4[h] : h \in Hosts} \cup {V6[h] : h \in Hosts}

ASSUME HoneypotAssumption ==
  /\ {HostCap, MaxCapture} \subseteq Nat \ {0}
  /\ {ResponseLen, MaxSent, MaxLog} \subseteq Nat
  /\ NoHost \notin Hosts
  /\ Pollers \subseteq Threads
  /\ IsFiniteSet(Hosts)

VARIABLES
  pc,       \* thread -> "idle", or where its call into the honeypot is
  arg,      \* thread -> what its call still needs: the host it resolves, the
            \* peer and domain it connects to, what it receives, or NoHost
  resolved, \* resolved_hosts: address -> host, or NoHost
  sock,     \* thread -> its HoneypotTcpSocket, or NoSocket
  events,   \* the honeypot's event list
  log       \* history: every event recorded, evicted or not

vars == <<pc, arg, resolved, sock, events, log>>

NoSocket == [conn |-> 0]

\* HoneypotTcpSocket::new.  request, captured and sent count bytes: those
\* kept, those in the PayloadCaptured event and those the guest has sent; conn
\* names the connection by the place of its ConnectIntercepted in the log;
\* handler is the one InterestHandler, as the set of the reader whose waker it
\* is, empty for None and for a handler that is no reader's; waiting is history:
\* the readers asleep after a Pending, whom nothing has told since.
NewSocket(conn, peer, domain) ==
  [conn |-> conn, peer |-> peer, domain |-> domain,
   request |-> 0, headers |-> FALSE, ready |-> FALSE, payloadLogged |-> FALSE,
   mockLogged |-> FALSE, offset |-> 0, closed |-> FALSE, handler |-> {},
   waiting |-> {}, sent |-> 0, captured |-> 0]

Init ==
  /\ pc = [t \in Threads |-> "idle"]
  /\ arg = [t \in Threads |-> NoHost]
  /\ resolved = [a \in Addresses \cup Peers |-> NoHost]
  /\ sock = [t \in Threads |-> NoSocket]
  /\ events = <<>>
  /\ log = <<>>

Goto(t, where) == pc' = [pc EXCEPT ![t] = where]

-----------------------------------------------------------------------------
(* The event list. *)

Event(op, conn, target, domain, bytes) ==
  [op |-> op, conn |-> conn, target |-> target, domain |-> domain,
   bytes |-> bytes]

\* record, under the lock of events.
Record(event) ==
  /\ Len(log) < MaxLog
  /\ events' = Recorded(events, event)
  /\ log' = Append(log, event)

-----------------------------------------------------------------------------
(* resolve: two remember_host, then a record, each under its own lock. *)

Known == {a \in Addresses : resolved[a] # NoHost}

\* Faulty: an entry goes only once the map is over its capacity.
RememberHost_Over(address, host) ==
  IF Cardinality(Known) > HostCap
  THEN \E victim \in Known :
         resolved' = [resolved EXCEPT ![victim] = NoHost, ![address] = host]
  ELSE resolved' = [resolved EXCEPT ![address] = host]

\* remember_host: at capacity some entry goes, whichever the map yields first,
\* even when the address is in the map already.
RememberHost(address, host) ==
  IF Cardinality(Known) >= HostCap
  THEN \E victim \in Known :
         resolved' = [resolved EXCEPT ![victim] = NoHost, ![address] = host]
  ELSE resolved' = [resolved EXCEPT ![address] = host]

Resolve(t, host) ==
  /\ pc[t] = "idle"
  /\ arg' = [arg EXCEPT ![t] = host]
  /\ RememberHost(V4[host], host)
  /\ Goto(t, "resolve_v6")
  /\ UNCHANGED <<sock, events, log>>

ResolveV6(t) ==
  /\ pc[t] = "resolve_v6"
  /\ RememberHost(V6[arg[t]], arg[t])
  /\ Goto(t, "resolve_record")
  /\ UNCHANGED <<arg, sock, events, log>>

ResolveRecord(t) ==
  /\ pc[t] = "resolve_record"
  /\ Record(Event("Resolve", 0, V4[arg[t]], arg[t], 0))
  /\ arg' = [arg EXCEPT ![t] = NoHost]
  /\ Goto(t, "idle")
  /\ UNCHANGED <<resolved, sock>>

-----------------------------------------------------------------------------
(* connect_tcp: the domain, then the record and the socket. *)

\* Faulty: the domain is whatever host was remembered for any address.
DomainFor_Any(peer) ==
  IF Known = {} THEN NoHost ELSE resolved[CHOOSE a \in Known : TRUE]

\* domain_for
DomainFor(peer) == resolved[peer]

Connect(t, peer) ==
  /\ pc[t] = "idle"
  /\ arg' = [arg EXCEPT ![t] = [peer |-> peer, domain |-> DomainFor(peer)]]
  /\ Goto(t, "connect_record")
  /\ UNCHANGED <<resolved, sock, events, log>>

\* A thread drops the socket it has for the new one.
ConnectRecord(t) ==
  LET peer == arg[t].peer
      domain == arg[t].domain
      conn == Len(log) + 1
  IN /\ pc[t] = "connect_record"
     /\ Record(Event("Connect", conn, peer, domain, 0))
     /\ sock' = [sock EXCEPT ![t] = NewSocket(conn, peer, domain)]
     /\ arg' = [arg EXCEPT ![t] = NoHost]
     /\ Goto(t, "idle")
     /\ UNCHANGED resolved

-----------------------------------------------------------------------------
(* The socket. *)

\* push_interest: the one handler is told, and its reader goes on; a reader
\* whose handler another call has displaced is not.
Push(s) == [s EXCEPT !.waiting = @ \ s.handler]

HasSocket(t) == pc[t] = "idle" /\ sock[t] # NoSocket

\* A call that has no record to make, or a call about to make its records.
Update(t, s, where) ==
  /\ sock' = [sock EXCEPT ![t] = s]
  /\ Goto(t, where)
  /\ UNCHANGED <<arg, resolved, events, log>>

\* Faulty: the buffer is not held to its limit.
Captures_Unlimited(s, n) == n

\* How much of n bytes sent now is kept.
Captures(s, n) ==
  IF s.request + n <= MaxCapture THEN n ELSE MaxCapture - s.request

\* try_send: completes says whether the kept bytes now hold the empty line
\* that ends the headers; bytes beyond the limit are dropped unseen.
TrySend(t, n, completes) ==
  LET s == sock[t]
      kept == Captures(s, n)
      request == s.request + kept
      headers == s.headers \/ (completes /\ kept > 0)
      respond == ~s.ready /\ request > 0 /\ (headers \/ request >= MaxCapture)
  IN /\ HasSocket(t) /\ ~s.closed /\ s.sent + n <= MaxSent
     /\ Update(t, [s EXCEPT !.request = request, !.headers = headers,
                            !.sent = @ + n],
               IF respond THEN "log_payload" ELSE "idle")

\* try_flush
TryFlush(t) ==
  LET s == sock[t]
  IN /\ HasSocket(t) /\ s.request > 0 /\ ~s.ready
     /\ Update(t, s, "log_payload")

\* The bytes try_recv takes from a prepared response, at most n of them; to
\* ask for more than there are closes the socket.
Read(s, n, peek) ==
  LET left == ResponseLen - s.offset
  IN IF left = 0 THEN Push([s EXCEPT !.closed = TRUE])
     ELSE IF peek THEN s
     ELSE [s EXCEPT !.offset = @ + IF n < left THEN n ELSE left]

\* Faulty: try_recv sets the response up without capturing the payload.
TryRecvPrepares_NoCapture(t, n, peek) ==
  LET s == sock[t]
  IN /\ HasSocket(t) /\ s.request > 0 /\ ~s.ready
     /\ Update(t, Read([s EXCEPT !.ready = TRUE], n, peek), "idle")

\* try_recv with a request pending and no response yet: it sets the response
\* up, as below, and then reads from it.
TryRecvPrepares(t, n, peek) ==
  /\ HasSocket(t) /\ sock[t].request > 0 /\ ~sock[t].ready
  /\ arg' = [arg EXCEPT ![t] = [n |-> n, peek |-> peek]]
  /\ Goto(t, "log_payload")
  /\ UNCHANGED <<resolved, sock, events, log>>

\* try_recv of a response that is ready.
TryRecv(t, n, peek) ==
  /\ HasSocket(t) /\ sock[t].ready
  /\ Update(t, Read(sock[t], n, peek), "idle")

\* record_payload_and_prepare_response: its two records, each under the lock,
\* then the response is ready and try_recv, if it is the caller, reads.
LogPayload(t) ==
  LET s == sock[t]
  IN /\ pc[t] = "log_payload"
     /\ IF s.payloadLogged
        THEN UNCHANGED <<events, log>>
        ELSE Record(Event("Payload", s.conn, s.peer, s.domain, s.request))
     /\ sock' = [sock EXCEPT ![t].payloadLogged = TRUE, ![t].captured = s.request]
     /\ Goto(t, "log_mock")
     /\ UNCHANGED <<arg, resolved>>

LogMock(t) ==
  LET s == sock[t]
      answered == Push([s EXCEPT !.mockLogged = TRUE, !.ready = TRUE])
  IN /\ pc[t] = "log_mock"
     /\ IF s.mockLogged
        THEN UNCHANGED <<events, log>>
        ELSE Record(Event("Mock", s.conn, s.peer, s.domain, ResponseLen))
     /\ sock' = [sock EXCEPT ![t] =
                   IF arg[t] = NoHost THEN answered
                   ELSE Read(answered, arg[t].n, arg[t].peek)]
     /\ arg' = [arg EXCEPT ![t] = NoHost]
     /\ Goto(t, "idle")
     /\ UNCHANGED resolved

\* Faulty: close does not tell the handler.
Close_Silent(t) ==
  /\ HasSocket(t)
  /\ Update(t, [sock[t] EXCEPT !.closed = TRUE], "idle")

\* close and shutdown
Close(t) ==
  /\ HasSocket(t)
  /\ Update(t, Push([sock[t] EXCEPT !.closed = TRUE]), "idle")

\* poll_read_ready: the reader's waker displaces whichever is registered, and
\* the reader falls asleep unless there is an answer.
PollRead(t, reader) ==
  LET s == sock[t]
  IN /\ HasSocket(t)
     /\ Update(t, [s EXCEPT !.handler = {reader},
                            !.waiting = IF s.ready \/ s.closed
                                        THEN @ \ {reader} ELSE @ \cup {reader}],
               "idle")

\* poll_write_ready: the same displacement, but the answer is always Ready.
PollWrite(t, reader) ==
  /\ HasSocket(t)
  /\ Update(t, [sock[t] EXCEPT !.handler = {reader}, !.waiting = @ \ {reader}],
            "idle")

\* remove_handler, and set_handler with one that is no reader's.
ReplaceHandler(t) ==
  /\ HasSocket(t)
  /\ Update(t, [sock[t] EXCEPT !.handler = {}], "idle")

Call(t) ==
  \/ \E host \in Hosts : Resolve(t, host)
  \/ \E peer \in Peers : Connect(t, peer)
  \/ \E n \in 0 .. MaxSent, completes \in BOOLEAN : TrySend(t, n, completes)
  \/ TryFlush(t) \/ Close(t)
  \/ \E n \in 0 .. ResponseLen, peek \in BOOLEAN :
       TryRecvPrepares(t, n, peek) \/ TryRecv(t, n, peek)

Poll(t) ==
  \/ \E reader \in Readers : PollRead(t, reader) \/ PollWrite(t, reader)
  \/ ReplaceHandler(t)

Continue(t) ==
  \/ ResolveV6(t) \/ ResolveRecord(t) \/ ConnectRecord(t)
  \/ LogPayload(t) \/ LogMock(t)

Next ==
  \/ \E t \in Threads : Call(t) \/ Continue(t)
  \/ \E t \in Pollers : Poll(t)

Spec == Init /\ [][Next]_vars

-----------------------------------------------------------------------------
Sockets == {t \in Threads : sock[t] # NoSocket}

\* The event list never outgrows its capacity and holds exactly the latest
\* events, in the order they were recorded: a flood of cheap events may push
\* old ones out but never a newer before an older.
KeepsLatestEvents == events = Latest(log)

\* No byte of the mock response is readable before both the payload and the
\* response are on record, each once: what the log holds of a connection that
\* is answered is its ConnectIntercepted, then its payload, then its response,
\* whichever of try_send, try_flush and try_recv set it up, whatever calls come
\* later and whatever other threads record in between.
CapturedBeforeAnswered ==
  \A t \in Sockets : sock[t].ready =>
    \E i, j \in DOMAIN log :
      /\ sock[t].conn < i /\ i < j
      /\ log[i].op = "Payload" /\ log[i].bytes = sock[t].captured
      /\ log[j].op = "Mock" /\ log[j].bytes = ResponseLen
      /\ {k \in DOMAIN log : log[k].conn = sock[t].conn} = {sock[t].conn, i, j}

\* A socket's buffer stays within its limit and is what the guest has sent up
\* to it; the payload on record is a non-empty prefix of that.
CaptureIsPrefix ==
  \A t \in Sockets :
    LET s == sock[t]
    IN /\ s.request = IF s.sent <= MaxCapture THEN s.sent ELSE MaxCapture
       /\ s.payloadLogged => s.captured \in 1 .. s.request

\* A resolve has remembered host for address: it is on record, or the thread
\* that makes it has come past its remember_host of address.
Remembered(address, host) ==
  /\ address \in {V4[host], V6[host]}
  /\ \/ \E i \in DOMAIN log : log[i].op = "Resolve" /\ log[i].domain = host
     \/ \E t \in Threads :
          /\ arg[t] = host
          /\ \/ pc[t] = "resolve_record"
             \/ pc[t] = "resolve_v6" /\ address = V4[host]

\* A step that records a connection blames no host for it but one that a
\* resolve has by then remembered for the very address connected to, evicted
\* since or not; two hosts that share an address are told apart only by which
\* was remembered last.
DomainWasResolved ==
  [][\A i \in DOMAIN log' \ DOMAIN log :
       log'[i].op = "Connect" /\ log'[i].domain # NoHost =>
         Remembered(log'[i].target, log'[i].domain)]_log

\* The map never outgrows its capacity, and a resolve drops a host some
\* thread may be about to connect to only when the map is full.
KnownHostsKept ==
  [][/\ Cardinality(Known') <= HostCap
     /\ ~(Known \subseteq Known') => Cardinality(Known) = HostCap]_resolved

\* The response becoming ready and the socket closing wake the reader whose
\* handler is registered then, whichever call, also one of its own thread,
\* brings them about: whoever sleeps on a ready or closed socket is a reader
\* whose handler another poll, set_handler or remove_handler has displaced.
\* Such a reader the code never tells, and may sleep on.
NoLostWakeup ==
  \A t \in Sockets :
    sock[t].ready \/ sock[t].closed => sock[t].handler \cap sock[t].waiting = {}

\* README.md: the host resolver "captures the request payload".  Not all of
\* it: the payload is recorded once, when the headers are complete, so a body
\* the guest sends after them is in no event.
RequestCaptured ==
  \A t \in Sockets :
    LET s == sock[t]
    IN pc[t] = "idle" /\ s.closed /\ s.headers /\ s.sent <= MaxCapture =>
         s.captured = s.sent
=============================================================================
