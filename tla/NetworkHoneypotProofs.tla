----------------------- MODULE NetworkHoneypotProofs -----------------------
(***************************************************************************)
(* What NetworkHoneypot promises, for every set of threads, hosts and      *)
(* addresses and every capacity.  Inv says of each thread what its socket   *)
(* is like at the place its call has reached, so that a step needs to look  *)
(* at its own thread only (LocalStep): what the others rely on is that the  *)
(* log grows at its end.  OnceOK and BlameOK are about several threads: a    *)
(* connection's events are in the log once, and what the map of hosts holds *)
(* was remembered by a resolve.  The last part is about the sample guest    *)
(* that uses the honeypot: each of its calls is one of the honeypot's, and  *)
(* its exchange implements Interception.                                    *)
(***************************************************************************)
EXTENDS NetworkFetch, SequenceTheorems, FiniteSetTheorems, TLAPS

\* Recording an event keeps the list equal to the latest events of the log.
LEMMA RecordedLatest ==
  ASSUME NEW S, NEW lg \in Seq(S), NEW e \in S
  PROVE  Recorded(Latest(lg), e) = Latest(Append(lg, e))
<1> DEFINE n == Len(lg)
           appended == Append(lg, e)
<1>0. n \in Nat /\ EventCap \in Nat /\ EventCap > 0
  BY EventCapAssumption, LenProperties
<1>1. /\ appended \in Seq(S) /\ Len(appended) = n + 1
      /\ \A i \in 1 .. n : appended[i] = lg[i]
      /\ appended[n + 1] = e
  BY AppendProperties
<1>2. \A i \in 1 .. n : lg[i] \in S
  BY ElementOfSeq
<1>3. \A i \in 1 .. n + 1 : appended[i] \in S
  BY <1>1, ElementOfSeq
<1> HIDE DEF n, appended
<1>4. CASE n < EventCap
  <2>1. Latest(lg) = SubSeq(lg, 1, n) /\ Latest(appended) = SubSeq(appended, 1, n + 1)
    <3>1. Latest(lg) = SubSeq(lg, IF n > EventCap THEN n - EventCap + 1 ELSE 1, n)
      BY DEF Latest, n
    <3>2. Latest(appended) =
            SubSeq(appended, IF n + 1 > EventCap THEN n + 1 - EventCap + 1 ELSE 1, n + 1)
      BY <1>0, <1>1 DEF Latest
    <3>3. ~(n > EventCap) /\ ~(n + 1 > EventCap)
      BY <1>0, <1>4
    <3> QED
      BY <3>1, <3>2, <3>3
  <2>2. SubSeq(lg, 1, n) = lg /\ SubSeq(appended, 1, n + 1) = appended
    BY <1>1, SubSeqFull DEF n
  <2>3. EnforceCapacity(lg) = lg
    BY <1>0, <1>4 DEF EnforceCapacity, n
  <2> QED
    BY <2>1, <2>2, <2>3 DEF Recorded, appended
<1>5. CASE n >= EventCap
  <2> DEFINE kept == SubSeq(lg, n - EventCap + 1, n)
             room == SubSeq(kept, 2, EventCap)
             last == SubSeq(appended, n + 2 - EventCap, n + 1)
  <2>1. Latest(lg) = kept /\ Latest(appended) = last
    <3>1. Latest(lg) = SubSeq(lg, IF n > EventCap THEN n - EventCap + 1 ELSE 1, n)
      BY DEF Latest, n
    <3>2. Latest(appended) =
            SubSeq(appended, IF n + 1 > EventCap THEN n + 1 - EventCap + 1 ELSE 1, n + 1)
      BY <1>0, <1>1 DEF Latest
    <3>3. /\ (IF n > EventCap THEN n - EventCap + 1 ELSE 1) = n - EventCap + 1
          /\ n + 1 > EventCap /\ n + 1 - EventCap + 1 = n + 2 - EventCap
      BY <1>0, <1>5
    <3> QED
      BY <3>1, <3>2, <3>3
  <2>2. /\ kept \in Seq(S) /\ Len(kept) = EventCap
        /\ \A i \in 1 .. EventCap : kept[i] = lg[n - EventCap + i]
    <3>1. \A i \in n - EventCap + 1 .. n : lg[i] \in S
      BY <1>0, <1>2, <1>5
    <3>2. n - EventCap + 1 \in Int /\ n \in Int
      BY <1>0
    <3> HIDE DEF kept
    <3>3. /\ kept \in Seq(S)
          /\ Len(kept) = IF n - EventCap + 1 <= n THEN n - (n - EventCap + 1) + 1 ELSE 0
          /\ \A i \in 1 .. n - (n - EventCap + 1) + 1 :
               kept[i] = lg[n - EventCap + 1 + i - 1]
      BY <3>1, <3>2, SubSeqProperties DEF kept
    <3> QED
      BY <1>0, <1>5, <3>3
  <2>3. EnforceCapacity(kept) = room
    <3>1. Len(kept) + 2 - EventCap = 2
      BY <1>0, <2>2
    <3> QED
      BY <1>0, <2>2, <3>1 DEF EnforceCapacity
  <2>4. /\ room \in Seq(S) /\ Len(room) = EventCap - 1
        /\ \A i \in 1 .. EventCap - 1 : room[i] = kept[i + 1]
    <3> HIDE DEF kept
    <3>1. \A i \in 2 .. EventCap : kept[i] \in S
      BY <1>0, <2>2, ElementOfSeq
    <3> HIDE DEF room
    <3>2. /\ room \in Seq(S)
          /\ Len(room) = IF 2 <= EventCap THEN EventCap - 2 + 1 ELSE 0
          /\ \A i \in 1 .. EventCap - 2 + 1 : room[i] = kept[2 + i - 1]
      BY <1>0, <3>1, SubSeqProperties DEF room
    <3> QED
      BY <1>0, <3>2
  <2>5. /\ last \in Seq(S) /\ Len(last) = EventCap
        /\ \A i \in 1 .. EventCap : last[i] = appended[n + 1 - EventCap + i]
    <3>1. \A i \in n + 2 - EventCap .. n + 1 : appended[i] \in S
      BY <1>0, <1>3, <1>5
    <3> HIDE DEF last
    <3>2. /\ last \in Seq(S)
          /\ Len(last) = IF n + 2 - EventCap <= n + 1
                         THEN n + 1 - (n + 2 - EventCap) + 1 ELSE 0
          /\ \A i \in 1 .. n + 1 - (n + 2 - EventCap) + 1 :
               last[i] = appended[n + 2 - EventCap + i - 1]
      BY <1>0, <3>1, SubSeqProperties DEF last
    <3> QED
      BY <1>0, <3>2
  <2> HIDE DEF kept, room, last
  <2>6. /\ Append(room, e) \in Seq(S) /\ Len(Append(room, e)) = EventCap
        /\ \A i \in 1 .. EventCap - 1 : Append(room, e)[i] = room[i]
        /\ Append(room, e)[EventCap] = e
    BY <1>0, <2>4, AppendProperties
  <2>7. ASSUME NEW i \in 1 .. EventCap PROVE Append(room, e)[i] = last[i]
    <3>1. CASE i = EventCap
      BY <1>0, <1>1, <2>5, <2>6, <3>1
    <3>2. CASE i < EventCap
      <4>1. i \in 1 .. EventCap - 1 /\ i + 1 \in 1 .. EventCap
            /\ n - EventCap + (i + 1) \in 1 .. n
        BY <1>0, <1>5, <3>2
      <4>2. Append(room, e)[i] = lg[n - EventCap + (i + 1)]
        BY <2>2, <2>4, <2>6, <4>1
      <4>3. last[i] = appended[n - EventCap + (i + 1)]
        BY <1>0, <2>5
      <4> QED
        BY <1>1, <4>1, <4>2, <4>3
    <3>3. i = EventCap \/ i < EventCap
      BY <1>0, <2>7
    <3> QED
      BY <3>1, <3>2, <3>3
  <2>8. Append(room, e) = last
    BY <2>5, <2>6, <2>7, SeqEqual
  <2> QED
    BY <2>1, <2>3, <2>8 DEF Recorded, appended
<1> QED
  BY <1>0, <1>4, <1>5

-----------------------------------------------------------------------------
(* Types, and what a socket is like at each place of its thread's call. *)

Places ==
  {"idle", "resolve_v6", "resolve_record", "connect_record", "log_payload",
   "log_mock"}

Preparing == {"log_payload", "log_mock"}

Domains == Hosts \cup {NoHost}

Socket ==
  [conn: Nat, peer: Peers, domain: Domains, request: Nat, headers: BOOLEAN,
   ready: BOOLEAN, payloadLogged: BOOLEAN, mockLogged: BOOLEAN, offset: Nat,
   closed: BOOLEAN, handler: SUBSET Readers, waiting: SUBSET Readers,
   sent: Nat, captured: Nat]

\* The place where a thread is tells what its call has still to use.
ArgOK(t) ==
  /\ pc[t] = "idle" => arg[t] = NoHost
  /\ pc[t] \in {"resolve_v6", "resolve_record"} => arg[t] \in Hosts
  /\ pc[t] = "connect_record" => arg[t] \in [peer: Peers, domain: Domains]
  /\ pc[t] \in Preparing /\ arg[t] # NoHost => arg[t] \in [n: Nat, peek: BOOLEAN]

\* The flags of a socket that is about to record its payload, of one about to
\* record its response, and of any other.
StageOK(s, where) ==
  /\ where = "log_payload" => ~s.ready /\ ~s.payloadLogged /\ ~s.mockLogged
  /\ where = "log_mock" => ~s.ready /\ s.payloadLogged /\ ~s.mockLogged
  /\ where \notin Preparing => s.payloadLogged = s.ready /\ s.mockLogged = s.ready
  /\ where \in Preparing => s.request > 0

\* The reader whose handler is registered, if any, is not asleep.
Told(s) == s.handler \cap s.waiting = {}

BufferOK(s) ==
  /\ s.request = IF s.sent <= MaxCapture THEN s.sent ELSE MaxCapture
  /\ s.payloadLogged => s.captured \in 1 .. s.request
  /\ s.ready \/ s.closed => Told(s)

\* The events of a socket's exchange that its flags speak of.
LoggedOK(s, lg) ==
  /\ s.payloadLogged =>
       \E i \in DOMAIN lg :
         lg[i].op = "Payload" /\ lg[i].bytes = s.captured /\ lg[i].conn = s.conn
  /\ s.ready =>
       \E i, j \in DOMAIN lg :
         /\ i < j
         /\ lg[i].op = "Payload" /\ lg[i].bytes = s.captured
         /\ lg[j].op = "Mock" /\ lg[j].bytes = ResponseLen
         /\ lg[i].conn = s.conn /\ lg[j].conn = s.conn

SocketOK(s, where, lg) ==
  s \in Socket /\ StageOK(s, where) /\ BufferOK(s) /\ LoggedOK(s, lg)

ThreadOK(t) ==
  /\ pc[t] \in Places
  /\ ArgOK(t)
  /\ \/ sock[t] = NoSocket /\ pc[t] \notin Preparing
     \/ SocketOK(sock[t], pc[t], log)

HostsOK == resolved \in [Addresses \cup Peers -> Domains]

LogOK ==
  /\ \E S : log \in Seq(S)
  /\ events = Latest(log)

Inv ==
  /\ pc \in [Threads -> Places]
  /\ DOMAIN arg = Threads /\ DOMAIN sock = Threads
  /\ HostsOK /\ LogOK
  /\ \A t \in Threads : ThreadOK(t)

-----------------------------------------------------------------------------
(* The log only grows at its end. *)

LEMMA AppendGrows ==
  ASSUME NEW S, NEW lg \in Seq(S), NEW e
  PROVE  /\ lg \in Seq(S \cup {e}) /\ Append(lg, e) \in Seq(S \cup {e})
         /\ Len(lg) \in Nat /\ DOMAIN lg = 1 .. Len(lg)
         /\ DOMAIN Append(lg, e) = 1 .. Len(lg) + 1
         /\ \A i \in DOMAIN lg : Append(lg, e)[i] = lg[i]
         /\ Append(lg, e)[Len(lg) + 1] = e
<1> DEFINE T == S \cup {e}
<1>1. lg \in Seq(T)
  BY SeqMonotonic
<1>2. /\ Append(lg, e) \in Seq(T) /\ Len(Append(lg, e)) = Len(lg) + 1
      /\ \A i \in 1 .. Len(lg) : Append(lg, e)[i] = lg[i]
      /\ Append(lg, e)[Len(lg) + 1] = e
  <2> HIDE DEF T
  <2>1. e \in T
    BY DEF T
  <2> QED
    BY <1>1, <2>1, AppendProperties
<1>3. Len(lg) \in Nat /\ DOMAIN lg = 1 .. Len(lg)
  BY <1>1, LenProperties
<1>4. DOMAIN Append(lg, e) = 1 .. Len(Append(lg, e))
  BY <1>2, LenProperties
<1> QED
  BY <1>1, <1>2, <1>3, <1>4

Grown == log' = log \/ \E e : log' = Append(log, e)

LEMMA LoggedGrows ==
  ASSUME LogOK, Grown, NEW s, LoggedOK(s, log)
  PROVE  LoggedOK(s, log')
<1>1. CASE log' = log
  BY <1>1
<1>2. CASE \E e : log' = Append(log, e)
  <2>1. PICK e : log' = Append(log, e)
    BY <1>2
  <2>2. PICK S : log \in Seq(S)
    BY DEF LogOK
  <2>3. /\ DOMAIN log \subseteq DOMAIN log'
        /\ \A i \in DOMAIN log : log'[i] = log[i]
    BY <2>1, <2>2, AppendGrows
  <2> QED
    BY <2>3 DEF LoggedOK
<1> QED
  BY <1>1, <1>2 DEF Grown

LEMMA RecordKeepsLog ==
  ASSUME LogOK, NEW e, Record(e)
  PROVE  LogOK' /\ Grown
<1>1. PICK S : log \in Seq(S)
  BY DEF LogOK
<1>2. log' = Append(log, e) /\ events' = Recorded(events, e)
  BY DEF Record
<1>3. /\ log \in Seq(S \cup {e}) /\ log' \in Seq(S \cup {e})
      /\ Len(log) \in Nat /\ DOMAIN log = 1 .. Len(log)
      /\ DOMAIN log' = 1 .. Len(log) + 1
      /\ \A i \in DOMAIN log : log'[i] = log[i]
      /\ log'[Len(log) + 1] = e
  BY <1>1, <1>2, AppendGrows
<1>4. events' = Latest(log')
  <2> DEFINE T == S \cup {e}
  <2>1. log \in Seq(T) /\ e \in T
    BY <1>3
  <2> HIDE DEF T
  <2>2. Recorded(Latest(log), e) = Latest(Append(log, e))
    BY <2>1, RecordedLatest
  <2> QED
    BY <1>2, <2>2 DEF LogOK
<1> QED
  BY <1>2, <1>3, <1>4 DEF LogOK, Grown

LEMMA NoRecordKeepsLog ==
  ASSUME LogOK, UNCHANGED <<events, log>>
  PROVE  LogOK' /\ Grown
  BY DEF LogOK, Grown

\* What a step of one thread has to show: the rest of Inv follows.
LocalTo(t) ==
  /\ pc' = [pc EXCEPT ![t] = pc'[t]]
  /\ DOMAIN arg' = DOMAIN arg /\ DOMAIN sock' = DOMAIN sock
  /\ \A u \in Threads \ {t} : arg'[u] = arg[u] /\ sock'[u] = sock[u]

LEMMA LocalStep ==
  ASSUME Inv, NEW t \in Threads, LocalTo(t), HostsOK', LogOK', Grown, ThreadOK(t)'
  PROVE  Inv'
<1>1. pc' \in [Threads -> Places]
  BY DEF Inv, LocalTo, ThreadOK
<1>2. ASSUME NEW u \in Threads \ {t} PROVE ThreadOK(u)'
  <2>1. pc'[u] = pc[u] /\ arg'[u] = arg[u] /\ sock'[u] = sock[u]
    BY <1>2 DEF LocalTo, Inv
  <2>2. ThreadOK(u)
    BY DEF Inv
  <2>3. ArgOK(u)'
    BY <2>1, <2>2 DEF ThreadOK, ArgOK
  <2>4. CASE sock[u] = NoSocket /\ pc[u] \notin Preparing
    BY <2>1, <2>2, <2>3, <2>4 DEF ThreadOK
  <2>5. CASE SocketOK(sock[u], pc[u], log)
    <3>1. LoggedOK(sock[u], log')
      BY <2>5, LoggedGrows DEF SocketOK, Inv
    <3> QED
      BY <2>1, <2>2, <2>3, <2>5, <3>1 DEF ThreadOK, SocketOK
  <2> QED
    BY <2>2, <2>4, <2>5 DEF ThreadOK
<1> QED
  BY <1>1, <1>2 DEF Inv, LocalTo

-----------------------------------------------------------------------------
(* resolve and connect_tcp. *)

LEMMA RememberKeepsHosts ==
  ASSUME HostsOK, NEW a \in Addresses, NEW h \in Hosts, RememberHost(a, h)
  PROVE  HostsOK'
<1>1. CASE resolved' = [resolved EXCEPT ![a] = h]
  BY <1>1 DEF HostsOK, Domains
<1>2. CASE \E victim \in Known :
             resolved' = [resolved EXCEPT ![victim] = NoHost, ![a] = h]
  <2>1. PICK victim \in Addresses :
          resolved' = [resolved EXCEPT ![victim] = NoHost, ![a] = h]
    BY <1>2 DEF Known
  <2> QED
    BY <2>1 DEF HostsOK, Domains
<1> QED
  BY <1>1, <1>2 DEF RememberHost

LEMMA ThreadFacts ==
  ASSUME Inv, NEW t \in Threads
  PROVE  ThreadOK(t) /\ HostsOK /\ LogOK /\ pc \in [Threads -> Places]
         /\ DOMAIN arg = Threads /\ DOMAIN sock = Threads
  BY DEF Inv

\* A thread that is on its way to an address or back keeps its socket.
LEMMA SocketKept ==
  ASSUME Inv, NEW t \in Threads, Grown, pc[t] \notin Preparing,
         pc'[t] \in Places \ Preparing, sock' = sock, ArgOK(t)'
  PROVE  ThreadOK(t)'
<1>1. ThreadOK(t)
  BY DEF Inv
<1>2. CASE sock[t] = NoSocket
  BY <1>2 DEF ThreadOK
<1>3. CASE SocketOK(sock[t], pc[t], log)
  <2>1. LoggedOK(sock[t], log')
    BY <1>3, LoggedGrows DEF SocketOK, Inv
  <2>2. StageOK(sock[t], pc'[t])
    <3>1. pc'[t] \notin Preparing /\ pc'[t] # "log_payload" /\ pc'[t] # "log_mock"
      BY DEF Preparing
    <3> QED
      BY <1>3, <3>1 DEF SocketOK, StageOK
  <2> QED
    BY <1>3, <2>1, <2>2 DEF ThreadOK, SocketOK
<1> QED
  BY <1>1, <1>2, <1>3 DEF ThreadOK

LEMMA ResolveStep ==
  ASSUME Inv, NEW t \in Threads,
         (\E host \in Hosts : Resolve(t, host)) \/ ResolveV6(t) \/ ResolveRecord(t)
  PROVE  Inv'
<1>0. ThreadOK(t) /\ HostsOK /\ LogOK /\ pc \in [Threads -> Places]
      /\ DOMAIN arg = Threads /\ DOMAIN sock = Threads
  BY ThreadFacts
<1>1. ASSUME NEW host \in Hosts, Resolve(t, host) PROVE Inv'
  <2>1. HostsOK'
    <3>1. V4[host] \in Addresses
      BY DEF Addresses
    <3> QED
      BY <1>0, <1>1, <3>1, RememberKeepsHosts DEF Resolve
  <2>2. LogOK' /\ Grown
    BY <1>0, <1>1, NoRecordKeepsLog DEF Resolve
  <2>3. pc'[t] = "resolve_v6" /\ arg'[t] = host /\ sock' = sock /\ pc[t] = "idle"
    BY <1>0, <1>1 DEF Resolve, Goto
  <2>4. LocalTo(t)
    BY <1>0, <1>1, <2>3 DEF Resolve, Goto, LocalTo
  <2>5. ArgOK(t)'
    BY <2>3 DEF ArgOK, Preparing
  <2>6. ThreadOK(t)'
    BY <2>2, <2>3, <2>5, SocketKept DEF Preparing, Places
  <2> QED
    BY <2>1, <2>2, <2>4, <2>6, LocalStep
<1>2. CASE ResolveV6(t)
  <2>0. arg[t] \in Hosts
    BY <1>0, <1>2 DEF ResolveV6, ThreadOK, ArgOK
  <2>1. HostsOK'
    <3>1. V6[arg[t]] \in Addresses
      BY <2>0 DEF Addresses
    <3> QED
      BY <1>0, <1>2, <2>0, <3>1, RememberKeepsHosts DEF ResolveV6
  <2>2. LogOK' /\ Grown
    BY <1>0, <1>2, NoRecordKeepsLog DEF ResolveV6
  <2>3. /\ pc'[t] = "resolve_record" /\ arg' = arg /\ sock' = sock
        /\ pc[t] = "resolve_v6"
    BY <1>0, <1>2 DEF ResolveV6, Goto
  <2>4. LocalTo(t)
    BY <1>0, <1>2, <2>3 DEF ResolveV6, Goto, LocalTo
  <2>5. ArgOK(t)'
    BY <2>0, <2>3 DEF ArgOK, Preparing
  <2>6. ThreadOK(t)'
    BY <2>2, <2>3, <2>5, SocketKept DEF Preparing, Places
  <2> QED
    BY <2>1, <2>2, <2>4, <2>6, LocalStep
<1>3. CASE ResolveRecord(t)
  <2>1. HostsOK'
    BY <1>0, <1>3 DEF ResolveRecord, HostsOK
  <2>2. LogOK' /\ Grown
    BY <1>0, <1>3, RecordKeepsLog DEF ResolveRecord
  <2>3. /\ pc'[t] = "idle" /\ arg'[t] = NoHost /\ sock' = sock
        /\ pc[t] = "resolve_record"
    BY <1>0, <1>3 DEF ResolveRecord, Goto
  <2>4. LocalTo(t)
    BY <1>0, <1>3, <2>3 DEF ResolveRecord, Goto, LocalTo
  <2>5. ArgOK(t)'
    BY <2>3 DEF ArgOK, Preparing
  <2>6. ThreadOK(t)'
    BY <2>2, <2>3, <2>5, SocketKept DEF Preparing, Places
  <2> QED
    BY <2>1, <2>2, <2>4, <2>6, LocalStep
<1> QED
  BY <1>1, <1>2, <1>3

LEMMA Bounds ==
  /\ MaxCapture \in Nat /\ MaxCapture > 0 /\ HostCap \in Nat /\ HostCap > 0
  /\ ResponseLen \in Nat /\ MaxSent \in Nat
  /\ NoHost \notin Hosts
<1>1. {HostCap, MaxCapture} \subseteq Nat \ {0}
  BY HoneypotAssumption
<1>2. {ResponseLen, MaxSent, MaxLog} \subseteq Nat /\ NoHost \notin Hosts
  BY HoneypotAssumption
<1> QED
  BY <1>1, <1>2

LEMMA ConnectStep ==
  ASSUME Inv, NEW t \in Threads,
         (\E peer \in Peers : Connect(t, peer)) \/ ConnectRecord(t)
  PROVE  Inv'
<1>0. ThreadOK(t) /\ HostsOK /\ LogOK /\ pc \in [Threads -> Places]
      /\ DOMAIN arg = Threads /\ DOMAIN sock = Threads
  BY ThreadFacts
<1>1. ASSUME NEW peer \in Peers, Connect(t, peer) PROVE Inv'
  <2>1. HostsOK'
    BY <1>0, <1>1 DEF Connect, HostsOK
  <2>2. LogOK' /\ Grown
    BY <1>0, <1>1, NoRecordKeepsLog DEF Connect
  <2>3. /\ pc'[t] = "connect_record" /\ sock' = sock /\ pc[t] = "idle"
        /\ arg'[t] = [peer |-> peer, domain |-> resolved[peer]]
    BY <1>0, <1>1 DEF Connect, Goto, DomainFor
  <2>4. LocalTo(t)
    BY <1>0, <1>1, <2>3 DEF Connect, Goto, LocalTo
  <2>5. ArgOK(t)'
    <3>1. resolved[peer] \in Domains
      BY <1>0 DEF HostsOK
    <3>2. arg'[t] \in [peer: Peers, domain: Domains]
      BY <2>3, <3>1
    <3>3. pc'[t] \notin Preparing
      BY <2>3 DEF Preparing
    <3> QED
      BY <2>3, <3>2, <3>3 DEF ArgOK
  <2>6. ThreadOK(t)'
    BY <2>2, <2>3, <2>5, SocketKept DEF Preparing, Places
  <2> QED
    BY <2>1, <2>2, <2>4, <2>6, LocalStep
<1>2. CASE ConnectRecord(t)
  <2> DEFINE peer == arg[t].peer
             domain == arg[t].domain
             event == Event("Connect", Len(log) + 1, peer, domain, 0)
             new == NewSocket(Len(log) + 1, peer, domain)
  <2>0. peer \in Peers /\ domain \in Domains
    BY <1>0, <1>2 DEF ConnectRecord, ThreadOK, ArgOK
  <2>1. HostsOK'
    BY <1>0, <1>2 DEF ConnectRecord, HostsOK
  <2>2. LogOK' /\ Grown
    <3>1. Record(event)
      BY <1>2 DEF ConnectRecord
    <3> HIDE DEF event
    <3> QED
      BY <1>0, <3>1, RecordKeepsLog
  <2>3. pc'[t] = "idle" /\ arg'[t] = NoHost /\ sock'[t] = new
    BY <1>0, <1>2 DEF ConnectRecord, Goto
  <2>4. LocalTo(t)
    BY <1>0, <1>2, <2>3 DEF ConnectRecord, Goto, LocalTo
  <2>5. ArgOK(t)'
    BY <2>3 DEF ArgOK, Preparing
  <2>6. SocketOK(new, "idle", log')
    <3>1. new \in Socket
      <4>1. Len(log) \in Nat
        BY <1>0, LenProperties DEF LogOK
      <4> QED
        BY <2>0, <4>1 DEF NewSocket, Socket
    <3>2. StageOK(new, "idle") /\ BufferOK(new) /\ LoggedOK(new, log')
      BY Bounds DEF NewSocket, StageOK, Preparing, BufferOK, Told, LoggedOK
    <3> QED
      BY <3>1, <3>2 DEF SocketOK
  <2>7. ThreadOK(t)'
    <3> HIDE DEF new
    <3> QED
      BY <2>3, <2>5, <2>6 DEF ThreadOK, Places
  <2> QED
    BY <2>1, <2>2, <2>4, <2>7, LocalStep
<1> QED
  BY <1>1, <1>2

-----------------------------------------------------------------------------
(* The socket. *)

\* A call on an idle socket that records nothing.
LEMMA UpdateStep ==
  ASSUME Inv, NEW t \in Threads, HasSocket(t), NEW s,
         NEW where \in {"idle", "log_payload"},
         Update(t, s, where), SocketOK(s, where, log)
  PROVE  Inv'
<1>0. ThreadOK(t) /\ HostsOK /\ LogOK /\ pc \in [Threads -> Places]
      /\ DOMAIN arg = Threads /\ DOMAIN sock = Threads
  BY ThreadFacts
<1>1. HostsOK'
  BY <1>0 DEF Update, HostsOK
<1>2. LogOK' /\ Grown /\ log' = log
  BY <1>0, NoRecordKeepsLog DEF Update
<1>3. pc'[t] = where /\ arg' = arg /\ sock'[t] = s
  BY <1>0 DEF Update, Goto
<1>4. LocalTo(t)
  BY <1>0, <1>3 DEF Update, Goto, LocalTo
<1>5. ArgOK(t)'
  <2>1. arg[t] = NoHost
    BY <1>0 DEF HasSocket, ThreadOK, ArgOK
  <2> QED
    BY <1>3, <2>1 DEF ArgOK
<1>6. ThreadOK(t)'
  BY <1>2, <1>3, <1>5 DEF ThreadOK, Places
<1> QED
  BY <1>1, <1>2, <1>4, <1>6, LocalStep

LEMMA IdleSocket ==
  ASSUME Inv, NEW t \in Threads, HasSocket(t)
  PROVE  SocketOK(sock[t], "idle", log)
  BY DEF Inv, HasSocket, ThreadOK

LEMMA SendStep ==
  ASSUME Inv, NEW t \in Threads, NEW n \in Nat, NEW completes \in BOOLEAN,
         TrySend(t, n, completes)
  PROVE  Inv'
<1> DEFINE s == sock[t]
           kept == Captures(s, n)
           request == s.request + kept
           headers == s.headers \/ (completes /\ kept > 0)
           respond == ~s.ready /\ request > 0 /\ (headers \/ request >= MaxCapture)
           where == IF respond THEN "log_payload" ELSE "idle"
           new == [s EXCEPT !.request = request, !.headers = headers, !.sent = @ + n]
<1>1. HasSocket(t) /\ Update(t, new, where)
  BY DEF TrySend
<1>2. SocketOK(s, "idle", log)
  BY <1>1, IdleSocket
<1>3. /\ s \in Socket /\ s.request \in Nat /\ s.sent \in Nat /\ s.captured \in Nat
      /\ s.ready \in BOOLEAN /\ s.headers \in BOOLEAN
  BY <1>2 DEF SocketOK, Socket
<1>4. /\ s.request = IF s.sent <= MaxCapture THEN s.sent ELSE MaxCapture
      /\ s.payloadLogged = s.ready /\ s.mockLogged = s.ready
      /\ s.payloadLogged => s.captured \in 1 .. s.request
      /\ s.ready \/ s.closed => Told(s)
  BY <1>2 DEF SocketOK, BufferOK, StageOK, Preparing
<1>5. /\ request \in Nat /\ request >= s.request
      /\ request = IF s.sent + n <= MaxCapture THEN s.sent + n ELSE MaxCapture
  BY <1>3, <1>4, Bounds DEF Captures
<1>6. headers \in BOOLEAN
  BY <1>3
<1> HIDE DEF s, kept, request, headers
<1>7. new \in Socket
  <2> DEFINE sent == s.sent + n
  <2>1. sent \in Nat
    BY <1>3
  <2>2. new = [s EXCEPT !.request = request, !.headers = headers, !.sent = sent]
    OBVIOUS
  <2> HIDE DEF new, sent
  <2> QED
    BY <1>3, <1>5, <1>6, <2>1, <2>2 DEF Socket
<1>8. /\ new.request = request /\ new.sent = s.sent + n
      /\ new.ready = s.ready /\ new.payloadLogged = s.payloadLogged
      /\ new.mockLogged = s.mockLogged /\ new.captured = s.captured
      /\ new.closed = s.closed /\ new.conn = s.conn /\ Told(new) = Told(s)
  BY <1>3 DEF Socket, Told
<1> HIDE DEF new
<1>9. StageOK(new, where)
  <2>1. CASE respond
    BY <1>4, <1>8, <2>1 DEF StageOK, Preparing
  <2>2. CASE ~respond
    BY <1>4, <1>8, <2>2 DEF StageOK, Preparing
  <2> QED
    BY <2>1, <2>2
<1>10. BufferOK(new)
  <2>1. new.payloadLogged => new.captured \in 1 .. new.request
    BY <1>3, <1>4, <1>5, <1>8
  <2> QED
    BY <1>4, <1>5, <1>8, <2>1 DEF BufferOK
<1>11. LoggedOK(new, log)
  BY <1>2, <1>8 DEF SocketOK, LoggedOK
<1>12. SocketOK(new, where, log)
  BY <1>7, <1>9, <1>10, <1>11 DEF SocketOK
<1>13. where \in {"idle", "log_payload"}
  OBVIOUS
<1> HIDE DEF where
<1> QED
  BY <1>1, <1>12, <1>13, UpdateStep

LEMMA FlushStep ==
  ASSUME Inv, NEW t \in Threads, TryFlush(t)
  PROVE  Inv'
<1>1. HasSocket(t) /\ Update(t, sock[t], "log_payload")
  BY DEF TryFlush
<1>2. SocketOK(sock[t], "idle", log)
  BY <1>1, IdleSocket
<1>3. StageOK(sock[t], "log_payload")
  BY <1>2 DEF TryFlush, SocketOK, StageOK, Preparing
<1>4. SocketOK(sock[t], "log_payload", log)
  BY <1>2, <1>3 DEF SocketOK
<1> QED
  BY <1>1, <1>4, UpdateStep

\* try_recv of a ready response moves the offset or closes the socket.
LEMMA ReadKeeps ==
  ASSUME NEW s \in Socket, NEW n \in Nat, NEW peek \in BOOLEAN, s.ready, Told(s)
  PROVE  LET r == Read(s, n, peek)
         IN /\ r \in Socket /\ Told(r) /\ r.ready
            /\ r.payloadLogged = s.payloadLogged /\ r.mockLogged = s.mockLogged
            /\ r.captured = s.captured /\ r.conn = s.conn
            /\ r.request = s.request /\ r.sent = s.sent
<1> DEFINE left == ResponseLen - s.offset
           taken == s.offset + (IF n < left THEN n ELSE left)
<1>1. taken \in Nat
  BY Bounds DEF Socket
<1>2. CASE left = 0
  <2>1. Read(s, n, peek) = Push([s EXCEPT !.closed = TRUE])
    BY <1>2 DEF Read
  <2> QED
    BY <2>1 DEF Push, Socket, Told
<1>3. CASE left # 0 /\ peek
  <2>1. Read(s, n, peek) = s
    BY <1>3 DEF Read
  <2> QED
    BY <2>1
<1>4. CASE left # 0 /\ ~peek
  <2>1. Read(s, n, peek) = [s EXCEPT !.offset = taken]
    BY <1>4 DEF Read
  <2> HIDE DEF taken
  <2> QED
    BY <1>1, <2>1 DEF Socket, Told
<1> QED
  BY <1>2, <1>3, <1>4

LEMMA ReceiveStep ==
  ASSUME Inv, NEW t \in Threads, NEW n \in Nat, NEW peek \in BOOLEAN,
         TryRecv(t, n, peek)
  PROVE  Inv'
<1> DEFINE s == sock[t]
           new == Read(s, n, peek)
<1>1. HasSocket(t) /\ s.ready /\ Update(t, new, "idle")
  BY DEF TryRecv
<1>2. SocketOK(s, "idle", log)
  BY <1>1, IdleSocket
<1>3. s \in Socket /\ Told(s)
  BY <1>1, <1>2 DEF SocketOK, BufferOK
<1>4. /\ new \in Socket /\ Told(new) /\ new.ready
      /\ new.payloadLogged = s.payloadLogged /\ new.mockLogged = s.mockLogged
      /\ new.captured = s.captured /\ new.conn = s.conn
      /\ new.request = s.request /\ new.sent = s.sent
  <2> HIDE DEF s
  <2> QED
    BY <1>1, <1>3, ReadKeeps
<1> HIDE DEF s, new
<1>5. StageOK(new, "idle") /\ BufferOK(new)
  BY <1>1, <1>2, <1>4 DEF SocketOK, StageOK, Preparing, BufferOK
<1>6. LoggedOK(new, log)
  BY <1>1, <1>2, <1>4 DEF SocketOK, LoggedOK
<1>7. SocketOK(new, "idle", log)
  BY <1>4, <1>5, <1>6 DEF SocketOK
<1> QED
  BY <1>1, <1>7, UpdateStep

\* close and the calls that replace the handler: only closed, the handler and
\* who waits change.
LEMMA HandlerStep ==
  ASSUME Inv, NEW t \in Threads, Close(t) \/ Poll(t)
  PROVE  Inv'
<1> DEFINE s == sock[t]
<1>1. HasSocket(t)
  BY DEF Close, Poll, PollRead, PollWrite, ReplaceHandler
<1>2. SocketOK(s, "idle", log)
  BY <1>1, IdleSocket
<1>3. PICK closed \in BOOLEAN, handler \in SUBSET Readers,
           waiting \in SUBSET Readers :
        /\ Update(t, [s EXCEPT !.closed = closed, !.handler = handler,
                               !.waiting = waiting], "idle")
        /\ s.ready \/ closed => handler \cap waiting = {}
  <2>0. /\ s \in Socket /\ s.closed \in BOOLEAN /\ s.ready \in BOOLEAN
        /\ s.handler \in SUBSET Readers /\ s.waiting \in SUBSET Readers
    BY <1>2 DEF SocketOK, Socket
  <2> DEFINE new(c, h, w) ==
               [s EXCEPT !.closed = c, !.handler = h, !.waiting = w]
  <2>1. CASE Close(t)
    <3>1. Push([s EXCEPT !.closed = TRUE]) =
            new(TRUE, s.handler, s.waiting \ s.handler)
      BY <2>0 DEF Push, Socket
    <3>2. s.waiting \ s.handler \in SUBSET Readers
      BY <2>0
    <3> HIDE DEF s
    <3>3. s.handler \cap (s.waiting \ s.handler) = {}
      OBVIOUS
    <3> QED
      BY <2>0, <2>1, <3>1, <3>2, <3>3 DEF Close, s
  <2>2. ASSUME NEW reader \in Readers, PollRead(t, reader)
        PROVE  \E h, w \in SUBSET Readers :
                 /\ Update(t, new(s.closed, h, w), "idle")
                 /\ s.ready \/ s.closed => h \cap w = {}
    <3> DEFINE w == IF s.ready \/ s.closed
                    THEN s.waiting \ {reader} ELSE s.waiting \cup {reader}
    <3>1. [s EXCEPT !.handler = {reader}, !.waiting = w] =
            new(s.closed, {reader}, w)
      BY <2>0 DEF Socket
    <3>2. /\ {reader} \in SUBSET Readers /\ w \in SUBSET Readers
          /\ s.ready \/ s.closed => {reader} \cap w = {}
      BY <2>0
    <3>3. Update(t, [s EXCEPT !.handler = {reader}, !.waiting = w], "idle")
      BY <2>2 DEF PollRead
    <3> HIDE DEF w, new
    <3> QED
      BY <3>1, <3>2, <3>3
  <2>3. ASSUME NEW reader \in Readers, PollWrite(t, reader)
        PROVE  \E h, w \in SUBSET Readers :
                 /\ Update(t, new(s.closed, h, w), "idle")
                 /\ s.ready \/ s.closed => h \cap w = {}
    <3> DEFINE w == s.waiting \ {reader}
    <3>1. [s EXCEPT !.handler = {reader}, !.waiting = w] =
            new(s.closed, {reader}, w)
      BY <2>0 DEF Socket
    <3>2. /\ {reader} \in SUBSET Readers /\ w \in SUBSET Readers
          /\ {reader} \cap w = {}
      BY <2>0
    <3>3. Update(t, [s EXCEPT !.handler = {reader}, !.waiting = w], "idle")
      BY <2>3 DEF PollWrite
    <3> HIDE DEF w, new
    <3> QED
      BY <3>1, <3>2, <3>3
  <2>4. ASSUME ReplaceHandler(t)
        PROVE  \E h, w \in SUBSET Readers :
                 /\ Update(t, new(s.closed, h, w), "idle")
                 /\ s.ready \/ s.closed => h \cap w = {}
    <3>1. [s EXCEPT !.handler = {}] = new(s.closed, {}, s.waiting)
      BY <2>0 DEF Socket
    <3>2. {} \in SUBSET Readers /\ {} \cap s.waiting = {}
      OBVIOUS
    <3>3. Update(t, [s EXCEPT !.handler = {}], "idle")
      BY <2>4 DEF ReplaceHandler
    <3> HIDE DEF new
    <3> QED
      BY <2>0, <3>1, <3>2, <3>3
  <2> QED
    BY <2>0, <2>1, <2>2, <2>3, <2>4 DEF Poll
<1> DEFINE new == [s EXCEPT !.closed = closed, !.handler = handler,
                            !.waiting = waiting]
<1>4. /\ new \in Socket /\ new.closed = closed
      /\ new.handler = handler /\ new.waiting = waiting
      /\ new.ready = s.ready /\ new.payloadLogged = s.payloadLogged
      /\ new.mockLogged = s.mockLogged /\ new.captured = s.captured
      /\ new.conn = s.conn /\ new.request = s.request /\ new.sent = s.sent
  <2>1. s \in Socket
    BY <1>2 DEF SocketOK
  <2> HIDE DEF s
  <2> QED
    BY <2>1 DEF Socket
<1> HIDE DEF s, new
<1>5. StageOK(new, "idle") /\ BufferOK(new)
  BY <1>2, <1>3, <1>4 DEF SocketOK, StageOK, Preparing, BufferOK, Told
<1>6. LoggedOK(new, log)
  BY <1>2, <1>4 DEF SocketOK, LoggedOK
<1>7. SocketOK(new, "idle", log)
  BY <1>4, <1>5, <1>6 DEF SocketOK
<1> QED
  BY <1>1, <1>3, <1>7, UpdateStep DEF new

\* try_recv that has to set the response up first.
LEMMA PrepareStep ==
  ASSUME Inv, NEW t \in Threads, NEW n \in Nat, NEW peek \in BOOLEAN,
         TryRecvPrepares(t, n, peek)
  PROVE  Inv'
<1>0. ThreadOK(t) /\ HostsOK /\ LogOK /\ pc \in [Threads -> Places]
      /\ DOMAIN arg = Threads /\ DOMAIN sock = Threads
  BY ThreadFacts
<1>1. SocketOK(sock[t], "idle", log)
  BY IdleSocket DEF TryRecvPrepares
<1>2. HostsOK'
  BY <1>0 DEF TryRecvPrepares, HostsOK
<1>3. LogOK' /\ Grown /\ log' = log
  BY <1>0, NoRecordKeepsLog DEF TryRecvPrepares
<1>4. /\ pc'[t] = "log_payload" /\ arg'[t] = [n |-> n, peek |-> peek]
      /\ sock' = sock
  BY <1>0 DEF TryRecvPrepares, Goto
<1>5. LocalTo(t)
  BY <1>0, <1>4 DEF TryRecvPrepares, Goto, LocalTo
<1>6. ArgOK(t)'
  BY <1>4 DEF ArgOK
<1>7. SocketOK(sock[t], "log_payload", log)
  <2>1. StageOK(sock[t], "log_payload")
    BY <1>1 DEF TryRecvPrepares, SocketOK, StageOK, Preparing
  <2> QED
    BY <1>1, <2>1 DEF SocketOK
<1>8. ThreadOK(t)'
  BY <1>3, <1>4, <1>6, <1>7 DEF ThreadOK, Places
<1> QED
  BY <1>2, <1>3, <1>5, <1>8, LocalStep

\* The first record of a response: the payload.
LEMMA PayloadStep ==
  ASSUME Inv, NEW t \in Threads, LogPayload(t)
  PROVE  Inv'
<1> DEFINE s == sock[t]
           new == [s EXCEPT !.payloadLogged = TRUE, !.captured = s.request]
           event == Event("Payload", s.conn, s.peer, s.domain, s.request)
<1>0. ThreadOK(t) /\ HostsOK /\ LogOK /\ pc \in [Threads -> Places]
      /\ DOMAIN arg = Threads /\ DOMAIN sock = Threads
  BY ThreadFacts
<1>1. pc[t] = "log_payload"
  BY DEF LogPayload
<1>2. SocketOK(s, "log_payload", log)
  BY <1>0, <1>1 DEF ThreadOK, Preparing
<1>3. /\ s \in Socket /\ ~s.ready /\ ~s.payloadLogged /\ ~s.mockLogged
      /\ s.request > 0 /\ s.request \in Nat /\ BufferOK(s)
  BY <1>2 DEF SocketOK, StageOK, Preparing, Socket
<1>4. Record(event)
  BY <1>3 DEF LogPayload
<1>5. HostsOK'
  BY <1>0 DEF LogPayload, HostsOK
<1>6. LogOK' /\ Grown
  <2> HIDE DEF event
  <2> QED
    BY <1>0, <1>4, RecordKeepsLog
<1>7. pc'[t] = "log_mock" /\ arg' = arg /\ sock'[t] = new
  BY <1>0 DEF LogPayload, Goto
<1>8. LocalTo(t)
  BY <1>0, <1>7 DEF LogPayload, Goto, LocalTo
<1>9. ArgOK(t)'
  BY <1>0, <1>1, <1>7 DEF ThreadOK, ArgOK, Preparing
<1>10. \E i \in DOMAIN log' : log'[i] = event
  <2>1. PICK S : log \in Seq(S)
    BY <1>0 DEF LogOK
  <2>2. log' = Append(log, event)
    BY <1>4 DEF Record
  <2> HIDE DEF event
  <2>3. Len(log) \in Nat /\ DOMAIN log' = 1 .. Len(log) + 1
        /\ log'[Len(log) + 1] = event
    BY <2>1, <2>2, AppendGrows
  <2> QED
    BY <2>3
<1>11. event.op = "Payload" /\ event.bytes = s.request /\ event.conn = s.conn
  BY DEF Event
<1> HIDE DEF event, s
<1>12. /\ new \in Socket /\ new.payloadLogged /\ new.captured = s.request
       /\ ~new.ready /\ ~new.mockLogged /\ new.conn = s.conn
       /\ new.request = s.request /\ new.sent = s.sent
       /\ new.closed = s.closed /\ Told(new) = Told(s)
  BY <1>3 DEF Socket, Told
<1> HIDE DEF new
<1>13. StageOK(new, "log_mock")
  BY <1>3, <1>12 DEF StageOK, Preparing
<1>14. BufferOK(new)
  BY <1>3, <1>12 DEF BufferOK
<1>15. LoggedOK(new, log')
  BY <1>10, <1>11, <1>12 DEF LoggedOK
<1>16. SocketOK(new, "log_mock", log')
  BY <1>12, <1>13, <1>14, <1>15 DEF SocketOK
<1>17. ThreadOK(t)'
  BY <1>7, <1>9, <1>16 DEF ThreadOK, Places
<1> QED
  BY <1>5, <1>6, <1>8, <1>17, LocalStep

\* The second record: the mock response, which is ready from then on.
LEMMA MockStep ==
  ASSUME Inv, NEW t \in Threads, LogMock(t)
  PROVE  Inv'
<1> DEFINE s == sock[t]
           answered == Push([s EXCEPT !.mockLogged = TRUE, !.ready = TRUE])
           new == IF arg[t] = NoHost THEN answered
                  ELSE Read(answered, arg[t].n, arg[t].peek)
           event == Event("Mock", s.conn, s.peer, s.domain, ResponseLen)
<1>0. ThreadOK(t) /\ HostsOK /\ LogOK /\ pc \in [Threads -> Places]
      /\ DOMAIN arg = Threads /\ DOMAIN sock = Threads
  BY ThreadFacts
<1>1. pc[t] = "log_mock"
  BY DEF LogMock
<1>2. SocketOK(s, "log_mock", log)
  BY <1>0, <1>1 DEF ThreadOK, Preparing
<1>3. /\ s \in Socket /\ ~s.ready /\ s.payloadLogged /\ ~s.mockLogged
      /\ s.request > 0 /\ s.request \in Nat /\ BufferOK(s) /\ LoggedOK(s, log)
  BY <1>2 DEF SocketOK, StageOK, Preparing, Socket
<1>4. Record(event)
  BY <1>3 DEF LogMock
<1>5. HostsOK'
  BY <1>0 DEF LogMock, HostsOK
<1>6. LogOK' /\ Grown
  <2> HIDE DEF event
  <2> QED
    BY <1>0, <1>4, RecordKeepsLog
<1>7. pc'[t] = "idle" /\ arg'[t] = NoHost /\ sock'[t] = new
  BY <1>0 DEF LogMock, Goto
<1>8. LocalTo(t)
  BY <1>0, <1>7 DEF LogMock, Goto, LocalTo
<1>9. ArgOK(t)'
  BY <1>7 DEF ArgOK, Preparing
<1>10. \E i, j \in DOMAIN log' :
         /\ i < j
         /\ log'[i].op = "Payload" /\ log'[i].bytes = s.captured
         /\ log'[i].conn = s.conn /\ log'[j] = event
  <2>1. PICK S : log \in Seq(S)
    BY <1>0 DEF LogOK
  <2>2. log' = Append(log, event)
    BY <1>4 DEF Record
  <2>3. PICK i \in DOMAIN log :
          log[i].op = "Payload" /\ log[i].bytes = s.captured /\ log[i].conn = s.conn
    BY <1>3 DEF LoggedOK
  <2> HIDE DEF event, s
  <2>4. /\ Len(log) \in Nat /\ DOMAIN log = 1 .. Len(log)
        /\ DOMAIN log' = 1 .. Len(log) + 1
        /\ \A k \in DOMAIN log : log'[k] = log[k]
        /\ log'[Len(log) + 1] = event
    BY <2>1, <2>2, AppendGrows
  <2>5. i \in DOMAIN log' /\ Len(log) + 1 \in DOMAIN log' /\ i < Len(log) + 1
    BY <2>4
  <2> QED
    BY <2>3, <2>4, <2>5
<1>11. event.op = "Mock" /\ event.bytes = ResponseLen /\ event.conn = s.conn
  BY DEF Event
<1>12. arg[t] = NoHost \/ arg[t] \in [n: Nat, peek: BOOLEAN]
  BY <1>0, <1>1 DEF ThreadOK, ArgOK, Preparing
<1> HIDE DEF event, s
<1>13. /\ answered \in Socket /\ answered.ready /\ Told(answered)
       /\ answered.payloadLogged /\ answered.mockLogged
       /\ answered.captured = s.captured /\ answered.conn = s.conn
       /\ answered.request = s.request /\ answered.sent = s.sent
  BY <1>3 DEF Push, Socket, Told
<1> HIDE DEF answered
<1>14. /\ new \in Socket /\ new.ready /\ Told(new)
       /\ new.payloadLogged /\ new.mockLogged
       /\ new.captured = s.captured /\ new.conn = s.conn
       /\ new.request = s.request /\ new.sent = s.sent
  <2>1. CASE arg[t] = NoHost
    BY <1>13, <2>1
  <2>2. CASE arg[t] # NoHost
    <3>1. arg[t].n \in Nat /\ arg[t].peek \in BOOLEAN
      BY <1>12, <2>2
    <3> DEFINE n == arg[t].n
               peek == arg[t].peek
    <3> HIDE DEF n, peek
    <3>2. LET r == Read(answered, n, peek)
          IN /\ r \in Socket /\ Told(r) /\ r.ready
             /\ r.payloadLogged = answered.payloadLogged
             /\ r.mockLogged = answered.mockLogged
             /\ r.captured = answered.captured /\ r.conn = answered.conn
             /\ r.request = answered.request /\ r.sent = answered.sent
      <4>1. n \in Nat /\ peek \in BOOLEAN
        BY <3>1 DEF n, peek
      <4> QED
        BY <1>13, <4>1, ReadKeeps
    <3> QED
      BY <1>13, <2>2, <3>2 DEF n, peek
  <2> QED
    BY <2>1, <2>2
<1> HIDE DEF new
<1>15. StageOK(new, "idle")
  BY <1>14 DEF StageOK, Preparing
<1>16. BufferOK(new)
  BY <1>3, <1>14 DEF BufferOK
<1>17. LoggedOK(new, log')
  BY <1>10, <1>11, <1>14 DEF LoggedOK
<1>18. SocketOK(new, "idle", log')
  BY <1>14, <1>15, <1>16, <1>17 DEF SocketOK
<1>19. ThreadOK(t)'
  BY <1>7, <1>9, <1>18 DEF ThreadOK, Places
<1> QED
  BY <1>5, <1>6, <1>8, <1>19, LocalStep

-----------------------------------------------------------------------------
LEMMA InitInv == Init => Inv
<1> SUFFICES ASSUME Init PROVE Inv
  OBVIOUS
<1>1. HostsOK
  BY DEF Init, HostsOK, Domains
<1>2. LogOK
  <2>1. log = <<>> /\ events = <<>>
    BY DEF Init
  <2>2. log \in Seq({})
    BY <2>1
  <2>3. Latest(log) = <<>>
    BY <2>1, EventCapAssumption DEF Latest
  <2> QED
    BY <2>1, <2>2, <2>3 DEF LogOK
<1>3. ASSUME NEW t \in Threads PROVE ThreadOK(t)
  BY DEF Init, ThreadOK, ArgOK, Places, Preparing
<1> QED
  BY <1>1, <1>2, <1>3 DEF Init, Inv, Places

LEMMA StepInv == Inv /\ [Next]_vars => Inv'
<1> SUFFICES ASSUME Inv, [Next]_vars PROVE Inv'
  OBVIOUS
<1>1. CASE UNCHANGED vars
  <2>1. LogOK' /\ Grown
    BY <1>1, NoRecordKeepsLog DEF Inv, vars
  <2>2. HostsOK'
    BY <1>1 DEF Inv, vars, HostsOK
  <2>3. ASSUME NEW t \in Threads PROVE ThreadOK(t)'
    BY <1>1 DEF Inv, vars, ThreadOK, ArgOK
  <2> QED
    BY <1>1, <2>1, <2>2, <2>3 DEF Inv, vars
<1>2. ASSUME NEW t \in Threads, Call(t) PROVE Inv'
  <2>1. 0 .. MaxSent \subseteq Nat /\ 0 .. ResponseLen \subseteq Nat
    BY Bounds
  <2>2. CASE \E host \in Hosts : Resolve(t, host)
    BY <2>2, ResolveStep
  <2>3. CASE \E peer \in Peers : Connect(t, peer)
    BY <2>3, ConnectStep
  <2>4. ASSUME NEW n \in 0 .. MaxSent, NEW completes \in BOOLEAN,
               TrySend(t, n, completes)
        PROVE  Inv'
    BY <2>1, <2>4, SendStep
  <2>5. CASE TryFlush(t)
    BY <2>5, FlushStep
  <2>6. CASE Close(t)
    BY <2>6, HandlerStep
  <2>7. ASSUME NEW n \in 0 .. ResponseLen, NEW peek \in BOOLEAN,
               TryRecvPrepares(t, n, peek) \/ TryRecv(t, n, peek)
        PROVE  Inv'
    BY <2>1, <2>7, PrepareStep, ReceiveStep
  <2> QED
    BY <1>2, <2>2, <2>3, <2>4, <2>5, <2>6, <2>7 DEF Call
<1>3. ASSUME NEW t \in Threads, Continue(t) PROVE Inv'
  BY <1>3, ResolveStep, ConnectStep, PayloadStep, MockStep DEF Continue
<1>4. ASSUME NEW t \in Pollers, Poll(t) PROVE Inv'
  <2>1. t \in Threads
    BY HoneypotAssumption
  <2> QED
    BY <1>4, <2>1, HandlerStep
<1> QED
  BY <1>1, <1>2, <1>3, <1>4 DEF Next

LEMMA Invariant == Spec => []Inv
  BY InitInv, StepInv, PTL DEF Spec

-----------------------------------------------------------------------------
\* record and its eviction: for every capacity, number of threads and
\* interleaving of their calls, the event list is the latest part of what was
\* recorded, in order.
THEOREM LatestAlwaysKept == Spec => []KeepsLatestEvents
<1>1. Inv => KeepsLatestEvents
  BY DEF Inv, LogOK, KeepsLatestEvents
<1> QED
  BY <1>1, Invariant, PTL

\* try_send: for every limit and every split of a request into calls, what is
\* buffered is what was sent up to the limit, and what was captured is a
\* non-empty prefix of it.
THEOREM CaptureAlwaysPrefix == Spec => []CaptureIsPrefix
<1>1. Inv => CaptureIsPrefix
  BY DEF Inv, ThreadOK, SocketOK, BufferOK, Sockets, CaptureIsPrefix
<1> QED
  BY <1>1, Invariant, PTL

\* push_interest: for any number of tasks that poll a socket, the reader whose
\* handler is the registered one never sleeps on a socket that is readable or
\* closed.  A reader whose handler another poll, set_handler or remove_handler
\* has displaced stays in waiting and may: the code has nobody who tells it.
THEOREM WakeupNeverLost == Spec => []NoLostWakeup
<1>1. Inv => NoLostWakeup
  BY DEF Inv, ThreadOK, SocketOK, BufferOK, Told, Sockets, NoLostWakeup
<1> QED
  BY <1>1, Invariant, PTL

-----------------------------------------------------------------------------
(* The map of resolved hosts. *)

LEMMA ImageFinite ==
  ASSUME NEW S, IsFiniteSet(S), NEW f
  PROVE  IsFiniteSet({f[x] : x \in S})
<1> DEFINE image == {f[x] : x \in S}
<1>1. [x \in S |-> f[x]] \in Surjection(S, image)
  BY DEF Surjection
<1> HIDE DEF image
<1>2. IsFiniteSet(image)
  BY <1>1, FS_Surjection
<1> QED
  BY <1>2 DEF image

LEMMA KnownFinite ==
  /\ IsFiniteSet(Addresses) /\ IsFiniteSet(Known)
  /\ Cardinality(Known) \in Nat
<1>1. IsFiniteSet(Hosts)
  BY HoneypotAssumption
<1>2. IsFiniteSet({V4[h] : h \in Hosts}) /\ IsFiniteSet({V6[h] : h \in Hosts})
  BY <1>1, ImageFinite
<1>3. IsFiniteSet(Addresses)
  BY <1>2, FS_Union DEF Addresses
<1>4. Known \subseteq Addresses
  BY DEF Known
<1> QED
  BY <1>3, <1>4, FS_Subset, FS_CardinalityType

Fits == Cardinality(Known) <= HostCap

LEMMA RememberFits ==
  ASSUME HostsOK, Fits, NEW a \in Addresses, NEW h \in Hosts, RememberHost(a, h)
  PROVE  /\ Fits'
         /\ ~(Known \subseteq Known') => Cardinality(Known) = HostCap
<1>0. IsFiniteSet(Known) /\ Cardinality(Known) \in Nat /\ HostCap \in Nat
  BY KnownFinite, Bounds
<1>1. CASE Cardinality(Known) >= HostCap
  <2>1. PICK victim \in Known :
          resolved' = [resolved EXCEPT ![victim] = NoHost, ![a] = h]
    BY <1>1 DEF RememberHost
  <2>2. Known' \subseteq (Known \ {victim}) \cup {a}
    BY <2>1 DEF HostsOK, Known
  <2>3. /\ IsFiniteSet(Known \ {victim})
        /\ Cardinality(Known \ {victim}) = Cardinality(Known) - 1
    BY <1>0, <2>1, FS_RemoveElement
  <2>4. /\ IsFiniteSet((Known \ {victim}) \cup {a})
        /\ Cardinality((Known \ {victim}) \cup {a}) <= Cardinality(Known)
    BY <1>0, <2>3, FS_AddElement
  <2>5. Cardinality(Known') <= Cardinality(Known)
    <3>1. /\ IsFiniteSet(Known')
          /\ Cardinality(Known') <= Cardinality((Known \ {victim}) \cup {a})
      BY <2>2, <2>4, FS_Subset
    <3>2. /\ Cardinality(Known') \in Nat
          /\ Cardinality((Known \ {victim}) \cup {a}) \in Nat
      BY <2>4, <3>1, FS_CardinalityType
    <3> QED
      BY <1>0, <2>4, <3>1, <3>2
  <2>6. Cardinality(Known) = HostCap
    BY <1>0, <1>1 DEF Fits
  <2> QED
    BY <2>5, <2>6 DEF Fits
<1>2. CASE ~(Cardinality(Known) >= HostCap)
  <2>1. resolved' = [resolved EXCEPT ![a] = h]
    BY <1>2 DEF RememberHost
  <2>2. Known' = Known \cup {a}
    BY <2>1, Bounds DEF HostsOK, Known
  <2>3. Cardinality(Known') <= Cardinality(Known) + 1
    <3>1. Cardinality(Known \cup {a}) = Cardinality(Known)
          \/ Cardinality(Known \cup {a}) = Cardinality(Known) + 1
      BY <1>0, FS_AddElement
    <3> QED
      BY <1>0, <2>2, <3>1
  <2>4. Fits'
    <3>1. Cardinality(Known') \in Nat
      BY <1>0, <2>2, FS_AddElement, FS_CardinalityType
    <3> QED
      BY <1>0, <1>2, <2>3, <3>1 DEF Fits
  <2> QED
    BY <2>2, <2>4
<1> QED
  BY <1>1, <1>2

\* Only a resolve touches the map, and it adds an address of its own host.
LEMMA OnlyResolveRemembers ==
  ASSUME Inv, Next
  PROVE  \/ resolved' = resolved
         \/ \E h \in Hosts : \E a \in {V4[h], V6[h]} : RememberHost(a, h)
<1>1. ASSUME NEW t \in Threads, Call(t)
      PROVE  \/ resolved' = resolved
             \/ \E h \in Hosts : RememberHost(V4[h], h)
  BY <1>1 DEF Call, Resolve, Connect, TrySend, TryFlush, Close, TryRecvPrepares,
              TryRecv, Update
<1>2. ASSUME NEW t \in Threads, Continue(t)
      PROVE  \/ resolved' = resolved
             \/ \E h \in Hosts : RememberHost(V6[h], h)
  <2>1. CASE ResolveV6(t)
    <3>1. arg[t] \in Hosts
      BY <2>1 DEF ResolveV6, Inv, ThreadOK, ArgOK
    <3> QED
      BY <2>1, <3>1 DEF ResolveV6
  <2>2. CASE ResolveRecord(t) \/ ConnectRecord(t) \/ LogPayload(t) \/ LogMock(t)
    BY <2>2 DEF ResolveRecord, ConnectRecord, LogPayload, LogMock
  <2> QED
    BY <1>2, <2>1, <2>2 DEF Continue
<1>3. ASSUME NEW t \in Pollers, Poll(t) PROVE resolved' = resolved
  BY <1>3 DEF Poll, PollRead, PollWrite, ReplaceHandler, Update
<1> QED
  BY <1>1, <1>2, <1>3 DEF Next

\* remember_host: for any number of hosts and threads the map stays within its
\* capacity, and a known address is dropped only when the map is full, so a
\* connection loses the name it was resolved from for no other reason.
THEOREM KnownHostsAlwaysKept == Spec => KnownHostsKept
<1> DEFINE Kept == /\ Cardinality(Known') <= HostCap
                   /\ ~(Known \subseteq Known') => Cardinality(Known) = HostCap
<1>1. Init => Fits
  <2> SUFFICES ASSUME Init PROVE Fits
    OBVIOUS
  <2>1. Known = {}
    BY DEF Init, Known
  <2> QED
    BY <2>1, FS_EmptySet, Bounds DEF Fits
<1>2. Inv /\ Fits /\ [Next]_vars => Fits' /\ [Kept]_resolved
  <2> SUFFICES ASSUME Inv, Fits, [Next]_vars PROVE Fits' /\ [Kept]_resolved
    OBVIOUS
  <2>1. ASSUME resolved' = resolved PROVE Fits' /\ [Kept]_resolved
    <3>1. Known' = Known
      BY <2>1 DEF Known
    <3> QED
      BY <2>1, <3>1 DEF Fits
  <2>2. ASSUME NEW h \in Hosts, NEW a \in {V4[h], V6[h]}, RememberHost(a, h)
        PROVE  Fits' /\ Kept
    <3>1. a \in Addresses /\ HostsOK
      BY DEF Addresses, Inv
    <3> QED
      BY <2>2, <3>1, RememberFits DEF Fits
  <2>3. CASE UNCHANGED vars
    BY <2>1, <2>3 DEF vars
  <2>4. CASE Next
    <3>1. \/ resolved' = resolved
          \/ \E h \in Hosts : \E a \in {V4[h], V6[h]} : RememberHost(a, h)
      BY <2>4, OnlyResolveRemembers
    <3> QED
      BY <2>1, <2>2, <3>1
  <2> QED
    BY <2>3, <2>4
<1>3. Spec => [][Kept]_resolved
  BY <1>1, <1>2, Invariant, PTL DEF Spec
<1> QED
  BY <1>3 DEF KnownHostsKept

-----------------------------------------------------------------------------
(* What a step of one thread does to the connections and to the log. *)

\* Every connection has a number of its own, and so have its events.
ConnsOK ==
  /\ \A i \in DOMAIN log : log[i].conn \in 0 .. Len(log)
  /\ \A t \in Threads : sock[t] = NoSocket \/ sock[t].conn \in 1 .. Len(log)
  /\ \A t, u \in Threads :
       t # u /\ sock[t] # NoSocket /\ sock[u] # NoSocket =>
         sock[t].conn # sock[u].conn

FlagsStay(t) ==
  /\ sock[t].payloadLogged => sock'[t].payloadLogged
  /\ sock[t].mockLogged => sock'[t].mockLogged

\* The event e is a resolve, or one of the connection of its thread.
Adds(t, e) ==
  \/ e.conn = 0 /\ e.op = "Resolve" /\ sock'[t] = sock[t]
  \/ e.conn = Len(log) + 1 /\ e.op = "Connect" /\ sock'[t].conn = e.conn
  \/ /\ sock[t] # NoSocket /\ e.conn = sock[t].conn /\ sock'[t].conn = e.conn
     /\ FlagsStay(t)
     /\ \/ e.op = "Payload" /\ ~sock[t].payloadLogged /\ sock'[t].payloadLogged
        \/ e.op = "Mock" /\ ~sock[t].mockLogged /\ sock'[t].mockLogged

\* The log stays, or takes one event, which says whose it is.
Effect(t) ==
  /\ \A u \in Threads \ {t} : pc'[u] = pc[u] /\ arg'[u] = arg[u] /\ sock'[u] = sock[u]
  /\ \/ /\ log' = log /\ sock'[t].conn = sock[t].conn /\ FlagsStay(t)
        /\ sock[t] = NoSocket => sock'[t] = NoSocket
     \/ \E e : log' = Append(log, e) /\ Adds(t, e)

\* What a socket keeps that only takes calls.
KeepsConn(s, old) ==
  /\ s.conn = old.conn
  /\ s.payloadLogged = old.payloadLogged /\ s.mockLogged = old.mockLogged

\* A socket that is updated keeps its connection.
LEMMA UpdateEffect ==
  ASSUME Inv, NEW t \in Threads, HasSocket(t), NEW s, NEW where,
         Update(t, s, where), KeepsConn(s, sock[t])
  PROVE  Effect(t)
<1>1. pc \in [Threads -> Places] /\ DOMAIN arg = Threads /\ DOMAIN sock = Threads
  BY ThreadFacts
<1>2. /\ pc' = [pc EXCEPT ![t] = where] /\ arg' = arg
      /\ sock' = [sock EXCEPT ![t] = s] /\ log' = log
  BY DEF Update, Goto
<1>3. sock[t] # NoSocket
  BY DEF HasSocket
<1> QED
  BY <1>1, <1>2, <1>3 DEF Effect, FlagsStay, KeepsConn

\* A call's first step records nothing.
LEMMA CallEffect ==
  ASSUME Inv, NEW t \in Threads, Call(t) \/ Poll(t)
  PROVE  Effect(t)
<1>0. pc \in [Threads -> Places] /\ DOMAIN arg = Threads /\ DOMAIN sock = Threads
  BY ThreadFacts
<1>1. ASSUME NEW host, Resolve(t, host) PROVE Effect(t)
  BY <1>0, <1>1 DEF Resolve, Goto, Effect, FlagsStay
<1>2. ASSUME NEW peer, Connect(t, peer) PROVE Effect(t)
  BY <1>0, <1>2 DEF Connect, Goto, Effect, FlagsStay
<1>3. ASSUME NEW n, NEW peek, TryRecvPrepares(t, n, peek) PROVE Effect(t)
  BY <1>0, <1>3 DEF TryRecvPrepares, Goto, Effect, FlagsStay
<1>4. HasSocket(t) => sock[t] \in Socket
  BY IdleSocket DEF SocketOK
<1>5. ASSUME NEW n \in 0 .. MaxSent, NEW completes, TrySend(t, n, completes)
      PROVE  Effect(t)
  <2>1. PICK request, headers, sent, where :
          Update(t, [sock[t] EXCEPT !.request = request, !.headers = headers,
                                    !.sent = sent], where)
    BY <1>5 DEF TrySend
  <2>2. HasSocket(t)
    BY <1>5 DEF TrySend
  <2> DEFINE new == [sock[t] EXCEPT !.request = request, !.headers = headers,
                                    !.sent = sent]
  <2>3. KeepsConn(new, sock[t])
    BY <1>4, <2>2 DEF Socket, KeepsConn
  <2> HIDE DEF new
  <2> QED
    BY <2>1, <2>2, <2>3, UpdateEffect DEF new
<1>6. CASE TryFlush(t)
  BY <1>6, UpdateEffect DEF TryFlush, KeepsConn
<1>7. CASE Close(t) \/ Poll(t)
  <2>1. HasSocket(t)
    BY <1>7 DEF Close, Poll, PollRead, PollWrite, ReplaceHandler
  <2>2. /\ KeepsConn(Push([sock[t] EXCEPT !.closed = TRUE]), sock[t])
        /\ \A h, w :
             KeepsConn([sock[t] EXCEPT !.handler = h, !.waiting = w], sock[t])
        /\ KeepsConn([sock[t] EXCEPT !.handler = {}], sock[t])
    BY <1>4, <2>1 DEF Push, Socket, KeepsConn
  <2>3. CASE Close(t)
    BY <2>1, <2>2, <2>3, UpdateEffect DEF Close
  <2>4. ASSUME NEW reader, PollRead(t, reader) \/ PollWrite(t, reader)
        PROVE  Effect(t)
    <3>1. PICK w :
            Update(t, [sock[t] EXCEPT !.handler = {reader}, !.waiting = w], "idle")
      BY <2>4 DEF PollRead, PollWrite
    <3> QED
      BY <2>1, <2>2, <3>1, UpdateEffect
  <2>5. CASE ReplaceHandler(t)
    BY <2>1, <2>2, <2>5, UpdateEffect DEF ReplaceHandler
  <2> QED
    BY <1>7, <2>3, <2>4, <2>5 DEF Poll
<1>8. ASSUME NEW n \in 0 .. ResponseLen, NEW peek \in BOOLEAN, TryRecv(t, n, peek)
      PROVE  Effect(t)
  <2>1. HasSocket(t) /\ sock[t].ready /\ Update(t, Read(sock[t], n, peek), "idle")
    BY <1>8 DEF TryRecv
  <2>2. sock[t] \in Socket /\ Told(sock[t])
    BY <2>1, IdleSocket DEF SocketOK, BufferOK
  <2>3. n \in Nat
    BY Bounds
  <2>4. KeepsConn(Read(sock[t], n, peek), sock[t])
    BY <2>1, <2>2, <2>3, ReadKeeps DEF KeepsConn
  <2> QED
    BY <2>1, <2>4, UpdateEffect
<1> QED
  BY <1>1, <1>2, <1>3, <1>5, <1>6, <1>7, <1>8 DEF Call

\* A call's later steps may each record an event.
LEMMA ContinueEffect ==
  ASSUME Inv, NEW t \in Threads, Continue(t)
  PROVE  Effect(t)
<1>0. pc \in [Threads -> Places] /\ DOMAIN arg = Threads /\ DOMAIN sock = Threads
  BY ThreadFacts
<1>1. CASE ResolveV6(t)
  BY <1>0, <1>1 DEF ResolveV6, Goto, Effect, FlagsStay
<1>2. CASE ResolveRecord(t)
  <2> DEFINE e == Event("Resolve", 0, V4[arg[t]], arg[t], 0)
  <2>1. e.conn = 0 /\ e.op = "Resolve"
    BY DEF Event
  <2>2. /\ log' = Append(log, e) /\ sock' = sock
        /\ \A u \in Threads \ {t} : pc'[u] = pc[u] /\ arg'[u] = arg[u]
    BY <1>0, <1>2 DEF ResolveRecord, Record, Goto
  <2> HIDE DEF e
  <2> QED
    BY <2>1, <2>2 DEF Effect, Adds
<1>3. CASE ConnectRecord(t)
  <2> DEFINE e == Event("Connect", Len(log) + 1, arg[t].peer, arg[t].domain, 0)
             new == NewSocket(Len(log) + 1, arg[t].peer, arg[t].domain)
  <2>1. e.conn = Len(log) + 1 /\ e.op = "Connect" /\ new.conn = Len(log) + 1
    BY DEF Event, NewSocket
  <2>2. /\ log' = Append(log, e) /\ sock' = [sock EXCEPT ![t] = new]
        /\ \A u \in Threads \ {t} : pc'[u] = pc[u] /\ arg'[u] = arg[u]
    BY <1>0, <1>3 DEF ConnectRecord, Record, Goto
  <2> HIDE DEF e, new
  <2>3. sock'[t] = new /\ \A u \in Threads \ {t} : sock'[u] = sock[u]
    BY <1>0, <2>2
  <2> QED
    BY <2>1, <2>2, <2>3 DEF Effect, Adds
<1>4. pc[t] \in Preparing => SocketOK(sock[t], pc[t], log)
  BY ThreadFacts DEF ThreadOK
<1>5. CASE LogPayload(t)
  <2> DEFINE s == sock[t]
             e == Event("Payload", s.conn, s.peer, s.domain, s.request)
  <2>1. s \in Socket /\ s # NoSocket /\ ~s.payloadLogged
    <3>1. pc[t] = "log_payload" /\ pc[t] \in Preparing
      BY <1>5 DEF LogPayload, Preparing
    <3>2. s \in Socket /\ ~s.payloadLogged
      BY <1>4, <3>1 DEF SocketOK, StageOK
    <3> QED
      BY <3>2 DEF Socket, NoSocket
  <2>2. e.conn = s.conn /\ e.op = "Payload"
    BY DEF Event
  <2>3. /\ log' = Append(log, e)
        /\ sock' = [sock EXCEPT ![t].payloadLogged = TRUE, ![t].captured = s.request]
        /\ \A u \in Threads \ {t} : pc'[u] = pc[u] /\ arg'[u] = arg[u]
    BY <1>0, <1>5, <2>1 DEF LogPayload, Record, Goto
  <2>4. /\ sock'[t].conn = s.conn /\ \A u \in Threads \ {t} : sock'[u] = sock[u]
        /\ sock'[t].payloadLogged /\ sock'[t].mockLogged = s.mockLogged
    BY <1>0, <2>1, <2>3 DEF Socket
  <2> HIDE DEF e
  <2> QED
    BY <2>1, <2>2, <2>3, <2>4 DEF Effect, Adds, FlagsStay
<1>6. CASE LogMock(t)
  <2> DEFINE s == sock[t]
             e == Event("Mock", s.conn, s.peer, s.domain, ResponseLen)
             answered == Push([s EXCEPT !.mockLogged = TRUE, !.ready = TRUE])
             new == IF arg[t] = NoHost THEN answered
                    ELSE Read(answered, arg[t].n, arg[t].peek)
  <2>0. pc[t] = "log_mock" /\ pc[t] \in Preparing
    BY <1>6 DEF LogMock, Preparing
  <2>1. s \in Socket /\ s # NoSocket /\ ~s.mockLogged
    <3>1. s \in Socket /\ ~s.mockLogged
      BY <1>4, <2>0 DEF SocketOK, StageOK
    <3> QED
      BY <3>1 DEF Socket, NoSocket
  <2>2. e.conn = s.conn /\ e.op = "Mock"
    BY DEF Event
  <2>3. /\ log' = Append(log, e) /\ sock' = [sock EXCEPT ![t] = new]
        /\ \A u \in Threads \ {t} : pc'[u] = pc[u] /\ arg'[u] = arg[u]
    BY <1>0, <1>6, <2>1 DEF LogMock, Record, Goto
  <2>4. /\ new.conn = s.conn /\ new.mockLogged
        /\ new.payloadLogged = s.payloadLogged
    <3>1. /\ answered \in Socket /\ answered.conn = s.conn
          /\ answered.mockLogged /\ answered.payloadLogged = s.payloadLogged
          /\ answered.ready /\ Told(answered)
      BY <2>1 DEF Push, Socket, Told
    <3> HIDE DEF answered
    <3>2. CASE arg[t] = NoHost
      BY <3>1, <3>2
    <3>3. CASE arg[t] # NoHost
      <4>1. arg[t] \in [n: Nat, peek: BOOLEAN]
        BY <2>0, <3>3, ThreadFacts DEF ThreadOK, ArgOK
      <4>2. arg[t].n \in Nat /\ arg[t].peek \in BOOLEAN
        BY <4>1
      <4> QED
        BY <3>1, <3>3, <4>2, ReadKeeps
    <3> QED
      BY <3>2, <3>3
  <2> HIDE DEF e, new
  <2>5. /\ sock'[t].conn = s.conn /\ \A u \in Threads \ {t} : sock'[u] = sock[u]
        /\ sock'[t].mockLogged /\ sock'[t].payloadLogged = s.payloadLogged
    BY <1>0, <2>3, <2>4
  <2> QED
    BY <2>1, <2>2, <2>3, <2>5 DEF Effect, Adds, FlagsStay
<1> QED
  BY <1>1, <1>2, <1>3, <1>5, <1>6 DEF Continue

\* Connections keep numbers of their own.
LEMMA ConnsStep ==
  ASSUME Inv, ConnsOK, NEW t \in Threads, Effect(t)
  PROVE  ConnsOK'
<1>0. PICK S : log \in Seq(S)
  BY ThreadFacts DEF LogOK
<1>1. Len(log) \in Nat /\ DOMAIN log = 1 .. Len(log)
  BY <1>0, LenProperties
<1>2. CASE log' = log /\ sock'[t].conn = sock[t].conn
           /\ (sock[t] = NoSocket => sock'[t] = NoSocket)
  BY <1>2 DEF Effect, ConnsOK
<1>3. ASSUME NEW e, log' = Append(log, e), Adds(t, e)
      PROVE  ConnsOK'
  <2>1. /\ DOMAIN log' = 1 .. Len(log) + 1 /\ Len(log') = Len(log) + 1
        /\ \A i \in DOMAIN log : log'[i] = log[i]
        /\ log'[Len(log) + 1] = e
    <3>1. log' \in Seq(S \cup {e})
      BY <1>0, <1>3, AppendGrows
    <3> QED
      BY <1>0, <1>1, <1>3, <3>1, AppendGrows, LenProperties
  <2>2. e.conn \in 0 .. Len(log) + 1
    BY <1>1, <1>3 DEF ConnsOK, Adds
  <2>3. \A i \in DOMAIN log' : log'[i].conn \in 0 .. Len(log')
    BY <1>1, <2>1, <2>2 DEF ConnsOK
  <2>4. \A u \in Threads \ {t} : sock'[u] = sock[u]
    BY DEF Effect
  <2>5. sock'[t] = NoSocket \/ sock'[t].conn \in 1 .. Len(log) + 1
    BY <1>1, <1>3 DEF ConnsOK, Adds
  <2>6. \/ sock'[t] = sock[t]
        \/ sock'[t].conn = Len(log) + 1
        \/ sock[t] # NoSocket /\ sock'[t].conn = sock[t].conn
    BY <1>3 DEF Adds
  <2>7. \A u \in Threads \ {t} :
          sock'[u] = NoSocket \/ sock'[t] = NoSocket \/ sock'[u].conn # sock'[t].conn
    BY <1>1, <2>4, <2>6 DEF ConnsOK
  <2>8. \A u \in Threads : sock'[u] = NoSocket \/ sock'[u].conn \in 1 .. Len(log')
    BY <1>1, <2>1, <2>4, <2>5 DEF ConnsOK
  <2>9. \A u, v \in Threads :
          u # v /\ sock'[u] # NoSocket /\ sock'[v] # NoSocket =>
            sock'[u].conn # sock'[v].conn
    BY <2>4, <2>7 DEF ConnsOK
  <2> QED
    BY <2>3, <2>8, <2>9 DEF ConnsOK, NoSocket
<1> QED
  BY <1>2, <1>3 DEF Effect

\* What was on record stays so, and at most one event comes after it.
LEMMA LogGrows ==
  ASSUME Inv, NEW t \in Threads, Effect(t)
  PROVE  /\ Len(log) \in Nat /\ DOMAIN log = 1 .. Len(log)
         /\ \A i \in DOMAIN log : i \in DOMAIN log' /\ log'[i] = log[i]
         /\ \/ log' = log
            \/ /\ DOMAIN log' = 1 .. Len(log) + 1
               /\ log' = Append(log, log'[Len(log) + 1])
<1>0. PICK S : log \in Seq(S)
  BY ThreadFacts DEF LogOK
<1>1. Len(log) \in Nat /\ DOMAIN log = 1 .. Len(log)
  BY <1>0, LenProperties
<1>2. \/ log' = log
      \/ /\ DOMAIN log' = 1 .. Len(log) + 1
         /\ log' = Append(log, log'[Len(log) + 1])
         /\ \A i \in DOMAIN log : log'[i] = log[i]
  <2>1. ASSUME NEW e, log' = Append(log, e)
        PROVE  /\ DOMAIN log' = 1 .. Len(log) + 1 /\ log'[Len(log) + 1] = e
               /\ \A i \in DOMAIN log : log'[i] = log[i]
    BY <1>0, <2>1, AppendGrows
  <2> QED
    BY <2>1 DEF Effect
<1>3. \A i \in DOMAIN log : i \in DOMAIN log' /\ log'[i] = log[i]
  BY <1>1, <1>2
<1> QED
  BY <1>1, <1>2, <1>3

\* The event a step adds.
LEMMA AddedEvent ==
  ASSUME Inv, NEW t \in Threads, Effect(t), log' # log
  PROVE  Adds(t, log'[Len(log) + 1])
<1>0. PICK S : log \in Seq(S)
  BY ThreadFacts DEF LogOK
<1>1. ASSUME NEW e, log' = Append(log, e) PROVE log'[Len(log) + 1] = e
  BY <1>0, <1>1, AppendGrows
<1> QED
  BY <1>1 DEF Effect

\* Each of a connection's events is in the log once, after its Connect.
OnceOK ==
  /\ \A k \in DOMAIN log :
       /\ log[k].op \in {"Resolve", "Connect", "Payload", "Mock"}
       /\ log[k].op = "Resolve" => log[k].conn = 0
       /\ log[k].op = "Connect" <=> log[k].conn = k
       /\ log[k].conn <= k
  /\ \A k, l \in DOMAIN log :
       log[k].conn = log[l].conn /\ log[k].conn # 0 /\ log[k].op = log[l].op => k = l
  /\ \A t \in Threads : sock[t] # NoSocket =>
       /\ log[sock[t].conn].op = "Connect"
       /\ \A k \in DOMAIN log : log[k].conn = sock[t].conn =>
            /\ log[k].op = "Payload" => sock[t].payloadLogged
            /\ log[k].op = "Mock" => sock[t].mockLogged

LEMMA OnceStep ==
  ASSUME Inv, ConnsOK, OnceOK, NEW t \in Threads, Effect(t)
  PROVE  OnceOK'
<1>1. /\ Len(log) \in Nat /\ DOMAIN log = 1 .. Len(log)
      /\ \A i \in DOMAIN log : i \in DOMAIN log' /\ log'[i] = log[i]
  BY LogGrows
<1>2. \A u \in Threads \ {t} : sock'[u] = sock[u]
  BY DEF Effect
<1>3. CASE /\ log' = log /\ sock'[t].conn = sock[t].conn /\ FlagsStay(t)
           /\ sock[t] = NoSocket => sock'[t] = NoSocket
  BY <1>2, <1>3 DEF OnceOK, FlagsStay, NoSocket
<1>4. ASSUME NEW e, log' = Append(log, e), Adds(t, e) PROVE OnceOK'
  <2> DEFINE last == Len(log) + 1
  <2>1. DOMAIN log' = 1 .. last /\ log'[last] = e
    BY <1>4, AppendGrows DEF Inv, LogOK
  <2>2. \A k \in DOMAIN log' : k \in DOMAIN log \/ k = last
    BY <1>1, <2>1
  <2>3. \A u \in Threads : sock[u] = NoSocket \/ sock[u].conn \in 1 .. Len(log)
    BY DEF ConnsOK
  <2>4. /\ e.op \in {"Resolve", "Connect", "Payload", "Mock"}
        /\ e.op = "Resolve" => e.conn = 0
        /\ e.op = "Connect" <=> e.conn = last
        /\ e.conn <= last
    BY <1>1, <1>4, <2>3 DEF Adds
  <2>5. \A k \in DOMAIN log' :
          /\ log'[k].op \in {"Resolve", "Connect", "Payload", "Mock"}
          /\ log'[k].op = "Resolve" => log'[k].conn = 0
          /\ log'[k].op = "Connect" <=> log'[k].conn = k
          /\ log'[k].conn <= k
    BY <1>1, <2>1, <2>2, <2>4 DEF OnceOK
  <2>6. \A k \in DOMAIN log :
          ~(log[k].conn = e.conn /\ e.conn # 0 /\ log[k].op = e.op)
    BY <1>1, <1>4 DEF OnceOK, Adds
  <2>7. \A k, l \in DOMAIN log' :
          log'[k].conn = log'[l].conn /\ log'[k].conn # 0 /\ log'[k].op = log'[l].op =>
            k = l
    BY <1>1, <2>1, <2>2, <2>6 DEF OnceOK
  <2>8. ASSUME NEW u \in Threads, sock'[u] # NoSocket
        PROVE  /\ log'[sock'[u].conn].op = "Connect"
               /\ \A k \in DOMAIN log' : log'[k].conn = sock'[u].conn =>
                    /\ log'[k].op = "Payload" => sock'[u].payloadLogged
                    /\ log'[k].op = "Mock" => sock'[u].mockLogged
    <3>1. CASE u # t \/ (e.op = "Resolve" /\ e.conn = 0 /\ sock'[t] = sock[t])
      <4>1. sock'[u] = sock[u] /\ sock[u] # NoSocket
        BY <1>2, <2>8, <3>1
      <4>2. e.conn # sock[u].conn
        BY <1>1, <1>4, <2>3, <3>1, <4>1 DEF Adds, ConnsOK
      <4> QED
        BY <1>1, <2>1, <2>2, <2>3, <4>1, <4>2 DEF OnceOK
    <3>2. CASE u = t /\ e.conn = last /\ e.op = "Connect" /\ sock'[t].conn = e.conn
      <4>1. \A k \in DOMAIN log : log[k].conn # last
        BY <1>1 DEF OnceOK, ConnsOK
      <4> QED
        BY <1>1, <2>1, <2>2, <3>2, <4>1
    <3>3. CASE /\ u = t /\ sock[t] # NoSocket /\ e.conn = sock[t].conn
               /\ sock'[t].conn = e.conn /\ FlagsStay(t)
               /\ \/ e.op = "Payload" /\ sock'[t].payloadLogged
                  \/ e.op = "Mock" /\ sock'[t].mockLogged
      BY <1>1, <2>1, <2>2, <2>3, <3>3 DEF OnceOK, FlagsStay
    <3> QED
      BY <1>4, <3>1, <3>2, <3>3 DEF Adds
  <2> QED
    BY <2>5, <2>7, <2>8 DEF OnceOK, NoSocket
<1> QED
  BY <1>3, <1>4 DEF Effect

\* A step of the honeypot is one of some thread's call.
LEMMA NextEffect ==
  ASSUME Inv, Next
  PROVE  \E t \in Threads : Effect(t)
<1>1. Pollers \subseteq Threads
  BY HoneypotAssumption
<1> QED
  BY <1>1, CallEffect, ContinueEffect DEF Next

LEMMA OnceInvariant == Spec => [](Inv /\ ConnsOK /\ OnceOK)
<1>1. Init => Inv /\ ConnsOK /\ OnceOK
  <2>1. Init => ConnsOK /\ OnceOK
    BY DEF Init, ConnsOK, OnceOK
  <2> QED
    BY <2>1, InitInv
<1>2. Inv /\ ConnsOK /\ OnceOK /\ [Next]_vars => (Inv /\ ConnsOK /\ OnceOK)'
  <2> SUFFICES ASSUME Inv, ConnsOK, OnceOK, [Next]_vars PROVE ConnsOK' /\ OnceOK'
    BY StepInv
  <2>1. CASE UNCHANGED vars
    BY <2>1 DEF vars, ConnsOK, OnceOK, NoSocket
  <2>2. CASE Next
    BY <2>2, NextEffect, ConnsStep, OnceStep
  <2> QED
    BY <2>1, <2>2
<1> QED
  BY <1>1, <1>2, PTL DEF Spec

\* record_payload_and_prepare_response: no response is readable before its
\* connection's payload and then its mock response are on record, each once,
\* although the two records are two critical sections, three calls may come to
\* make them and other threads record in between.
THEOREM AlwaysCapturedFirst == Spec => []CapturedBeforeAnswered
<1>1. Inv /\ ConnsOK /\ OnceOK => CapturedBeforeAnswered
  <2> SUFFICES ASSUME Inv, ConnsOK, OnceOK, NEW t \in Sockets, sock[t].ready
               PROVE  \E i, j \in DOMAIN log :
                        /\ sock[t].conn < i /\ i < j
                        /\ log[i].op = "Payload" /\ log[i].bytes = sock[t].captured
                        /\ log[j].op = "Mock" /\ log[j].bytes = ResponseLen
                        /\ {k \in DOMAIN log : log[k].conn = sock[t].conn} =
                             {sock[t].conn, i, j}
    BY DEF CapturedBeforeAnswered
  <2> DEFINE conn == sock[t].conn
  <2>1. LoggedOK(sock[t], log)
    BY DEF Inv, ThreadOK, SocketOK, Sockets
  <2>2. PICK i, j \in DOMAIN log :
          /\ i < j
          /\ log[i].op = "Payload" /\ log[i].bytes = sock[t].captured
          /\ log[j].op = "Mock" /\ log[j].bytes = ResponseLen
          /\ log[i].conn = conn /\ log[j].conn = conn
    BY <2>1 DEF LoggedOK
  <2>3. conn \in 1 .. Len(log) /\ log[conn].op = "Connect"
    BY DEF Sockets, ConnsOK, OnceOK
  <2>4. DOMAIN log = 1 .. Len(log) /\ Len(log) \in Nat
    BY LenProperties DEF Inv, LogOK
  <2> HIDE DEF conn
  <2>5. log[conn].conn = conn /\ conn < i
    BY <2>2, <2>3, <2>4 DEF OnceOK
  <2>6. ASSUME NEW k \in DOMAIN log, log[k].conn = conn PROVE k \in {conn, i, j}
    <3>1. log[k].op \in {"Connect", "Payload", "Mock"}
      BY <2>3, <2>4, <2>6 DEF OnceOK
    <3> QED
      BY <2>2, <2>3, <2>4, <2>5, <2>6, <3>1 DEF OnceOK
  <2>7. {k \in DOMAIN log : log[k].conn = conn} = {conn, i, j}
    BY <2>2, <2>3, <2>4, <2>5, <2>6
  <2> QED
    BY <2>2, <2>5, <2>7 DEF conn
<1> QED
  BY <1>1, OnceInvariant, PTL

-----------------------------------------------------------------------------
(* The host a connection is blamed on.  An address is remembered before the  *)
(* resolve is on record, and what a connect_tcp has looked up may be evicted  *)
(* before its own record: both are covered by what Remembered says, which     *)
(* stays true once it is.                                                     *)

\* What is in the map, or was when a connect_tcp looked, has been remembered.
BlameOK ==
  /\ \A a \in Addresses \cup Peers :
       resolved[a] # NoHost => Remembered(a, resolved[a])
  /\ \A t \in Threads : pc[t] = "connect_record" /\ arg[t].domain # NoHost =>
       Remembered(arg[t].peer, arg[t].domain)

Resolving == {"resolve_v6", "resolve_record"}

\* A resolve under way stays so, with all it has remembered, or is on record.
ResolvesGoOn ==
  \A t \in Threads : pc[t] \in Resolving =>
    \/ /\ arg'[t] = arg[t] /\ pc'[t] \in {pc[t], "resolve_record"}
    \/ \E i \in DOMAIN log' : log'[i].op = "Resolve" /\ log'[i].domain = arg[t]

LogKept == \A i \in DOMAIN log : i \in DOMAIN log' /\ log'[i] = log[i]

LEMMA RememberedStays ==
  ASSUME ResolvesGoOn, LogKept, NEW a, NEW h, Remembered(a, h)
  PROVE  Remembered(a, h)'
<1>1. CASE \E i \in DOMAIN log : log[i].op = "Resolve" /\ log[i].domain = h
  BY <1>1 DEF Remembered, LogKept
<1>2. ASSUME NEW t \in Threads, arg[t] = h,
             pc[t] = "resolve_record" \/ (pc[t] = "resolve_v6" /\ a = V4[h])
      PROVE  Remembered(a, h)'
  <2>1. \/ /\ arg'[t] = h /\ pc'[t] \in {pc[t], "resolve_record"}
        \/ \E i \in DOMAIN log' : log'[i].op = "Resolve" /\ log'[i].domain = h
    BY <1>2 DEF ResolvesGoOn, Resolving
  <2> QED
    BY <1>2, <2>1 DEF Remembered
<1> QED
  BY <1>1, <1>2 DEF Remembered

\* Every step leaves the resolves under way, or goes on with one of them.
LEMMA StepGoesOn ==
  ASSUME Inv, Next
  PROVE  ResolvesGoOn /\ LogKept
<1>1. PICK t \in Threads : Call(t) \/ Continue(t) \/ Poll(t)
  BY HoneypotAssumption DEF Next
<1>2. Effect(t)
  BY <1>1, CallEffect, ContinueEffect
<1>3. LogKept
  BY <1>2, LogGrows DEF LogKept
<1>4. \A u \in Threads \ {t} : pc'[u] = pc[u] /\ arg'[u] = arg[u]
  BY <1>2 DEF Effect
<1>5. ASSUME pc[t] \in Resolving
      PROVE  \/ /\ arg'[t] = arg[t] /\ pc'[t] \in {pc[t], "resolve_record"}
             \/ \E i \in DOMAIN log' :
                  log'[i].op = "Resolve" /\ log'[i].domain = arg[t]
  <2>1. ResolveV6(t) \/ ResolveRecord(t)
    BY <1>1, <1>5
       DEF Resolving, Call, Poll, Continue, Resolve, Connect, TrySend, TryFlush, Close,
           TryRecvPrepares, TryRecv, PollRead, PollWrite, ReplaceHandler, HasSocket,
           ConnectRecord, LogPayload, LogMock
  <2>2. CASE ResolveV6(t)
    BY <2>2, ThreadFacts DEF ResolveV6, Goto
  <2>3. CASE ResolveRecord(t)
    <3> DEFINE e == Event("Resolve", 0, V4[arg[t]], arg[t], 0)
    <3>1. e.op = "Resolve" /\ e.domain = arg[t]
      BY DEF Event
    <3>2. log' = Append(log, e)
      BY <2>3 DEF ResolveRecord, Record
    <3> HIDE DEF e
    <3>3. \E i \in DOMAIN log' : log'[i] = e
      BY <3>2, AppendGrows, ThreadFacts DEF LogOK
    <3> QED
      BY <3>1, <3>3
  <2> QED
    BY <2>1, <2>2, <2>3
<1> QED
  BY <1>3, <1>4, <1>5 DEF ResolvesGoOn

\* The map takes no host but the one remembered.
LEMMA RememberAdds ==
  ASSUME HostsOK, NEW a \in Addresses, NEW h \in Hosts, RememberHost(a, h),
         NEW b \in Addresses \cup Peers, resolved'[b] # NoHost
  PROVE  resolved'[b] = resolved[b] \/ (b = a /\ resolved'[b] = h)
<1>1. CASE resolved' = [resolved EXCEPT ![a] = h]
  BY <1>1 DEF HostsOK
<1>2. CASE \E victim \in Known :
             resolved' = [resolved EXCEPT ![victim] = NoHost, ![a] = h]
  BY <1>2 DEF HostsOK, Known
<1> QED
  BY <1>1, <1>2 DEF RememberHost

\* What a step adds to the map or looks up there.
LEMMA StepLooksUp ==
  ASSUME Inv, Next
  PROVE  /\ \/ resolved' = resolved
            \/ \E h \in Hosts : \E a \in Addresses :
                 RememberHost(a, h) /\ Remembered(a, h)'
         /\ \A u \in Threads : pc'[u] = "connect_record" =>
              \/ pc[u] = "connect_record" /\ arg'[u] = arg[u]
              \/ \E peer \in Peers : arg'[u] = [peer |-> peer, domain |-> resolved[peer]]
<1>1. PICK t \in Threads : Call(t) \/ Continue(t) \/ Poll(t)
  BY HoneypotAssumption DEF Next
<1>2. \A u \in Threads \ {t} : pc'[u] = pc[u] /\ arg'[u] = arg[u]
  BY <1>1, CallEffect, ContinueEffect DEF Effect
<1>3. pc \in [Threads -> Places] /\ DOMAIN arg = Threads
  BY ThreadFacts
<1>4. ASSUME NEW host \in Hosts, Resolve(t, host)
      PROVE  /\ RememberHost(V4[host], host) /\ Remembered(V4[host], host)'
             /\ V4[host] \in Addresses /\ pc'[t] # "connect_record"
  BY <1>3, <1>4 DEF Resolve, Goto, Remembered, Addresses
<1>5. ASSUME ResolveV6(t), NEW h, h = arg[t]
      PROVE  /\ h \in Hosts /\ V6[h] \in Addresses
             /\ RememberHost(V6[h], h) /\ Remembered(V6[h], h)'
             /\ pc'[t] # "connect_record"
  <2>1. h \in Hosts
    BY <1>5, ThreadFacts DEF ResolveV6, ThreadOK, ArgOK
  <2>2. pc'[t] = "resolve_record" /\ arg'[t] = h
    BY <1>3, <1>5 DEF ResolveV6, Goto
  <2> QED
    BY <1>5, <2>1, <2>2 DEF ResolveV6, Remembered, Addresses
<1>6. ASSUME NEW peer \in Peers, Connect(t, peer)
      PROVE  /\ resolved' = resolved
             /\ arg'[t] = [peer |-> peer, domain |-> resolved[peer]]
  BY <1>3, <1>6 DEF Connect, DomainFor
<1>7. ASSUME \/ \E n, completes : TrySend(t, n, completes)
             \/ TryFlush(t) \/ Close(t) \/ Poll(t)
             \/ \E n, peek : TryRecvPrepares(t, n, peek) \/ TryRecv(t, n, peek)
             \/ ResolveRecord(t) \/ ConnectRecord(t) \/ LogPayload(t) \/ LogMock(t)
      PROVE  resolved' = resolved /\ pc'[t] # "connect_record"
  <2>1. CASE \E n, completes : TrySend(t, n, completes)
    BY <1>3, <2>1 DEF TrySend, Update, Goto
  <2>2. CASE TryFlush(t) \/ Close(t) \/ Poll(t)
    BY <1>3, <2>2
       DEF TryFlush, Close, Poll, PollRead, PollWrite, ReplaceHandler, Update, Goto
  <2>3. CASE \E n, peek : TryRecvPrepares(t, n, peek) \/ TryRecv(t, n, peek)
    BY <1>3, <2>3 DEF TryRecvPrepares, TryRecv, Update, Goto
  <2>4. CASE ResolveRecord(t) \/ ConnectRecord(t) \/ LogPayload(t) \/ LogMock(t)
    BY <1>3, <2>4 DEF ResolveRecord, ConnectRecord, LogPayload, LogMock, Goto
  <2> QED
    BY <1>7, <2>1, <2>2, <2>3, <2>4
<1>8. \/ \E host \in Hosts : Resolve(t, host)
      \/ ResolveV6(t)
      \/ \E peer \in Peers : Connect(t, peer)
      \/ resolved' = resolved /\ pc'[t] # "connect_record"
  BY <1>1, <1>7 DEF Call, Continue
<1>9. \/ resolved' = resolved
      \/ \E h \in Hosts : \E a \in Addresses :
           RememberHost(a, h) /\ Remembered(a, h)'
  BY <1>4, <1>5, <1>6, <1>8
<1>10. ASSUME pc'[t] = "connect_record"
       PROVE  \E peer \in Peers : arg'[t] = [peer |-> peer, domain |-> resolved[peer]]
  BY <1>4, <1>5, <1>6, <1>8, <1>10
<1> QED
  BY <1>2, <1>9, <1>10

LEMMA BlameStep ==
  ASSUME Inv, BlameOK, Next
  PROVE  BlameOK'
<1>1. \A a, h : Remembered(a, h) => Remembered(a, h)'
  BY StepGoesOn, RememberedStays
<1>2. ASSUME NEW b \in Addresses \cup Peers, NEW h, h = resolved'[b], h # NoHost
      PROVE  Remembered(b, h)'
  <2>1. CASE h = resolved[b]
    BY <1>1, <1>2, <2>1 DEF BlameOK
  <2>2. ASSUME NEW g \in Hosts, NEW a \in Addresses, RememberHost(a, g),
               Remembered(a, g)'
        PROVE  Remembered(b, h)'
    <3>1. resolved'[b] = resolved[b] \/ (b = a /\ resolved'[b] = g)
      BY <1>2, <2>2, RememberAdds DEF Inv
    <3> QED
      BY <1>2, <2>1, <2>2, <3>1
  <2> QED
    BY <1>2, <2>1, <2>2, StepLooksUp
<1>3. ASSUME NEW u \in Threads, pc'[u] = "connect_record",
             NEW a, NEW h, a = arg'[u].peer, h = arg'[u].domain, h # NoHost
      PROVE  Remembered(a, h)'
  <2>1. CASE pc[u] = "connect_record" /\ arg'[u] = arg[u]
    BY <1>1, <1>3, <2>1 DEF BlameOK
  <2>2. ASSUME NEW peer \in Peers,
               arg'[u] = [peer |-> peer, domain |-> resolved[peer]]
        PROVE  Remembered(a, h)'
    <3>1. a = peer /\ h = resolved[peer]
      BY <1>3, <2>2
    <3> QED
      BY <1>1, <1>3, <3>1 DEF BlameOK
  <2> QED
    BY <1>3, <2>1, <2>2, StepLooksUp
<1> QED
  BY <1>2, <1>3 DEF BlameOK, Remembered

\* The one step that records a connection is that of its connect_tcp.
LEMMA ConnectBlames ==
  ASSUME Inv, BlameOK, Next, NEW i \in DOMAIN log' \ DOMAIN log,
         log'[i].op = "Connect", log'[i].domain # NoHost
  PROVE  Remembered(log'[i].target, log'[i].domain)
<1>1. PICK t \in Threads : Call(t) \/ Continue(t) \/ Poll(t)
  BY HoneypotAssumption DEF Next
<1>2. Call(t) \/ Poll(t) \/ ResolveV6(t) => log' = log
  BY DEF Call, Poll, Resolve, Connect, TrySend, TryFlush, Close, TryRecvPrepares,
         TryRecv, PollRead, PollWrite, ReplaceHandler, Update, ResolveV6
<1>3. ASSUME NEW e, log' = Append(log, e) PROVE log'[i] = e
  BY <1>3, AppendGrows DEF Inv, LogOK
<1>4. ResolveRecord(t) \/ LogPayload(t) \/ LogMock(t) =>
        log' = log \/ \E e : log' = Append(log, e) /\ e.op # "Connect"
  BY DEF ResolveRecord, LogPayload, LogMock, Record, Event
<1>5. ConnectRecord(t)
  BY <1>1, <1>2, <1>3, <1>4 DEF Continue
<1>6. /\ log' = Append(log, Event("Connect", Len(log) + 1, arg[t].peer,
                                 arg[t].domain, 0))
      /\ pc[t] = "connect_record"
  BY <1>5 DEF ConnectRecord, Record
<1>7. log'[i] = Event("Connect", Len(log) + 1, arg[t].peer, arg[t].domain, 0)
  BY <1>3, <1>6
<1>8. log'[i].target = arg[t].peer /\ log'[i].domain = arg[t].domain
  BY <1>7 DEF Event
<1> QED
  BY <1>6, <1>8 DEF BlameOK

\* domain_for: an event names a host for a connection only when a resolve of
\* that host has by then remembered the address connected to, whatever was
\* evicted or resolved between remember_host, the look-up and the record.
THEOREM DomainAlwaysResolved == Spec => DomainWasResolved
<1> DEFINE Blames ==
             \A i \in DOMAIN log' \ DOMAIN log :
               log'[i].op = "Connect" /\ log'[i].domain # NoHost =>
                 Remembered(log'[i].target, log'[i].domain)
<1>1. Init => BlameOK
  BY DEF Init, BlameOK
<1>2. Inv /\ BlameOK /\ [Next]_vars => BlameOK' /\ [Blames]_log
  <2> SUFFICES ASSUME Inv, BlameOK, [Next]_vars PROVE BlameOK' /\ [Blames]_log
    OBVIOUS
  <2>1. CASE UNCHANGED vars
    BY <2>1 DEF vars, BlameOK, Remembered
  <2>2. CASE Next
    BY <2>2, BlameStep, ConnectBlames
  <2> QED
    BY <2>1, <2>2
<1>3. Spec => [][Blames]_log
  BY <1>1, <1>2, Invariant, PTL DEF Spec
<1> QED
  BY <1>3 DEF DomainWasResolved

-----------------------------------------------------------------------------
(* The sample guest of NetworkFetch on the honeypot, where FetchInv knows   *)
(* more of one thread: at each place of run() how far its exchange is.      *)

\* As much of the guest's request as the honeypot keeps.
Whole == IF RequestLen <= MaxCapture THEN RequestLen ELSE MaxCapture

Connected == sock[Fetcher] # NoSocket

HostOnRecord ==
  \E i \in DOMAIN log : log[i].op = "Resolve" /\ log[i].domain = Host

\* On its way to the connection the guest is where its call is.
OnTheWay ==
  /\ unsent = RequestLen /\ received = 0
  /\ \/ step = "resolve" /\ pc[Fetcher] = "idle"
     \/ /\ step = "connect" /\ pc[Fetcher] \in {"resolve_v6", "resolve_record"}
        /\ arg[Fetcher] = Host
     \/ step = "connect" /\ pc[Fetcher] = "idle" /\ HostOnRecord
     \/ step = "send" /\ pc[Fetcher] = "connect_record" /\ HostOnRecord

\* On the connection the socket counts what the guest does, and the payload is
\* put on record when it is the whole request.
OnTheLine ==
  LET s == sock[Fetcher]
  IN /\ step \in {"send", "receive", "done", "failed"} /\ HostOnRecord
     /\ pc[Fetcher] \in {"idle"} \cup Preparing /\ arg[Fetcher] = NoHost
     /\ unsent \in 0 .. RequestLen /\ s.sent + unsent = RequestLen
     /\ s.offset = received /\ received \in 0 .. ResponseLen
     /\ s.headers => unsent = 0
     /\ pc[Fetcher] \in Preparing => s.request = Whole
     /\ s.payloadLogged => s.captured = Whole
     /\ step = "done" => s.ready /\ received = ResponseLen

GuestOK ==
  /\ announced \in BOOLEAN
  /\ IF Connected THEN OnTheLine ELSE OnTheWay

\* What the log holds of the guest's connection.
OwnEventsOK ==
  LET s == sock[Fetcher]
  IN Connected =>
       /\ \E i \in DOMAIN log : log[i].conn = s.conn /\ log[i].op = "Connect"
       /\ \A i \in DOMAIN log : log[i].conn = s.conn =>
            \/ log[i].op = "Connect"
            \/ log[i].op = "Payload" /\ s.payloadLogged /\ log[i].bytes = s.captured
            \/ log[i].op = "Mock" /\ s.mockLogged

FetchInv == ConnsOK /\ GuestOK /\ OwnEventsOK

-----------------------------------------------------------------------------
(* The fetching guest and its connection. *)

\* The numbers of the fetching guest and of the honeypot it calls.
LEMMA FetchBounds ==
  /\ Fetcher \in Threads /\ Fetcher \notin Pollers /\ Host \in Hosts
  /\ V4[Host] \in Peers
  /\ RequestLen \in Nat /\ RequestLen > 0 /\ Chunk \in Nat /\ Chunk > 0
  /\ RequestLen <= MaxSent /\ Whole \in Nat
  /\ HeaderLen \in 1 .. ResponseLen
<1>1. {RequestLen, Chunk} \subseteq Nat \ {0}
  BY FetchAssumption
<1> QED
  BY <1>1, FetchAssumption, Bounds DEF Whole

\* A resolve stays on record.
LEMMA HostStays ==
  ASSUME Inv, HostOnRecord, NEW t \in Threads, Effect(t)
  PROVE  HostOnRecord'
  BY LogGrows DEF HostOnRecord

\* A call of another guest leaves the fetching one where it is, and records
\* nothing of its connection.
LEMMA OtherStep ==
  ASSUME Inv, FetchInv, NEW t \in Others, Effect(t), UNCHANGED <<announced, fetch>>
  PROVE  /\ GuestOK' /\ OwnEventsOK'
         /\ sock'[Fetcher] = sock[Fetcher] /\ pc'[Fetcher] = pc[Fetcher]
<1>0. t \in Threads /\ t # Fetcher /\ Fetcher \in Threads
  BY FetchBounds DEF Others
<1>1. /\ sock'[Fetcher] = sock[Fetcher] /\ pc'[Fetcher] = pc[Fetcher]
      /\ arg'[Fetcher] = arg[Fetcher]
  BY <1>0 DEF Effect
<1>2. GuestOK'
  <2>1. HostOnRecord => HostOnRecord'
    BY <1>0, HostStays
  <2>2. Connected' = Connected /\ NoSocket' = NoSocket
    BY <1>1 DEF Connected, NoSocket
  <2>3. OnTheWay => OnTheWay'
    BY <1>1, <2>1 DEF OnTheWay, fetch
  <2>4. OnTheLine => OnTheLine'
    BY <1>1, <2>1 DEF OnTheLine, fetch
  <2> QED
    BY <2>2, <2>3, <2>4 DEF FetchInv, GuestOK
<1>3. OwnEventsOK'
  <2> DEFINE s == sock[Fetcher]
  <2> SUFFICES ASSUME Connected
               PROVE  /\ \E i \in DOMAIN log' : log'[i].conn = s.conn /\ log'[i].op = "Connect"
                      /\ \A i \in DOMAIN log' : log'[i].conn = s.conn =>
                           \/ log'[i].op = "Connect"
                           \/ /\ log'[i].op = "Payload" /\ s.payloadLogged
                              /\ log'[i].bytes = s.captured
                           \/ log'[i].op = "Mock" /\ s.mockLogged
    BY <1>1 DEF OwnEventsOK, Connected, NoSocket
  <2>1. /\ \E i \in DOMAIN log : log[i].conn = s.conn /\ log[i].op = "Connect"
        /\ \A i \in DOMAIN log : log[i].conn = s.conn =>
             \/ log[i].op = "Connect"
             \/ log[i].op = "Payload" /\ s.payloadLogged /\ log[i].bytes = s.captured
             \/ log[i].op = "Mock" /\ s.mockLogged
    BY DEF FetchInv, OwnEventsOK
  <2>2. s.conn \in 1 .. Len(log)
    BY <1>0 DEF FetchInv, ConnsOK, Connected
  <2>3. /\ Len(log) \in Nat /\ DOMAIN log = 1 .. Len(log)
        /\ \A i \in DOMAIN log : i \in DOMAIN log' /\ log'[i] = log[i]
        /\ log' = log \/ DOMAIN log' = 1 .. Len(log) + 1
    BY <1>0, LogGrows
  <2>4. log' = log \/ log'[Len(log) + 1].conn # s.conn
    <3> DEFINE e == log'[Len(log) + 1]
    <3>1. CASE log' # log
      <4>1. \/ e.conn = 0
            \/ e.conn = Len(log) + 1
            \/ sock[t] # NoSocket /\ e.conn = sock[t].conn
        BY <1>0, <3>1, AddedEvent DEF Adds
      <4>2. sock[t] # NoSocket => sock[t].conn # s.conn
        BY <1>0 DEF FetchInv, ConnsOK, Connected
      <4> HIDE DEF s
      <4> QED
        BY <2>2, <2>3, <4>1, <4>2
    <3> QED
      BY <3>1
  <2> HIDE DEF s
  <2> QED
    BY <2>1, <2>3, <2>4
<1> QED
  BY <1>1, <1>2, <1>3

\* The guest finds its host and asks for a connection.
LEMMA OnTheWayStep ==
  ASSUME Inv, FetchInv, ~Connected,
         \/ ResolveHost \/ ConnectToFirst
         \/ (ResolveV6(Fetcher) \/ ResolveRecord(Fetcher)) /\ UNCHANGED <<announced, fetch>>
  PROVE  GuestOK' /\ OwnEventsOK' /\ sock' = sock
<1>0. pc \in [Threads -> Places] /\ DOMAIN arg = Threads /\ Fetcher \in Threads
  BY ThreadFacts, FetchBounds
<1>1. announced \in BOOLEAN /\ OnTheWay
  BY DEF FetchInv, GuestOK
<1>2. sock' = sock
  BY DEF ResolveHost, Resolve, ConnectToFirst, Connect, ResolveV6, ResolveRecord
<1>3. ~Connected' /\ announced' = announced
  BY <1>2 DEF Connected, NoSocket, ResolveHost, ConnectToFirst
<1>4. OwnEventsOK'
  BY <1>3 DEF OwnEventsOK
<1>5. CASE ResolveHost
  <2>1. step' = "connect" /\ pc'[Fetcher] = "resolve_v6" /\ arg'[Fetcher] = Host
        /\ unsent' = unsent /\ received' = received
    BY <1>0, <1>5 DEF ResolveHost, Resolve, Goto
  <2>2. OnTheWay'
    BY <1>1, <2>1 DEF OnTheWay
  <2> QED
    BY <1>1, <1>2, <1>3, <1>4, <2>2 DEF GuestOK
<1>6. CASE ConnectToFirst
  <2>1. step = "connect" /\ step' = "send" /\ pc[Fetcher] = "idle"
        /\ pc'[Fetcher] = "connect_record"
        /\ unsent' = unsent /\ received' = received /\ log' = log
    BY <1>0, <1>6 DEF ConnectToFirst, Connect, Goto
  <2>2. HostOnRecord'
    BY <1>1, <2>1 DEF OnTheWay, HostOnRecord
  <2>3. OnTheWay'
    BY <1>1, <2>1, <2>2 DEF OnTheWay
  <2> QED
    BY <1>1, <1>2, <1>3, <1>4, <2>3 DEF GuestOK
<1>7. CASE ResolveV6(Fetcher) /\ UNCHANGED fetch
  <2>1. pc[Fetcher] = "resolve_v6" /\ pc'[Fetcher] = "resolve_record" /\ arg' = arg
        /\ step' = step /\ unsent' = unsent /\ received' = received
    BY <1>0, <1>7 DEF ResolveV6, Goto, fetch
  <2>2. OnTheWay'
    BY <1>1, <2>1 DEF OnTheWay
  <2> QED
    BY <1>1, <1>2, <1>3, <1>4, <2>2 DEF GuestOK
<1>8. CASE ResolveRecord(Fetcher) /\ UNCHANGED fetch
  <2> DEFINE e == Event("Resolve", 0, V4[arg[Fetcher]], arg[Fetcher], 0)
  <2>1. pc[Fetcher] = "resolve_record" /\ pc'[Fetcher] = "idle"
        /\ step' = step /\ unsent' = unsent /\ received' = received
        /\ log' = Append(log, e)
    BY <1>0, <1>8 DEF ResolveRecord, Record, Goto, fetch
  <2>2. step = "connect" /\ arg[Fetcher] = Host
    BY <1>1, <2>1 DEF OnTheWay
  <2>3. e.op = "Resolve" /\ e.domain = Host
    BY <2>2 DEF Event
  <2>4. PICK S : log \in Seq(S)
    BY DEF Inv, LogOK
  <2> HIDE DEF e
  <2>5. Len(log) + 1 \in DOMAIN log' /\ log'[Len(log) + 1] = e
    BY <2>1, <2>4, AppendGrows
  <2>6. HostOnRecord'
    BY <2>3, <2>5 DEF HostOnRecord
  <2>7. OnTheWay'
    BY <1>1, <2>1, <2>2, <2>6 DEF OnTheWay
  <2> QED
    BY <1>1, <1>2, <1>3, <1>4, <2>7 DEF GuestOK
<1> QED
  BY <1>5, <1>6, <1>7, <1>8

\* The new connection has a number no event has yet.
LEMMA NewConnectionStep ==
  ASSUME Inv, FetchInv, ~Connected, ConnectRecord(Fetcher), UNCHANGED <<announced, fetch>>
  PROVE  /\ GuestOK' /\ OwnEventsOK' /\ HostOnRecord /\ HostOnRecord'
         /\ Connected' /\ step' = "send" /\ step = "send"
         /\ ~sock'[Fetcher].payloadLogged /\ ~sock'[Fetcher].mockLogged
<1> DEFINE conn == Len(log) + 1
           e == Event("Connect", conn, arg[Fetcher].peer, arg[Fetcher].domain, 0)
           new == NewSocket(conn, arg[Fetcher].peer, arg[Fetcher].domain)
<1>0. /\ pc \in [Threads -> Places] /\ DOMAIN arg = Threads /\ DOMAIN sock = Threads
      /\ Fetcher \in Threads
  BY ThreadFacts, FetchBounds
<1>1. /\ pc[Fetcher] = "connect_record" /\ pc'[Fetcher] = "idle"
      /\ arg'[Fetcher] = NoHost /\ sock'[Fetcher] = new /\ log' = Append(log, e)
      /\ step' = step /\ unsent' = unsent /\ received' = received
  BY <1>0 DEF ConnectRecord, Record, Goto, fetch
<1>2. announced \in BOOLEAN /\ OnTheWay /\ announced' = announced
  BY DEF FetchInv, GuestOK
<1>3. step = "send" /\ HostOnRecord /\ unsent = RequestLen /\ received = 0
  BY <1>1, <1>2 DEF OnTheWay
<1>4. /\ new.conn = conn /\ new.sent = 0 /\ new.offset = 0 /\ ~new.headers
      /\ ~new.payloadLogged /\ ~new.mockLogged
  BY DEF NewSocket
<1>5. e.conn = conn /\ e.op = "Connect"
  BY DEF Event
<1>6. PICK S : log \in Seq(S)
  BY DEF Inv, LogOK
<1> HIDE DEF e, new
<1>7. /\ Len(log) \in Nat /\ DOMAIN log = 1 .. Len(log)
      /\ DOMAIN log' = 1 .. conn /\ log'[conn] = e
      /\ \A i \in DOMAIN log : i \in DOMAIN log' /\ log'[i] = log[i]
  BY <1>1, <1>6, AppendGrows
<1>8. Connected'
  <2>1. new # NoSocket
    BY <1>4, <1>7 DEF NoSocket
  <2> QED
    BY <1>1, <2>1 DEF Connected, NoSocket
<1>9. OnTheLine'
  <2>1. HostOnRecord'
    BY <1>3, <1>7 DEF HostOnRecord
  <2>2. RequestLen \in Nat /\ ResponseLen \in Nat
    BY FetchBounds, Bounds
  <2> QED
    BY <1>1, <1>3, <1>4, <2>1, <2>2 DEF OnTheLine, Preparing
<1>10. OwnEventsOK'
  <2>1. \A i \in DOMAIN log : log[i].conn # conn
    BY <1>7 DEF FetchInv, ConnsOK
  <2>2. conn \in DOMAIN log' /\ log'[conn].conn = conn /\ log'[conn].op = "Connect"
    BY <1>5, <1>7
  <2>3. \A i \in DOMAIN log' : log'[i].conn = conn => log'[i].op = "Connect"
    BY <1>5, <1>7, <2>1
  <2>4. sock'[Fetcher].conn = conn
    BY <1>1, <1>4
  <2> HIDE DEF conn
  <2> QED
    BY <2>2, <2>3, <2>4 DEF OwnEventsOK
<1> QED
  BY <1>1, <1>2, <1>3, <1>4, <1>8, <1>9, <1>10 DEF GuestOK, OnTheLine

\* What holds of the guest's socket at the place of its call.
LEMMA LineFacts ==
  ASSUME Inv, FetchInv, Connected
  PROVE  /\ SocketOK(sock[Fetcher], pc[Fetcher], log) /\ sock[Fetcher] \in Socket
         /\ OnTheLine /\ OwnEventsOK /\ announced \in BOOLEAN
         /\ pc \in [Threads -> Places]
         /\ DOMAIN arg = Threads /\ DOMAIN sock = Threads /\ Fetcher \in Threads
<1>1. Fetcher \in Threads
  BY FetchBounds
<1>2. ThreadOK(Fetcher)
  BY <1>1, ThreadFacts
<1> QED
  BY <1>1, <1>2, ThreadFacts DEF ThreadOK, Connected, SocketOK, FetchInv, GuestOK

\* The socket takes or gives bytes, and nothing is recorded.
LEMMA SameRecordStep ==
  ASSUME Inv, FetchInv, Connected, NEW new \in Socket, NEW where,
         Update(Fetcher, new, where),
         new.conn = sock[Fetcher].conn, new.captured = sock[Fetcher].captured,
         new.payloadLogged = sock[Fetcher].payloadLogged,
         new.mockLogged = sock[Fetcher].mockLogged
  PROVE  /\ sock'[Fetcher] = new /\ pc'[Fetcher] = where
         /\ arg' = arg /\ log' = log /\ Connected' /\ OwnEventsOK'
<1>0. /\ SocketOK(sock[Fetcher], pc[Fetcher], log) /\ sock[Fetcher] \in Socket
      /\ OnTheLine /\ OwnEventsOK /\ announced \in BOOLEAN
      /\ pc \in [Threads -> Places]
      /\ DOMAIN arg = Threads /\ DOMAIN sock = Threads /\ Fetcher \in Threads
  BY LineFacts
<1>1. sock'[Fetcher] = new /\ pc'[Fetcher] = where /\ arg' = arg /\ log' = log
  BY <1>0 DEF Update, Goto
<1>2. Connected'
  BY <1>1 DEF Connected, NoSocket, Socket
<1> QED
  BY <1>0, <1>1, <1>2 DEF OwnEventsOK

\* A piece of the request: when it makes the honeypot record the payload, the
\* honeypot has the whole request, or as much as it keeps.
LEMMA SendPiece ==
  ASSUME Inv, FetchInv, Connected, NEW n \in 1 .. unsent, Send(n), Inv'
  PROVE  /\ GuestOK' /\ OwnEventsOK' /\ log' = log /\ Connected'
         /\ sock'[Fetcher].payloadLogged = sock[Fetcher].payloadLogged
         /\ sock'[Fetcher].mockLogged = sock[Fetcher].mockLogged
         /\ step = "send" /\ step' # "done"
<1> DEFINE s == sock[Fetcher]
           kept == Captures(s, n)
           request == s.request + kept
           headers == s.headers \/ (n = unsent /\ kept > 0)
           respond == ~s.ready /\ request > 0 /\ (headers \/ request >= MaxCapture)
           where == IF respond THEN "log_payload" ELSE "idle"
           new == [s EXCEPT !.request = request, !.headers = headers, !.sent = @ + n]
<1>0. /\ SocketOK(sock[Fetcher], pc[Fetcher], log) /\ sock[Fetcher] \in Socket
      /\ OnTheLine /\ OwnEventsOK /\ announced \in BOOLEAN
      /\ pc \in [Threads -> Places]
      /\ DOMAIN arg = Threads /\ DOMAIN sock = Threads /\ Fetcher \in Threads
  BY LineFacts
<1>1. /\ HasSocket(Fetcher) /\ Update(Fetcher, new, where)
      /\ step = "send" /\ unsent' = unsent - n /\ announced' = announced
      /\ received' = received /\ step' = IF n = unsent THEN "receive" ELSE "send"
  BY DEF Send, TrySend
<1>2. /\ new.conn = s.conn /\ new.captured = s.captured /\ new.offset = s.offset
      /\ new.payloadLogged = s.payloadLogged /\ new.mockLogged = s.mockLogged
      /\ new.request = request /\ new.headers = headers /\ new.sent = s.sent + n
      /\ new # NoSocket
  BY <1>0 DEF Socket, NoSocket
<1>3. /\ s.sent + unsent = RequestLen /\ unsent \in 0 .. RequestLen
      /\ s.sent \in Nat /\ s.request \in Nat
  BY <1>0 DEF OnTheLine, Socket
<1> HIDE DEF new, request, headers, where
<1>4. sock'[Fetcher] = new /\ pc'[Fetcher] = where /\ arg' = arg /\ log' = log
  BY <1>0, <1>1 DEF Update, Goto
<1>5. Connected'
  BY <1>2, <1>4 DEF Connected, NoSocket
<1>6. OwnEventsOK'
  BY <1>0, <1>2, <1>4 DEF OwnEventsOK
<1>7. /\ unsent' \in 0 .. RequestLen /\ new.sent + unsent' = RequestLen
      /\ new.sent \in Nat
  BY <1>1, <1>2, <1>3, FetchBounds
<1>8. new.headers => unsent' = 0
  <2>1. ~s.headers
    BY <1>0, <1>3, FetchBounds DEF OnTheLine
  <2>2. new.headers => n = unsent
    BY <1>2, <2>1, Zenon DEF headers
  <2> QED
    BY <1>1, <1>3, <2>2
<1>9. new.request = IF new.sent <= MaxCapture THEN new.sent ELSE MaxCapture
  <2>1. ThreadOK(Fetcher)'
    BY <1>0 DEF Inv
  <2>2. BufferOK(new)
    BY <1>4, <1>5, <2>1 DEF ThreadOK, SocketOK, Connected, NoSocket
  <2> QED
    BY <2>2 DEF BufferOK
<1>10. pc'[Fetcher] \in Preparing => new.request = Whole
  <2>1. CASE where = "idle"
    BY <1>4, <2>1 DEF Preparing
  <2>2. CASE new.headers \/ new.request >= MaxCapture
    <3>1. MaxCapture \in Nat /\ RequestLen \in Nat
      BY Bounds, FetchBounds
    <3> QED
      BY <1>7, <1>8, <1>9, <2>2, <3>1 DEF Whole
  <2> QED
    BY <1>2, <2>1, <2>2 DEF where
<1>11. OnTheLine'
  <2>1. pc'[Fetcher] \in {"idle"} \cup Preparing
    BY <1>4 DEF where, Preparing
  <2>2. HostOnRecord'
    BY <1>0, <1>4 DEF OnTheLine, HostOnRecord
  <2>3. step' \in {"send", "receive"}
    BY <1>1
  <2> QED
    BY <1>0, <1>1, <1>2, <1>4, <1>7, <1>8, <1>10, <2>1, <2>2, <2>3
       DEF OnTheLine, Whole
<1> QED
  BY <1>0, <1>1, <1>2, <1>4, <1>5, <1>6, <1>11 DEF GuestOK

\* try_recv of a ready response moves on by what it hands out.
LEMMA ReadMovesOn ==
  ASSUME NEW s \in Socket, s.offset <= ResponseLen, NEW n \in Nat
  PROVE  LET left == ResponseLen - s.offset
         IN /\ Read(s, n, FALSE).offset = s.offset + (IF n < left THEN n ELSE left)
            /\ Read(s, n, FALSE).headers = s.headers
<1> DEFINE left == ResponseLen - s.offset
           taken == s.offset + (IF n < left THEN n ELSE left)
<1>1. taken \in Nat /\ s.offset \in Nat /\ ResponseLen \in Nat
  BY Bounds DEF Socket
<1>2. CASE left = 0
  <2>1. Read(s, n, FALSE) = Push([s EXCEPT !.closed = TRUE])
    BY <1>2 DEF Read
  <2>2. Read(s, n, FALSE).offset = s.offset /\ Read(s, n, FALSE).headers = s.headers
    BY <2>1 DEF Push, Socket
  <2>3. (IF n < left THEN n ELSE left) = 0
    BY <1>2
  <2>4. s.offset + (IF n < left THEN n ELSE left) = s.offset
    BY <1>1, <2>3
  <2> QED
    BY <2>2, <2>4
<1>3. CASE left # 0
  <2>1. Read(s, n, FALSE) = [s EXCEPT !.offset = taken]
    BY <1>3 DEF Read
  <2> HIDE DEF taken
  <2>2. Read(s, n, FALSE).offset = taken /\ Read(s, n, FALSE).headers = s.headers
    BY <2>1 DEF Socket
  <2> QED
    BY <2>2 DEF taken
<1> QED
  BY <1>2, <1>3

\* A piece of the response: the guest is done when it has all of it.
LEMMA ReceivePiece ==
  ASSUME Inv, FetchInv, Connected, Receive
  PROVE  /\ GuestOK' /\ OwnEventsOK' /\ log' = log /\ Connected'
         /\ sock[Fetcher].ready /\ pc[Fetcher] = "idle" /\ step = "receive"
         /\ sock'[Fetcher].payloadLogged = sock[Fetcher].payloadLogged
         /\ sock'[Fetcher].mockLogged = sock[Fetcher].mockLogged
<1> DEFINE s == sock[Fetcher]
           new == Read(s, Chunk, FALSE)
           left == ResponseLen - s.offset
           read == IF Chunk < left THEN Chunk ELSE left
<1>0. /\ SocketOK(sock[Fetcher], pc[Fetcher], log) /\ sock[Fetcher] \in Socket
      /\ OnTheLine /\ OwnEventsOK /\ announced \in BOOLEAN
      /\ pc \in [Threads -> Places]
      /\ DOMAIN arg = Threads /\ DOMAIN sock = Threads /\ Fetcher \in Threads
  BY LineFacts
<1>1. /\ HasSocket(Fetcher) /\ s.ready /\ Update(Fetcher, new, "idle")
      /\ step = "receive" /\ unsent' = unsent /\ announced' = announced
      /\ received' = received + read
      /\ step' = IF read = 0 \/ ResponseComplete(received + read) THEN "done"
                 ELSE IF received + read > MaxResponse THEN "failed" ELSE "receive"
  BY DEF Receive, TryRecv, Handed
<1>2. Chunk \in Nat /\ Chunk > 0 /\ ResponseLen \in Nat /\ HeaderLen \in Nat
  BY FetchBounds, Bounds
<1>3. s.offset = received /\ received \in 0 .. ResponseLen /\ Told(s)
  BY <1>0, <1>1 DEF OnTheLine, SocketOK, BufferOK
<1>4. /\ new \in Socket /\ new.ready /\ new.payloadLogged = s.payloadLogged
      /\ new.mockLogged = s.mockLogged /\ new.captured = s.captured
      /\ new.conn = s.conn /\ new.request = s.request /\ new.sent = s.sent
  BY <1>0, <1>1, <1>2, <1>3, ReadKeeps
<1>5. new.offset = s.offset + read /\ new.headers = s.headers
  <2>1. s \in Socket /\ s.offset <= ResponseLen /\ Chunk \in Nat
    BY <1>0, <1>2, <1>3
  <2> HIDE DEF s
  <2> QED
    BY <2>1, ReadMovesOn
<1>6. /\ received + read \in 0 .. ResponseLen
      /\ read = 0 \/ ResponseComplete(received + read) => received + read = ResponseLen
  BY <1>2, <1>3 DEF ResponseComplete
<1> HIDE DEF new, read
<1>7. /\ sock'[Fetcher] = new /\ pc'[Fetcher] = "idle" /\ arg' = arg /\ log' = log
      /\ Connected' /\ OwnEventsOK'
  BY <1>1, <1>4, SameRecordStep
<1>8. HostOnRecord'
  BY <1>0, <1>7 DEF OnTheLine, HostOnRecord
<1>9. step' \in {"receive", "done", "failed"}
  BY <1>1
<1>10. step' = "done" => received' = ResponseLen
  BY <1>1, <1>6
<1>11. OnTheLine'
  BY <1>0, <1>1, <1>3, <1>4, <1>5, <1>6, <1>7, <1>8, <1>9, <1>10
     DEF OnTheLine, Preparing
<1> QED
  BY <1>0, <1>1, <1>4, <1>7, <1>11 DEF GuestOK, HasSocket

\* record_payload_and_prepare_response on the guest's socket.
LEMMA LogStep ==
  ASSUME Inv, FetchInv, Connected, LogPayload(Fetcher) \/ LogMock(Fetcher),
         UNCHANGED <<announced, fetch>>
  PROVE  /\ GuestOK' /\ OwnEventsOK' /\ Connected' /\ HostOnRecord'
         /\ step' = step /\ step # "done"
         /\ ~sock[Fetcher].mockLogged /\ sock'[Fetcher].payloadLogged
         /\ sock[Fetcher].payloadLogged = sock'[Fetcher].mockLogged
<1> DEFINE s == sock[Fetcher]
           new == sock'[Fetcher]
           e == log'[Len(log) + 1]
<1>0. /\ SocketOK(sock[Fetcher], pc[Fetcher], log) /\ sock[Fetcher] \in Socket
      /\ OnTheLine /\ OwnEventsOK /\ announced \in BOOLEAN
      /\ pc \in [Threads -> Places]
      /\ DOMAIN arg = Threads /\ DOMAIN sock = Threads /\ Fetcher \in Threads
  BY LineFacts
<1>1. PICK S : log \in Seq(S)
  BY DEF Inv, LogOK
<1>2. /\ new.conn = s.conn /\ new.sent = s.sent /\ new.offset = s.offset
      /\ new.headers = s.headers /\ new.request = s.request
      /\ new.payloadLogged /\ new.captured = Whole
      /\ \E event : /\ log' = Append(log, event) /\ event.conn = s.conn
                    /\ \/ event.op = "Payload" /\ event.bytes = new.captured
                       \/ event.op = "Mock" /\ new.mockLogged
      /\ ~s.mockLogged /\ new.mockLogged = s.payloadLogged
      /\ ~s.payloadLogged \/ new.captured = s.captured
      /\ pc'[Fetcher] \in {"idle"} \cup Preparing
      /\ arg'[Fetcher] = NoHost /\ s.request = Whole /\ ~s.ready
  <2>1. CASE LogPayload(Fetcher)
    <3> DEFINE event == Event("Payload", s.conn, s.peer, s.domain, s.request)
    <3>1. pc[Fetcher] = "log_payload" /\ pc[Fetcher] \in Preparing
      BY <2>1 DEF LogPayload, Preparing
    <3>2. /\ ~s.payloadLogged /\ ~s.ready /\ ~s.mockLogged
          /\ s.request = Whole /\ arg[Fetcher] = NoHost
          /\ s.payloadLogged = FALSE /\ s.mockLogged = FALSE
      BY <1>0, <3>1 DEF SocketOK, StageOK, OnTheLine, Socket
    <3>3. event.conn = s.conn /\ event.op = "Payload" /\ event.bytes = s.request
      BY DEF Event
    <3>4. /\ log' = Append(log, event) /\ arg' = arg
          /\ sock' = [sock EXCEPT ![Fetcher].payloadLogged = TRUE,
                                  ![Fetcher].captured = s.request]
          /\ pc'[Fetcher] = "log_mock"
      BY <1>0, <2>1, <3>2 DEF LogPayload, Record, Goto
    <3> HIDE DEF event
    <3>5. new = [s EXCEPT !.payloadLogged = TRUE, !.captured = s.request]
      BY <1>0, <3>4
    <3>6. /\ new.conn = s.conn /\ new.sent = s.sent /\ new.offset = s.offset
          /\ new.headers = s.headers /\ new.request = s.request
          /\ new.payloadLogged /\ new.captured = s.request
          /\ new.mockLogged = s.mockLogged
      BY <1>0, <3>5 DEF Socket
    <3> QED
      BY <3>2, <3>3, <3>4, <3>6 DEF Preparing
  <2>2. CASE LogMock(Fetcher)
    <3> DEFINE event == Event("Mock", s.conn, s.peer, s.domain, ResponseLen)
               answered == Push([s EXCEPT !.mockLogged = TRUE, !.ready = TRUE])
    <3>1. pc[Fetcher] = "log_mock" /\ pc[Fetcher] \in Preparing
      BY <2>2 DEF LogMock, Preparing
    <3>2. /\ s.payloadLogged /\ ~s.ready /\ ~s.mockLogged
          /\ s.request = Whole /\ s.captured = Whole /\ arg[Fetcher] = NoHost
          /\ s.payloadLogged = TRUE
      BY <1>0, <3>1 DEF SocketOK, StageOK, OnTheLine, Socket
    <3>3. event.conn = s.conn /\ event.op = "Mock"
      BY DEF Event
    <3>4. /\ log' = Append(log, event) /\ arg'[Fetcher] = NoHost
          /\ new = answered /\ pc'[Fetcher] = "idle"
      BY <1>0, <2>2, <3>2 DEF LogMock, Record, Goto
    <3>5. /\ answered.conn = s.conn /\ answered.sent = s.sent
          /\ answered.offset = s.offset /\ answered.headers = s.headers
          /\ answered.request = s.request /\ answered.captured = s.captured
          /\ answered.payloadLogged = s.payloadLogged /\ answered.mockLogged = TRUE
      BY <1>0 DEF Push, Socket
    <3> HIDE DEF event, answered
    <3> QED
      BY <3>2, <3>3, <3>4, <3>5
  <2> QED
    BY <2>1, <2>2
<1>3. /\ Len(log) \in Nat /\ DOMAIN log = 1 .. Len(log)
      /\ DOMAIN log' = 1 .. Len(log) + 1
      /\ \A i \in DOMAIN log : log'[i] = log[i]
      /\ e.conn = s.conn
      /\ \/ e.op = "Payload" /\ e.bytes = new.captured
         \/ e.op = "Mock" /\ new.mockLogged
  BY <1>1, <1>2, AppendGrows
<1>4. s.conn \in 1 .. Len(log)
  BY <1>0 DEF FetchInv, ConnsOK, Connected
<1>5. Connected'
  BY <1>2, <1>4 DEF Connected, NoSocket
<1>6. step' = step /\ unsent' = unsent /\ received' = received /\ announced' = announced
  BY DEF fetch
<1> HIDE DEF s, new, e
<1>7. HostOnRecord'
  BY <1>0, <1>3 DEF OnTheLine, HostOnRecord
<1>8. OnTheLine' /\ step # "done"
  BY <1>0, <1>2, <1>6, <1>7 DEF OnTheLine, Whole, s, new
<1>9. OwnEventsOK'
  <2>1. /\ \E i \in DOMAIN log' : log'[i].conn = new.conn /\ log'[i].op = "Connect"
        /\ \A i \in DOMAIN log : log'[i].conn = new.conn =>
             \/ log'[i].op = "Connect"
             \/ log'[i].op = "Payload" /\ new.payloadLogged /\ log'[i].bytes = new.captured
             \/ log'[i].op = "Mock" /\ new.mockLogged
    BY <1>0, <1>2, <1>3 DEF OwnEventsOK, s
  <2>2. \A i \in DOMAIN log' : log'[i].conn = new.conn =>
          \/ log'[i].op = "Connect"
          \/ log'[i].op = "Payload" /\ new.payloadLogged /\ log'[i].bytes = new.captured
          \/ log'[i].op = "Mock" /\ new.mockLogged
    BY <1>2, <1>3, <2>1 DEF e
  <2> QED
    BY <2>1, <2>2 DEF OwnEventsOK, new
<1> QED
  BY <1>0, <1>2, <1>5, <1>6, <1>7, <1>8, <1>9 DEF GuestOK, s, new

-----------------------------------------------------------------------------
(* The guest's steps as calls, and what holds throughout. *)

\* Every call of the sample guest is one the honeypot offers any guest: to ask
\* for more bytes than the response has is to ask for all of them.
LEMMA FetchIsHoneypot ==
  ASSUME Inv, FetchInv, [FetchNext]_fetchVars
  PROVE  [Next]_vars
<1>0. /\ Fetcher \in Threads /\ Host \in Hosts /\ V4[Host] \in Peers
      /\ RequestLen \in Nat /\ MaxSent \in Nat /\ RequestLen <= MaxSent
      /\ Chunk \in Nat /\ ResponseLen \in Nat
  BY FetchBounds, Bounds
<1>1. CASE UNCHANGED fetchVars
  BY <1>1 DEF fetchVars
<1>2. CASE ResolveHost \/ ConnectToFirst
  BY <1>0, <1>2 DEF ResolveHost, ConnectToFirst, Next, Call
<1>3. ASSUME NEW n \in 1 .. unsent, Send(n) PROVE Next
  <2>1. unsent \in 0 .. RequestLen
    BY <1>0 DEF FetchInv, GuestOK, OnTheLine, OnTheWay
  <2>2. n \in 0 .. MaxSent
    BY <1>0, <2>1
  <2>3. TrySend(Fetcher, n, n = unsent) /\ (n = unsent) \in BOOLEAN
    BY <1>3 DEF Send
  <2> QED
    BY <1>0, <2>2, <2>3 DEF Next, Call
<1>4. CASE Receive
  <2> DEFINE s == sock[Fetcher]
             left == ResponseLen - s.offset
  <2>1. /\ HasSocket(Fetcher) /\ s.ready
        /\ Update(Fetcher, Read(s, Chunk, FALSE), "idle")
    BY <1>4 DEF Receive, TryRecv
  <2>2. s \in Socket
    BY <1>0, <2>1, IdleSocket DEF SocketOK
  <2>3. s.offset \in Nat
    BY <2>2 DEF Socket
  <2>4. PICK n \in 0 .. ResponseLen :
          (IF n < left THEN n ELSE left) = (IF Chunk < left THEN Chunk ELSE left)
    <3>1. CASE Chunk <= ResponseLen
      BY <1>0, <3>1
    <3>2. CASE Chunk > ResponseLen
      <4>1. ~(Chunk < left) /\ ~(ResponseLen < left)
        BY <1>0, <2>3, <3>2
      <4> QED
        BY <1>0, <4>1
    <3> QED
      BY <1>0, <3>1, <3>2
  <2>5. Read(s, n, FALSE) = Read(s, Chunk, FALSE)
    BY <2>4 DEF Read
  <2>6. TryRecv(Fetcher, n, FALSE)
    BY <2>1, <2>5 DEF TryRecv
  <2> QED
    BY <1>0, <2>6 DEF Next, Call
<1>5. CASE Continue(Fetcher)
  BY <1>0, <1>5 DEF Next
<1>6. CASE Other
  BY <1>6, HoneypotAssumption DEF Other, Others, Next
<1> QED
  BY <1>1, <1>2, <1>3, <1>4, <1>5, <1>6 DEF FetchNext, Guest

\* Of whom a step is, and where the guest is when it is its own.
LEMMA FetchSteps ==
  ASSUME Inv, FetchInv, FetchNext
  PROVE  \/ \E t \in Others : Effect(t) /\ UNCHANGED <<announced, fetch>>
         \/ /\ ~Connected /\ Effect(Fetcher)
            /\ \/ ResolveHost \/ ConnectToFirst
               \/ /\ ResolveV6(Fetcher) \/ ResolveRecord(Fetcher)
                  /\ UNCHANGED <<announced, fetch>>
         \/ /\ ~Connected /\ Effect(Fetcher)
            /\ ConnectRecord(Fetcher) /\ UNCHANGED <<announced, fetch>>
         \/ Connected /\ Effect(Fetcher) /\ \E n \in 1 .. unsent : Send(n)
         \/ Connected /\ Effect(Fetcher) /\ Receive
         \/ /\ Connected /\ Effect(Fetcher)
            /\ LogPayload(Fetcher) \/ LogMock(Fetcher)
            /\ UNCHANGED <<announced, fetch>>
<1>0. Fetcher \in Threads /\ Host \in Hosts /\ V4[Host] \in Peers
  BY FetchBounds
<1>1. CASE Other
  <2>1. PICK t \in Others : Call(t) \/ Continue(t) \/ Poll(t)
    BY <1>1 DEF Other
  <2>2. Effect(t)
    BY <2>1, CallEffect, ContinueEffect DEF Others
  <2> QED
    BY <1>1, <2>2 DEF Other
<1>2. IF Connected THEN OnTheLine ELSE OnTheWay
  BY DEF FetchInv, GuestOK
<1>3. CASE ResolveHost \/ ConnectToFirst
  <2>1. ~Connected
    BY <1>2, <1>3 DEF OnTheLine, ResolveHost, ConnectToFirst
  <2>2. Call(Fetcher)
    BY <1>0, <1>3 DEF ResolveHost, ConnectToFirst, Call
  <2> QED
    BY <1>0, <1>3, <2>1, <2>2, CallEffect
<1>4. CASE Continue(Fetcher) /\ UNCHANGED <<announced, fetch>>
  <2>1. Effect(Fetcher)
    BY <1>0, <1>4, ContinueEffect
  <2>2. CASE ResolveV6(Fetcher) \/ ResolveRecord(Fetcher) \/ ConnectRecord(Fetcher)
    <3>1. ~Connected
      BY <1>2, <2>2 DEF OnTheLine, Preparing, ResolveV6, ResolveRecord, ConnectRecord
    <3> QED
      BY <1>4, <2>1, <2>2, <3>1
  <2>3. CASE LogPayload(Fetcher) \/ LogMock(Fetcher)
    <3>1. Connected
      BY <1>2, <2>3 DEF OnTheWay, LogPayload, LogMock
    <3> QED
      BY <1>4, <2>1, <2>3, <3>1
  <2> QED
    BY <1>4, <2>2, <2>3 DEF Continue
<1>5. ASSUME NEW n \in 1 .. unsent, Send(n) PROVE Connected /\ Effect(Fetcher)
  <2>1. unsent \in 0 .. RequestLen /\ RequestLen \in Nat /\ RequestLen <= MaxSent
        /\ MaxSent \in Nat
    BY <1>2, FetchBounds, Bounds DEF OnTheWay, OnTheLine
  <2>2. n \in 0 .. MaxSent
    BY <2>1
  <2>3. TrySend(Fetcher, n, n = unsent) /\ (n = unsent) \in BOOLEAN
    BY <1>5 DEF Send
  <2>4. Call(Fetcher)
    BY <2>2, <2>3 DEF Call
  <2> QED
    BY <1>0, <2>3, <2>4, CallEffect DEF TrySend, HasSocket, Connected
<1>6. CASE Receive
  <2>1. HasSocket(Fetcher)
    BY <1>6 DEF Receive, TryRecv
  <2> DEFINE s == sock[Fetcher]
  <2>2. s.ready /\ Update(Fetcher, Read(s, Chunk, FALSE), "idle")
    BY <1>6 DEF Receive, TryRecv
  <2>3. s \in Socket /\ Told(s)
    BY <1>0, <2>1, <2>2, IdleSocket DEF SocketOK, BufferOK
  <2>4. KeepsConn(Read(s, Chunk, FALSE), s)
    <3>1. Chunk \in Nat
      BY FetchBounds
    <3> HIDE DEF s
    <3> QED
      BY <2>2, <2>3, <3>1, ReadKeeps DEF KeepsConn
  <2>5. Effect(Fetcher)
    BY <1>0, <2>1, <2>2, <2>4, UpdateEffect
  <2> QED
    BY <1>6, <2>1, <2>5 DEF HasSocket, Connected
<1> QED
  BY <1>1, <1>3, <1>4, <1>5, <1>6 DEF FetchNext, Guest

\* Each step keeps what is known of the guest and its connection.
LEMMA FetchInvStep ==
  ASSUME Inv, FetchInv, [FetchNext]_fetchVars
  PROVE  Inv' /\ FetchInv'
<1>1. Inv'
  BY FetchIsHoneypot, StepInv
<1>2. CASE UNCHANGED fetchVars
  <2>1. ConnsOK'
    BY <1>2 DEF fetchVars, vars, FetchInv, ConnsOK, NoSocket
  <2>2. GuestOK' /\ OwnEventsOK'
    BY <1>2 DEF fetchVars, vars, fetch, FetchInv, GuestOK, OwnEventsOK, OnTheWay,
                OnTheLine, Connected, NoSocket, HostOnRecord, Whole
  <2> QED
    BY <1>1, <2>1, <2>2 DEF FetchInv
<1>3. ASSUME FetchNext PROVE ConnsOK' /\ GuestOK' /\ OwnEventsOK'
  <2>1. \E t \in Threads : Effect(t)
    BY <1>3, FetchSteps, FetchBounds DEF Others
  <2>2. ConnsOK'
    BY <2>1, ConnsStep DEF FetchInv
  <2>3. GuestOK' /\ OwnEventsOK'
    BY <1>1, <1>3, FetchSteps, OtherStep, OnTheWayStep, NewConnectionStep, SendPiece,
       ReceivePiece, LogStep
  <2> QED
    BY <2>2, <2>3
<1> QED
  BY <1>1, <1>2, <1>3 DEF FetchInv

\* The guest starts on its way, with nothing on record.
LEMMA FetchInvInit ==
  ASSUME FetchInit
  PROVE  Inv /\ FetchInv
<1>0. Fetcher \in Threads
  BY FetchBounds
<1>1. Init /\ log = <<>> /\ pc[Fetcher] = "idle" /\ ~Connected
      /\ \A t \in Threads : sock[t] = NoSocket
  BY <1>0 DEF FetchInit, Init, Connected
<1>2. ConnsOK
  BY <1>1 DEF ConnsOK
<1>3. GuestOK /\ OwnEventsOK
  BY <1>1 DEF FetchInit, GuestOK, OwnEventsOK, OnTheWay
<1> QED
  BY <1>1, <1>2, <1>3, InitInv DEF FetchInv

\* While the sample guest fetches, the honeypot is as with any guests, and the
\* guest and its connection are where its step is.
LEMMA FetchInvariant == FetchSpec => [](Inv /\ FetchInv)
<1>1. FetchInit => Inv /\ FetchInv
  BY FetchInvInit
<1>2. Inv /\ FetchInv /\ [FetchNext]_fetchVars => (Inv /\ FetchInv)'
  BY FetchInvStep
<1> QED
  BY <1>1, <1>2, PTL DEF FetchSpec

-----------------------------------------------------------------------------
(* What is on record of the exchange. *)

\* The stages on record are told by the socket's flags.
StagesOK ==
  /\ OnRecord \subseteq {"Resolve", "Connect", "Payload", "Mock"}
  /\ "Resolve" \in OnRecord <=> HostOnRecord
  /\ "Connect" \in OnRecord <=> Connected
  /\ "Payload" \in OnRecord <=> Connected /\ sock[Fetcher].payloadLogged
  /\ "Mock" \in OnRecord <=> Connected /\ sock[Fetcher].mockLogged

\* What is on record of the guest is what its socket has recorded.
LEMMA StagesOnRecord == Inv /\ FetchInv => StagesOK
<1> SUFFICES ASSUME Inv, FetchInv PROVE StagesOK
  OBVIOUS
<1> DEFINE s == sock[Fetcher]
           Shown(i) == log[i].op = "Payload" => log[i].bytes = Whole
<1>1. OnRecord = {log[i].op : i \in {j \in Own : Shown(j)}}
  BY DEF OnRecord, Whole
<1>2. \A i \in DOMAIN log : log[i].op = "Resolve" => Shown(i)
  OBVIOUS
<1>3. CASE ~Connected
  <2>1. s.conn = 0
    BY <1>3 DEF Connected, NoSocket
  <2>2. Own = {i \in DOMAIN log : log[i].op = "Resolve" /\ log[i].domain = Host}
    BY <2>1 DEF Own, OfConnection
  <2> HIDE DEF s
  <2>3. OnRecord \subseteq {"Resolve"} /\ ("Resolve" \in OnRecord <=> HostOnRecord)
    BY <1>1, <1>2, <2>2 DEF HostOnRecord
  <2> QED
    BY <1>3, <2>3 DEF StagesOK
<1>4. CASE Connected
  <2>1. /\ SocketOK(s, pc[Fetcher], log) /\ OnTheLine /\ OwnEventsOK
        /\ Fetcher \in Threads
    BY <1>4, LineFacts
  <2>2. s.conn \in 1 .. Len(log) /\ Len(log) \in Nat
    <3>1. PICK S : log \in Seq(S)
      BY DEF Inv, LogOK
    <3> QED
      BY <1>4, <2>1, <3>1, LenProperties DEF FetchInv, ConnsOK, Connected
  <2>3. s.mockLogged => s.ready
    BY <2>1 DEF SocketOK, StageOK, Preparing
  <2>4. s.payloadLogged => s.captured = Whole
    BY <2>1 DEF OnTheLine
  <2>5. OfConnection = {i \in DOMAIN log : log[i].conn = s.conn}
    BY <2>2 DEF OfConnection
  <2>6. \A i \in OfConnection :
          \/ log[i].op = "Connect"
          \/ log[i].op = "Payload" /\ s.payloadLogged /\ log[i].bytes = s.captured
          \/ log[i].op = "Mock" /\ s.mockLogged
    BY <1>4, <2>1, <2>5 DEF OwnEventsOK
  <2>7. \E i \in OfConnection : log[i].op = "Connect"
    BY <1>4, <2>1, <2>5 DEF OwnEventsOK
  <2>8. s.payloadLogged =>
          \E i \in OfConnection : log[i].op = "Payload" /\ log[i].bytes = Whole
    BY <2>1, <2>4, <2>5 DEF SocketOK, LoggedOK
  <2>9. s.mockLogged => \E i \in OfConnection : log[i].op = "Mock"
    BY <2>1, <2>3, <2>5 DEF SocketOK, LoggedOK
  <2> HIDE DEF s
  <2>10. /\ \A i \in Own : \/ i \in OfConnection
                           \/ log[i].op = "Resolve" /\ log[i].domain = Host
         /\ OfConnection \subseteq Own
         /\ \A i \in DOMAIN log :
              log[i].op = "Resolve" /\ log[i].domain = Host => i \in Own
    BY DEF Own
  <2>11. "Resolve" \in OnRecord <=> HostOnRecord
    <3>1. \A i \in DOMAIN log : i \in OfConnection => log[i].op # "Resolve"
      BY <2>6
    <3>2. Own \subseteq DOMAIN log
      BY DEF Own, OfConnection
    <3> QED
      BY <1>1, <1>2, <2>10, <3>1, <3>2 DEF HostOnRecord
  <2>12. OnRecord \subseteq {"Resolve", "Connect", "Payload", "Mock"}
    BY <1>1, <2>6, <2>10
  <2>13. "Connect" \in OnRecord
    BY <1>1, <2>7, <2>10
  <2>14. "Payload" \in OnRecord <=> s.payloadLogged
    BY <1>1, <2>6, <2>8, <2>10
  <2>15. "Mock" \in OnRecord <=> s.mockLogged
    BY <1>1, <2>6, <2>9, <2>10
  <2> QED
    BY <1>4, <2>11, <2>12, <2>13, <2>14, <2>15 DEF StagesOK, s
<1> QED
  BY <1>3, <1>4

\* A step of the model is a step of the exchange, or none.
LEMMA ExchangeStep ==
  ASSUME Inv, FetchInv, [FetchNext]_fetchVars, Inv', FetchInv', StagesOK, StagesOK'
  PROVE  [Promise!Next]_<<OnRecord, Delivered>>
<1>1. CASE UNCHANGED fetchVars
  BY <1>1 DEF fetchVars, vars, fetch, OnRecord, Own, OfConnection, Delivered
<1>2. ASSUME OnRecord = {}, OnRecord' = {"Resolve"}, Delivered' = Delivered
      PROVE  Promise!Next
  <2>1. Promise!Record(1)
    BY <1>2 DEF Promise!Record, Promise!Stages
  <2> QED
    BY <2>1 DEF Promise!Next, Promise!Stages
<1>3. ASSUME OnRecord = {"Resolve"}, OnRecord' = {"Resolve", "Connect"},
             Delivered' = Delivered
      PROVE  Promise!Next
  <2>1. Promise!Record(2)
    BY <1>3 DEF Promise!Record, Promise!Stages
  <2> QED
    BY <2>1 DEF Promise!Next, Promise!Stages
<1>4. ASSUME OnRecord = {"Resolve", "Connect"},
             OnRecord' = {"Resolve", "Connect", "Payload"}, Delivered' = Delivered
      PROVE  Promise!Next
  <2>1. Promise!Record(3)
    BY <1>4 DEF Promise!Record, Promise!Stages
  <2> QED
    BY <2>1 DEF Promise!Next, Promise!Stages
<1>5. ASSUME OnRecord = {"Resolve", "Connect", "Payload"},
             OnRecord' = {"Resolve", "Connect", "Payload", "Mock"},
             Delivered' = Delivered
      PROVE  Promise!Next
  <2>1. Promise!Record(4)
    BY <1>5 DEF Promise!Record, Promise!Stages
  <2> QED
    BY <2>1 DEF Promise!Next, Promise!Stages
<1>6. ASSUME OnRecord = {"Resolve", "Connect", "Payload", "Mock"}, OnRecord' = OnRecord,
             Delivered = "nothing", Delivered' = "response"
      PROVE  Promise!Next
  <2>1. {Promise!Stages[i] : i \in DOMAIN Promise!Stages} = OnRecord
    BY <1>6 DEF Promise!Stages
  <2>2. Promise!Deliver
    BY <1>6, <2>1 DEF Promise!Deliver
  <2> QED
    BY <2>2 DEF Promise!Next
<1>7. Connected => HostOnRecord
  BY DEF FetchInv, GuestOK, OnTheLine
<1>8. ASSUME HostOnRecord' <=> HostOnRecord, Connected' <=> Connected,
              Connected => /\ sock'[Fetcher].payloadLogged <=> sock[Fetcher].payloadLogged
                           /\ sock'[Fetcher].mockLogged <=> sock[Fetcher].mockLogged
       PROVE  OnRecord' = OnRecord
  <2> DEFINE stages == {"Resolve", "Connect", "Payload", "Mock"}
  <2>1. OnRecord \subseteq stages /\ OnRecord' \subseteq stages
    BY DEF StagesOK
  <2>2. "Resolve" \in OnRecord' <=> "Resolve" \in OnRecord
    BY <1>8 DEF StagesOK
  <2>3. "Connect" \in OnRecord' <=> "Connect" \in OnRecord
    BY <1>8 DEF StagesOK
  <2>4. "Payload" \in OnRecord' <=> "Payload" \in OnRecord
    <3>1. "Payload" \in OnRecord <=> Connected /\ sock[Fetcher].payloadLogged
      BY DEF StagesOK
    <3>2. "Payload" \in OnRecord' <=> Connected' /\ sock'[Fetcher].payloadLogged
      BY DEF StagesOK
    <3> QED
      BY <1>8, <3>1, <3>2
  <2>5. "Mock" \in OnRecord' <=> "Mock" \in OnRecord
    <3>1. "Mock" \in OnRecord <=> Connected /\ sock[Fetcher].mockLogged
      BY DEF StagesOK
    <3>2. "Mock" \in OnRecord' <=> Connected' /\ sock'[Fetcher].mockLogged
      BY DEF StagesOK
    <3> QED
      BY <1>8, <3>1, <3>2
  <2>6. \A x \in stages : x \in OnRecord' <=> x \in OnRecord
    BY <2>2, <2>3, <2>4, <2>5
  <2> HIDE DEF stages
  <2>7. \A x : x \in OnRecord' <=> x \in OnRecord
    BY <2>1, <2>6
  <2> QED
    BY <2>7, SetExtensionality
<1>9. ASSUME sock'[Fetcher] = sock[Fetcher], Delivered' = Delivered,
             HostOnRecord => HostOnRecord'
      PROVE  [Promise!Next]_<<OnRecord, Delivered>>
  <2>1. Connected' = Connected
    BY <1>9 DEF Connected, NoSocket
  <2>2. CASE HostOnRecord' <=> HostOnRecord
    <3>1. OnRecord' = OnRecord
      BY <1>9, <1>8, <2>1, <2>2
    <3> QED
      BY <1>9, <3>1
  <2>3. CASE HostOnRecord' /\ ~HostOnRecord
    <3>1. OnRecord = {} /\ OnRecord' = {"Resolve"}
      BY <1>7, <2>1, <2>3 DEF StagesOK
    <3> QED
      BY <1>2, <1>9, <3>1
  <2> QED
    BY <1>9, <2>2, <2>3
<1>10. ASSUME NEW t \in Others, Effect(t), UNCHANGED <<announced, fetch>>
       PROVE  [Promise!Next]_<<OnRecord, Delivered>>
  <2>1. sock'[Fetcher] = sock[Fetcher] /\ (HostOnRecord => HostOnRecord')
    BY <1>10, OtherStep, HostStays DEF Others
  <2>2. Delivered' = Delivered
    BY <1>10 DEF Delivered, fetch
  <2> QED
    BY <1>9, <2>1, <2>2
<1>11. ASSUME ~Connected, Effect(Fetcher),
              \/ ResolveHost \/ ConnectToFirst
              \/ /\ ResolveV6(Fetcher) \/ ResolveRecord(Fetcher)
                 /\ UNCHANGED <<announced, fetch>>
       PROVE  [Promise!Next]_<<OnRecord, Delivered>>
  <2>1. sock' = sock
    BY <1>11, OnTheWayStep
  <2>2. HostOnRecord => HostOnRecord'
    BY <1>11, FetchBounds, HostStays
  <2>3. step # "done" /\ step' # "done"
    BY <1>11 DEF FetchInv, GuestOK, OnTheWay, ResolveHost, ConnectToFirst, fetch
  <2>4. Delivered' = Delivered
    BY <2>3 DEF Delivered
  <2> QED
    BY <1>9, <2>1, <2>2, <2>4
<1>12. ASSUME ~Connected, ConnectRecord(Fetcher), UNCHANGED <<announced, fetch>>
       PROVE  [Promise!Next]_<<OnRecord, Delivered>>
  <2>1. /\ HostOnRecord /\ HostOnRecord' /\ Connected'
        /\ step' = "send" /\ step = "send"
        /\ ~sock'[Fetcher].payloadLogged /\ ~sock'[Fetcher].mockLogged
    BY <1>12, NewConnectionStep
  <2>2. OnRecord = {"Resolve"} /\ OnRecord' = {"Resolve", "Connect"}
    BY <1>12, <2>1 DEF StagesOK
  <2>3. Delivered' = Delivered
    BY <2>1 DEF Delivered
  <2> QED
    BY <1>3, <2>2, <2>3
<1>13. ASSUME Connected, NEW n \in 1 .. unsent, Send(n)
       PROVE  [Promise!Next]_<<OnRecord, Delivered>>
  <2>1. /\ log' = log /\ Connected'
        /\ sock'[Fetcher].payloadLogged = sock[Fetcher].payloadLogged
        /\ sock'[Fetcher].mockLogged = sock[Fetcher].mockLogged
        /\ step = "send" /\ step' # "done"
    BY <1>13, SendPiece
  <2>2. HostOnRecord' <=> HostOnRecord
    BY <2>1 DEF HostOnRecord
  <2>3. OnRecord' = OnRecord
    BY <1>13, <1>8, <2>1, <2>2
  <2>4. Delivered' = Delivered
    BY <2>1 DEF Delivered
  <2> QED
    BY <2>3, <2>4
<1>14. ASSUME Connected, Receive
       PROVE  [Promise!Next]_<<OnRecord, Delivered>>
  <2>1. /\ log' = log /\ Connected' /\ GuestOK'
        /\ sock[Fetcher].ready /\ pc[Fetcher] = "idle" /\ step = "receive"
        /\ sock'[Fetcher].payloadLogged = sock[Fetcher].payloadLogged
        /\ sock'[Fetcher].mockLogged = sock[Fetcher].mockLogged
    BY <1>14, ReceivePiece
  <2>2. HostOnRecord' <=> HostOnRecord
    BY <2>1 DEF HostOnRecord
  <2>3. OnRecord' = OnRecord
    BY <1>14, <1>8, <2>1, <2>2
  <2>4. Delivered = "nothing"
    BY <2>1 DEF Delivered
  <2>5. CASE step' = "done"
    <3>1. received' = ResponseLen
      BY <2>1, <2>5 DEF GuestOK, OnTheLine
    <3>2. Delivered' = "response"
      BY <2>5, <3>1 DEF Delivered
    <3>3. sock[Fetcher].payloadLogged /\ sock[Fetcher].mockLogged
      BY <1>14, <2>1, LineFacts DEF SocketOK, StageOK, Preparing
    <3>4. OnRecord = {"Resolve", "Connect", "Payload", "Mock"}
      BY <1>7, <1>14, <3>3 DEF StagesOK
    <3> QED
      BY <1>6, <2>3, <2>4, <3>2, <3>4
  <2>6. CASE step' # "done"
    <3>1. Delivered' = "nothing"
      BY <2>6 DEF Delivered
    <3> QED
      BY <2>3, <2>4, <3>1
  <2> QED
    BY <2>5, <2>6
<1>15. ASSUME Connected, LogPayload(Fetcher) \/ LogMock(Fetcher),
              UNCHANGED <<announced, fetch>>
       PROVE  [Promise!Next]_<<OnRecord, Delivered>>
  <2>1. /\ Connected' /\ HostOnRecord' /\ step' = step /\ step # "done"
        /\ ~sock[Fetcher].mockLogged /\ sock'[Fetcher].payloadLogged
        /\ sock[Fetcher].payloadLogged = sock'[Fetcher].mockLogged
    BY <1>15, LogStep
  <2>2. Delivered' = Delivered
    BY <2>1 DEF Delivered
  <2>3. CASE sock[Fetcher].payloadLogged
    <3>1. /\ OnRecord = {"Resolve", "Connect", "Payload"}
          /\ OnRecord' = {"Resolve", "Connect", "Payload", "Mock"}
      BY <1>7, <1>15, <2>1, <2>3 DEF StagesOK
    <3> QED
      BY <1>5, <2>2, <3>1
  <2>4. CASE ~sock[Fetcher].payloadLogged
    <3>1. /\ OnRecord = {"Resolve", "Connect"}
          /\ OnRecord' = {"Resolve", "Connect", "Payload"}
      BY <1>7, <1>15, <2>1, <2>4 DEF StagesOK
    <3> QED
      BY <1>4, <2>2, <3>1
  <2> QED
    BY <2>3, <2>4
<1> QED
  BY <1>1, <1>10, <1>11, <1>12, <1>13, <1>14, <1>15, FetchSteps

-----------------------------------------------------------------------------
\* Whatever the sample guest and the others do on the honeypot is a behaviour
\* of NetworkHoneypot: each of its promises above holds while a guest fetches.
THEOREM FetchesAreCalls == FetchSpec => Spec
<1>1. FetchInit => Init
  BY DEF FetchInit
<1>2. Inv /\ FetchInv /\ [FetchNext]_fetchVars => [Next]_vars
  BY FetchIsHoneypot
<1> QED
  BY <1>1, <1>2, FetchInvariant, PTL DEF FetchSpec, Spec

\* The sample guest's counters, the map of hosts and the list of events stay
\* within their ranges while it fetches (wasi_network_fetch.rs run).
THEOREM FetchTypes == FetchSpec => []FetchTypeOK
<1>1. Inv /\ FetchInv => FetchTypeOK
  <2> SUFFICES ASSUME Inv, FetchInv PROVE FetchTypeOK
    OBVIOUS
  <2>1. /\ announced \in BOOLEAN
        /\ step \in {"resolve", "connect", "send", "receive", "done", "failed"}
    BY DEF FetchInv, GuestOK, OnTheWay, OnTheLine
  <2>2. unsent \in 0 .. RequestLen /\ received \in 0 .. ResponseLen
    BY FetchBounds, Bounds DEF FetchInv, GuestOK, OnTheWay, OnTheLine
  <2>3. resolved \in [Addresses \cup Peers -> Hosts \cup {NoHost}]
    BY DEF Inv, HostsOK, Domains
  <2>4. Len(events) <= EventCap
    <3> DEFINE n == Len(log)
               first == IF n > EventCap THEN n - EventCap + 1 ELSE 1
    <3>1. PICK S : log \in Seq(S)
      BY DEF Inv, LogOK
    <3>2. n \in Nat /\ EventCap \in Nat \ {0}
      BY <3>1, LenProperties, EventCapAssumption
    <3>3. events = SubSeq(log, first, n)
      BY DEF Inv, LogOK, Latest
    <3>4. first \in Int /\ first >= 1 /\ n - first + 1 <= EventCap
      BY <3>2
    <3>5. \A i \in first .. n : log[i] \in S
      BY <3>1, <3>2, <3>4, ElementOfSeq
    <3> HIDE DEF first, n
    <3>6. Len(events) = IF first <= n THEN n - first + 1 ELSE 0
      BY <3>2, <3>3, <3>4, <3>5, SubSeqProperties
    <3> QED
      BY <3>2, <3>4, <3>6
  <2> QED
    BY <2>1, <2>2, <2>3, <2>4 DEF FetchTypeOK
<1> QED
  BY <1>1, FetchInvariant, PTL

\* The exchange of the sample guest implements Interception, step by step: the
\* host it asks for, its connection, its whole request (as far as the honeypot
\* keeps it) and the answer go on record in this order, and it has its page
\* only then and in full, whatever other guests do on the same honeypot.
THEOREM ExchangeIntercepted ==
  FetchSpec => Promise!Init /\ [][Promise!Next]_<<OnRecord, Delivered>>
<1>1. FetchInit => Promise!Init
  <2> SUFFICES ASSUME FetchInit PROVE Promise!Init
    OBVIOUS
  <2>1. log = <<>> /\ step = "resolve"
    BY DEF FetchInit, Init
  <2>2. Own = {}
    BY <2>1 DEF Own, OfConnection
  <2>3. OnRecord = {}
    BY <2>2 DEF OnRecord
  <2> QED
    BY <2>1, <2>3 DEF Promise!Init, Delivered
<1>2. Inv /\ FetchInv => StagesOK
  BY StagesOnRecord
<1>3. (Inv /\ FetchInv)' => StagesOK'
  BY <1>2, PTL
<1>4. Inv /\ FetchInv /\ [FetchNext]_fetchVars =>
        [Promise!Next]_<<OnRecord, Delivered>>
  BY <1>2, <1>3, FetchInvStep, ExchangeStep
<1> QED
  BY <1>1, <1>4, FetchInvariant, PTL DEF FetchSpec
=============================================================================
