---------------------------- MODULE Programs_proofs ----------------------------
(***************************************************************************)
(* Proofs about the two programs on Sockets, SshServer and Miner.  Every   *)
(* step of theirs is a step Sockets has, so what Sockets_proofs says of    *)
(* every program holds of them, and of MCSockets, which runs them.  The    *)
(* server, when it reads to the end, goes back to select with no data that *)
(* it would not look at.  The miner, with requests, replies and buffers of *)
(* any size, also counts: while its connection is not broken, what the     *)
(* server has sent is what has been read and what its one endpoint still   *)
(* holds.                                                                  *)
(***************************************************************************)
EXTENDS MCSockets, Sockets_proofs

NoSocket == {"off", "resolve", "socket", "sleep"}
Talking == {"connecting", "hello", "handshake", "request", "response", "tls_close", "shutdown"}
Counting == {"connecting", "hello", "handshake", "request", "response"}

\* The miner's socket is the only one there is.
Alone ==
  /\ mpc \in NoSocket => InUse = {} /\ sock = NoSlot
  /\ mpc \notin NoSocket => /\ InUse = {sock}
                            /\ socket_table[sock].type = "stream"
                            /\ socket_table[sock].nonblocking = FALSE
  /\ call.op \in {"none", "recv", "connect"}

\* Nothing is left in a closed endpoint for the next socket to read.
Emptied == \A e \in Endpoints : endpoint[e].state = "closed" => endpoint[e].inbox = 0

Peered ==
  /\ mpc = "connect" => OTState(sock) = "unbound" /\ Unread(sock) = 0
  /\ mpc \in Talking => OTState(sock) \in {"connected", "ended", "aborted"}

\* As much of the reply as the buffer has room for.
Most == IF Reply < room THEN Reply ELSE room

\* What the miner has read of what the server has sent.
HasRead == IF mpc \in {"request", "response"} THEN Hello + received ELSE 0

Tallied ==
  /\ served \in 0 .. Served
  /\ mpc \in {"resolve", "socket", "connect", "connecting", "hello"} => sent = 0
  /\ mpc \in {"hello", "handshake"} => tls
  /\ mpc = "handshake" => sent = Hello
  /\ mpc = "request" => sent >= Hello
  /\ received <= room
  /\ mpc \notin {"response", "tls_close", "shutdown", "close", "sleep"} => received = 0

\* Nothing is lost on the way, but by a connection that breaks.
Through ==
  /\ mpc \in Counting =>
       /\ OTState(sock) = "aborted" \/ served = HasRead + Unread(sock)
       /\ OTState(sock) = "ended" => served = Hello + Reply
  /\ mpc = "tls_close" => received = Most
  /\ mpc = "shutdown" => received \in {0, Most} \/ OTState(sock) = "aborted"

Counts == MinerTypeOK /\ Peered /\ Tallied /\ Through

MinerInv == Wellformed /\ Emptied /\ Alone /\ Counts

-----------------------------------------------------------------------------
(* Programs on the sockets *)

\* recv takes no more than an endpoint can hold.
LEMMA RecvIsCall == ASSUME Wellformed, NEW s, NEW k, RecvData(s, k) PROVE Next
<1>1. s \in Slots /\ k \in 1 .. Unread(s)
  BY DEF RecvData, get_socket, InUse
<1>2. Unread(s) \in 0 .. MaxData
  BY <1>1, Held DEF RecvData, Unread, Wellformed, TypeOK, Provider
<1>3. k \in 1 .. MaxData
  BY <1>1, <1>2, SocketAssumption
<1> QED BY <1>1, <1>3 DEF Next, AnyCall

\* A call of the miner, an end of a call, or an interrupt: each is a step that Sockets has.
LEMMA MinerStepIsCall == ASSUME Wellformed, [MinerNext]_minerVars PROVE [Next]_vars
<1>2. ASSUME NEW s, Connect(s) \/ ConnectRefused(s) \/ Close(s) PROVE Next
  <2>1. s \in Slots
    BY <1>2 DEF Connect, ConnectRefused, CanConnect, Close, get_socket, InUse
  <2> QED BY <1>2, <2>1 DEF Next, AnyCall
<1>3. ASSUME OpenSocket PROVE Next
  BY <1>3 DEF OpenSocket, Next, AnyCall, Types
<1>4. ASSUME NEW e \in Endpoints, Arrive(e) \/ Release(e) \/ Abort(e) PROVE Next
  BY <1>4 DEF Next, Network
<1>5. ASSUME ServerSends \/ ServerEnds \/ ServerDies PROVE Next
  BY <1>4, <1>5 DEF ServerSends, ServerEnds, ServerDies
<1>6. ASSUME MinerReturns PROVE Next
  BY <1>6 DEF MinerReturns, Next
<1>7. ASSUME ConnectFailed \/ ConnectServer \/ CloseSocket PROVE Next
  BY <1>2, <1>7 DEF ConnectFailed, ConnectServer, CloseSocket
<1>8. ASSUME Handshake \/ ReceiveMore \/ TlsDrain PROVE [Next]_vars
  BY <1>8, RecvIsCall DEF Handshake, ReceiveMore, TlsDrain
<1>9. ASSUME \/ Resolve \/ Connected \/ SendHello \/ SendRequest \/ RequestSent
             \/ ReceiveEnd \/ BufferFull \/ TlsClosed \/ Shutdown \/ Sleep \/ UNCHANGED minerVars
      PROVE UNCHANGED vars
  BY <1>9 DEF Resolve, Connected, SendHello, SendRequest, RequestSent,
              ReceiveEnd, BufferFull, TlsClosed, Shutdown, Sleep, minerVars
<1> QED BY <1>3, <1>5, <1>6, <1>7, <1>8, <1>9 DEF MinerNext, MinerStep

\* The miner makes no call that Sockets has not, and makes none while one is under way: whatever
\* Sockets promises every program, it promises this one.
THEOREM MinerIsProgram == MinerSpec => Spec
<1>1. MinerInit => Init
  BY DEF MinerInit
<1>2. Wellformed /\ [MinerNext]_minerVars => [Next]_vars /\ Wellformed'
  BY MinerStepIsCall, WellformedStep
<1> QED BY <1>1, <1>2, WellformedInit, PTL DEF MinerSpec, Spec

\* The same of the server.
LEMMA ServerStepIsCall == ASSUME Wellformed, [ServerNext]_serverVars PROVE [Next]_vars
<1>1. ASSUME NEW s, Bind(s) \/ Listen(s) \/ ListenFails(s) \/ SetNonblocking(s, TRUE) \/ Close(s)
      PROVE  Next
  <2>1. s \in Slots
    BY <1>1 DEF Bind, Listen, ListenFails, SetNonblocking, Close, get_socket, InUse
  <2> QED BY <1>1, <2>1 DEF Next, AnyCall
<1>2. ASSUME NEW l, \/ AcceptNoSlot(l)
                    \/ \E s \in Slots : \/ AcceptNoEndpoint(l, s) \/ AcceptRefused(l, s)
                                         \/ AcceptConnection(l, s)
      PROVE  Next
  <2>1. l \in Slots
    BY <1>2 DEF AcceptNoSlot, AcceptNoEndpoint, AcceptRefused, AcceptConnection, OTListen,
                get_socket, InUse
  <2> QED BY <1>2, <2>1 DEF Next, AnyCall
<1>3. ASSUME OpenListener PROVE Next
  BY <1>3 DEF OpenListener, Next, AnyCall, Types
<1>4. ASSUME BindListener \/ StartListening \/ ListenerNonblocking \/ ConnectionNonblocking
      PROVE  [Next]_vars
  BY <1>1, <1>4 DEF BindListener, StartListening, ListenerNonblocking, ConnectionNonblocking,
                    F_SETFL
<1>5. ASSUME AcceptCaller \/ AcceptNobody PROVE [Next]_vars
  BY <1>2, <1>5 DEF AcceptCaller, AcceptNobody
<1>6. ASSUME NEW s \in Slots, ServeData(s) \/ ServeNothing(s) \/ HangUp(s) PROVE [Next]_vars
  BY <1>1, <1>6, RecvIsCall DEF ServeData, ServeNothing, HangUp
<1>7. ASSUME ServerReturns \/ \E e \in Endpoints : Network(e) PROVE Next
  BY <1>7 DEF ServerReturns, Next
<1>8. ASSUME \/ ProcessEvents \/ os9_should_continue \/ Select \/ PassDone \/ Quit
             \/ UNCHANGED serverVars
      PROVE  UNCHANGED vars
  BY <1>8 DEF ProcessEvents, os9_should_continue, Select, PassDone, Quit, serverVars
<1> QED BY <1>3, <1>4, <1>5, <1>6, <1>7, <1>8 DEF ServerNext, ServerStep

\* The server, too, calls the library only as Sockets has it: its slots and endpoints stay one to
\* one, and what select reports to it is true, whatever it does with the answer.
THEOREM ServerIsProgram == ServerSpec => Spec
<1>1. ServerInit => Init
  BY DEF ServerInit
<1>2. Wellformed /\ [ServerNext]_serverVars => [Next]_vars /\ Wellformed'
  BY ServerStepIsCall, WellformedStep
<1> QED BY <1>1, <1>2, WellformedInit, PTL DEF ServerSpec, Spec

\* Each step of the server keeps the types of its variables.
LEMMA ServerTypeStep == ServerTypeOK /\ [ServerNext]_serverVars => ServerTypeOK'
<1> SUFFICES ASSUME ServerTypeOK, [ServerNext]_serverVars PROVE ServerTypeOK'
  OBVIOUS
<1> USE DEF ServerTypeOK, Goto, Seen
<1>1. ASSUME OpenListener \/ BindListener \/ StartListening \/ ListenerNonblocking
      PROVE  ServerTypeOK'
  BY <1>1 DEF OpenListener, BindListener, StartListening, ListenerNonblocking
<1>2. ASSUME ProcessEvents \/ os9_should_continue \/ Select \/ PassDone \/ Quit
      PROVE  ServerTypeOK'
  BY <1>2 DEF ProcessEvents, os9_should_continue, Select, SelectedRead, InUse, PassDone, Quit
<1>3. ASSUME AcceptCaller \/ AcceptNobody \/ ConnectionNonblocking PROVE ServerTypeOK'
  BY <1>3 DEF AcceptCaller, AcceptNobody, ConnectionNonblocking, InUse
<1>4. ASSUME NEW s \in Slots, ServeData(s) \/ ServeNothing(s) \/ HangUp(s) PROVE ServerTypeOK'
  BY <1>4 DEF ServeData, ServeNothing, HangUp
<1>5. ASSUME ServerReturns \/ UNCHANGED serverVars \/ UNCHANGED server PROVE ServerTypeOK'
  BY <1>5 DEF ServerReturns, serverVars, server
<1> QED BY <1>1, <1>2, <1>3, <1>4, <1>5 DEF ServerNext, ServerStep

\* The server's variables keep their types: it sees to no more than the sockets there are.
THEOREM ServerTypeCorrect == ServerSpec => []ServerTypeOK
<1>1. ServerInit => ServerTypeOK
  BY DEF ServerInit, ServerTypeOK
<1> QED BY <1>1, ServerTypeStep, PTL DEF ServerSpec

-----------------------------------------------------------------------------
(* The server overlooks nothing *)

Connections == InUse \ {listener}

\* The notifier of a connection is there.
HasNotifier(s) == endpoint[socket_table[s].ep].notify = s

\* The listener is the server's first socket.
First == at = "socket" => InUse = {}

\* A recv is on a connection that is not read to the end, and so is an accept.
Underway ==
  /\ call.op \in {"none", "recv", "accepted", "noted"}
  /\ call.op # "none" => call.s \in unfinished

\* Data is announced, or is where the server will look anyway, once there is a notifier.
Announced ==
  \A s \in Connections :
    Unread(s) > 0 /\ HasNotifier(s) => socket_table[s].readable \/ s \in unfinished

ReadInv == Wellformed /\ First /\ Underway /\ Announced

\* A pass starts with every connection that has a notifier and anything to read.
NothingOverlooked ==
  at = "select" =>
    \A s \in Connections :
      Unread(s) > 0 /\ endpoint[socket_table[s].ep].notify = s
        => s \in SelectedRead(InUse) \cup unfinished

\* What most steps do to a connection: what they put into it, they announce.
Same(s) ==
  /\ socket_table'[s].ep = socket_table[s].ep
  /\ HasNotifier(s)' = HasNotifier(s)
  /\ socket_table[s].readable => socket_table'[s].readable
  /\ Unread(s)' > 0 => Unread(s) > 0 \/ socket_table'[s].readable \/ ~HasNotifier(s)

\* No connection is new, and the server is not the one to forget any.
LEMMA SameKeeps ==
  ASSUME ReadInv, InUse' \subseteq InUse, listener' = listener,
         \A s \in Connections' : Same(s),
         at' = at \/ at' # "socket"
  PROVE  /\ First'
         /\ (\A s \in Connections' : s \in unfinished => s \in unfinished' \/ Unread(s)' = 0)
              => Announced'
<1>1. Connections' \subseteq Connections
  BY DEF Connections
<1>2. First'
  BY DEF ReadInv, First
<1>3. ASSUME \A s \in Connections' : s \in unfinished => s \in unfinished' \/ Unread(s)' = 0
      PROVE  Announced'
  BY <1>1, <1>3 DEF ReadInv, Announced, Same
<1> QED BY <1>2, <1>3

\* An event reaches the connection it is of.
LEMMA NetworkSame ==
  ASSUME ReadInv, NEW e \in Endpoints, Network(e), NEW s \in Connections
  PROVE  Same(s)
<1>1. /\ socket_table \in [Slots -> Entry] /\ endpoint \in [Endpoints -> Provider]
      /\ Wellformed /\ Owners
  BY DEF ReadInv, Wellformed, TypeOK
<1>2. s \in InUse /\ s \in Slots
  BY DEF Connections, InUse
<1> DEFINE p == socket_table[s].ep
<1>3. p \in Endpoints
  BY <1>1, <1>2 DEF Owners
<1>4. Kept
  BY <1>1, NetworkKeeps
<1>5. socket_table'[s].ep = p /\ endpoint'[p].notify = endpoint[p].notify
  BY <1>2, <1>3, <1>4 DEF Kept
<1>6. ASSUME NEW event, socket_notifier(e, event)
      PROVE  /\ socket_table[s].readable => socket_table'[s].readable
             /\ event = "T_DATA" /\ endpoint[e].notify = s => socket_table'[s].readable
  <2>1. socket_table[s] \in Entry /\ s # NoSlot
    BY <1>1, <1>2 DEF Slots, NoSlot
  <2>2. CASE endpoint[e].notify = s
    <3>1. socket_table'[s] = Noticed(socket_table[s], event)
      BY <1>1, <1>2, <1>6, <2>1, <2>2 DEF socket_notifier
    <3> QED BY <2>1, <3>1 DEF Noticed, Entry
  <2>3. CASE endpoint[e].notify # s
    <3>1. socket_table'[s] = socket_table[s]
      BY <1>1, <1>2, <1>6, <2>3 DEF socket_notifier
    <3> QED BY <2>3, <3>1
  <2> QED BY <2>2, <2>3
<1>7. socket_table[s].readable => socket_table'[s].readable
  BY <1>6 DEF Network, Arrive, Caller, Established, Release, Abort, GoData
<1>8. Unread(s)' > 0 => Unread(s) > 0 \/ socket_table'[s].readable \/ ~HasNotifier(s)
  <2>1. CASE Arrive(e)
    <3>1. CASE e = p
      <4>1. endpoint[p].inbox = 0 => socket_notifier(e, "T_DATA")
        BY <2>1, <3>1 DEF Arrive
      <4>2. endpoint[p].notify = s \/ ~HasNotifier(s)
        BY DEF HasNotifier
      <4>3. endpoint[p].inbox \in Nat
        BY <1>1, <1>3 DEF Provider
      <4> QED BY <1>6, <3>1, <4>1, <4>2, <4>3 DEF Unread
    <3>2. CASE e # p
      BY <1>1, <1>3, <1>5, <2>1, <3>2 DEF Arrive, Unread
    <3> QED BY <3>1, <3>2
  <2>2. CASE ~Arrive(e)
    <3>1. endpoint'[p].inbox \in {endpoint[p].inbox, 0}
      BY <1>1, <1>3, <2>2 DEF Network, Caller, Established, Release, Abort, GoData, Provider
    <3> QED BY <1>5, <3>1 DEF Unread
  <2> QED BY <2>1, <2>2
<1>9. HasNotifier(s)' = HasNotifier(s)
  BY <1>5 DEF HasNotifier
<1> QED BY <1>5, <1>7, <1>8, <1>9 DEF Same

\* A step that leaves the sockets, and forgets a connection only when there is nothing in it.
LEMMA LookingKeeps ==
  ASSUME ReadInv, UNCHANGED <<vars, listener>>,
         at' = at \/ at' # "socket",
         unfinished' = unfinished \/ Idle,
         \A s \in Connections : s \in unfinished => s \in unfinished' \/ Unread(s) = 0
  PROVE  ReadInv'
<1>1. /\ socket_table' = socket_table /\ endpoint' = endpoint /\ call' = call
      /\ listener' = listener
  BY DEF vars
<1>2. InUse' = InUse /\ Connections' = Connections /\ \A s : Unread(s)' = Unread(s)
  BY <1>1 DEF InUse, Connections, Unread
<1>3. \A s \in Connections' : Same(s)
  BY <1>1, <1>2 DEF Same, HasNotifier
<1>4. First' /\ Announced'
  BY <1>1, <1>2, <1>3, SameKeeps
<1>5. Wellformed'
  BY WellformedStep DEF ReadInv
<1>6. Underway'
  BY <1>1 DEF ReadInv, Underway, Idle, NoCall
<1> QED BY <1>4, <1>5, <1>6 DEF ReadInv

\* What the server does between two calls.
LEMMA QuietPass ==
  ASSUME ReadInv,
         \/ ProcessEvents \/ os9_should_continue \/ Select \/ PassDone \/ Quit
         \/ UNCHANGED serverVars
         \/ \E s \in Slots : ServeNothing(s)
  PROVE  ReadInv'
<1>1. UNCHANGED <<vars, listener>> /\ (at' = at \/ at' # "socket")
  BY DEF ProcessEvents, os9_should_continue, Select, PassDone, Quit, serverVars, server,
         ServeNothing, Goto
<1>2. ASSUME NEW s \in Slots, ServeNothing(s) PROVE ReadInv'
  <2>1. Unread(s) = 0 /\ Idle /\ unfinished' = unfinished \ {s}
    BY <1>2 DEF ServeNothing, RecvNothing
  <2> QED BY <1>1, <2>1, LookingKeeps
<1>3. CASE UNCHANGED unfinished
  BY <1>1, <1>3, LookingKeeps
<1> QED BY <1>2, <1>3 DEF ProcessEvents, os9_should_continue, Select, PassDone, Quit, serverVars,
                          server

\* What an interrupt does is announced.
LEMMA NetworkPass ==
  ASSUME ReadInv, NEW e \in Endpoints, Network(e), UNCHANGED server
  PROVE  ReadInv'
<1>1. InUse' = InUse /\ UNCHANGED call /\ UNCHANGED <<at, listener, unfinished>>
  BY NetworkKeeps DEF ReadInv, Kept, Network, Arrive, Caller, Established, Release, Abort, GoData,
                      server
<1>2. Connections' = Connections
  BY <1>1 DEF Connections
<1>3. \A s \in Connections' : Same(s)
  BY <1>2, NetworkSame
<1>4. First' /\ Announced'
  BY <1>1, <1>3, SameKeeps
<1>5. Wellformed'
  <2>1. Next
    BY DEF Next
  <2> QED BY <2>1, WellformedStep DEF ReadInv
<1>6. Underway'
  BY <1>1 DEF ReadInv, Underway
<1> QED BY <1>4, <1>5, <1>6 DEF ReadInv

\* A call that is over at once.
LEMMA CallOver ==
  ASSUME ReadInv, Next, Idle, UNCHANGED call, InUse' \subseteq InUse, listener' = listener,
         \A s \in Connections' : Same(s),
         at' = at \/ at' # "socket",
         \A s \in Connections' : s \in unfinished => s \in unfinished'
  PROVE  ReadInv'
<1>1. First' /\ Announced'
  BY SameKeeps
<1>2. Wellformed'
  BY WellformedStep DEF ReadInv
<1>3. Underway'
  BY DEF Underway, Idle, NoCall
<1> QED BY <1>1, <1>2, <1>3 DEF ReadInv

\* A step at another endpoint is no business of a connection whose entry it leaves.
LEMMA ElsewhereSame ==
  ASSUME ReadInv, NEW s \in Connections, NEW e,
         socket_table'[s] = socket_table[s], e # socket_table[s].ep,
         \A f \in Endpoints \ {e} : endpoint'[f] = endpoint[f]
  PROVE  Same(s)
<1>1. socket_table[s].ep \in Endpoints
  BY DEF ReadInv, Wellformed, Owners, Connections
<1>2. endpoint'[socket_table[s].ep] = endpoint[socket_table[s].ep]
  BY <1>1
<1> QED BY <1>2 DEF Same, Unread, HasNotifier

\* The calls on the listener that accept nobody.
LEMMA ListenerPass ==
  ASSUME ReadInv, at' = at \/ at' # "socket",
         UNCHANGED <<listener, unfinished>>, listener \in Slots,
         \/ Bind(listener) \/ Listen(listener) \/ ListenFails(listener)
         \/ AcceptNoSlot(listener)
         \/ \E n \in Slots : AcceptNoEndpoint(listener, n) \/ AcceptRefused(listener, n)
  PROVE  ReadInv'
<1>1. Wellformed /\ Owners /\ socket_table \in [Slots -> Entry]
  BY DEF ReadInv, Wellformed, TypeOK
<1>2. InUse' = InUse
  BY <1>1, CallKeeps DEF Kept
<1>3. Idle /\ UNCHANGED call /\ listener \in InUse
  BY DEF Bind, Listen, ListenFails, AcceptNoSlot, AcceptNoEndpoint, AcceptRefused,
         OTListen, get_socket
<1>4. Next
  BY DEF Next, AnyCall
<1> DEFINE e == socket_table[listener].ep
<1>5. \A f \in Endpoints \ {e} : endpoint'[f] = endpoint[f]
  BY <1>1 DEF Bind, Listen, ListenFails, AcceptNoSlot, AcceptNoEndpoint,
              AcceptRefused, TakenFrom, ReadInv, Wellformed, TypeOK
<1>6. ASSUME NEW s \in Connections' PROVE Same(s)
  <2>1. s \in InUse /\ s # listener /\ s \in Slots
    BY <1>2, <1>6 DEF Connections, InUse
  <2>2. e # socket_table[s].ep
    BY <1>1, <1>3, <2>1 DEF Owners
  <2>3. socket_table'[s] = socket_table[s]
    <3>1. ASSUME NEW n \in Slots, Allocated(n), AllocateAndFree(n)
          PROVE  socket_table'[s] = socket_table[s]
      BY <1>1, <2>1, <3>1 DEF Allocated, AllocateAndFree
    <3>2. CASE \E n \in Slots : AcceptNoEndpoint(listener, n) \/ AcceptRefused(listener, n)
      BY <3>1, <3>2 DEF AcceptNoEndpoint, AcceptRefused
    <3> QED BY <1>1, <2>1, <3>2 DEF Bind, Listen, ListenFails, AcceptNoSlot
  <2>4. s \in Connections
    BY <2>1 DEF Connections
  <2> HIDE DEF e
  <2> QED BY <1>5, <2>2, <2>3, <2>4, ElsewhereSame
<1> HIDE DEF e
<1> QED BY <1>2, <1>3, <1>4, <1>6, CallOver

\* The session that ends.
LEMMA HangUpPass ==
  ASSUME ReadInv, NEW s \in Slots, HangUp(s)
  PROVE  ReadInv'
<1>1. Wellformed /\ Owners /\ socket_table \in [Slots -> Entry]
  BY DEF ReadInv, Wellformed, TypeOK
<1>2. /\ Close(s) /\ Idle /\ UNCHANGED call /\ s \in InUse
      /\ unfinished' = unfinished \ {s} /\ UNCHANGED <<at, listener>>
  BY DEF HangUp, Close, get_socket
<1> DEFINE e == socket_table[s].ep
<1>3. InUse' = InUse \ {s} /\ \A f \in Endpoints \ {e} : endpoint'[f] = endpoint[f]
  BY <1>1, <1>2, CloseGives DEF Given
<1>4. Next
  BY <1>2 DEF Next, AnyCall
<1>5. ASSUME NEW t \in Connections' PROVE Same(t) /\ t # s
  <2>1. t \in Connections /\ t \in InUse /\ t # s /\ t \in Slots
    BY <1>2, <1>3, <1>5 DEF Connections, InUse
  <2>2. e # socket_table[t].ep
    BY <1>1, <1>2, <2>1 DEF Owners
  <2>3. socket_table'[t] = socket_table[t]
    BY <1>1, <1>2, <2>1 DEF Close, free_socket
  <2> HIDE DEF e
  <2> QED BY <1>3, <2>1, <2>2, <2>3, ElsewhereSame
<1> HIDE DEF e
<1> QED BY <1>2, <1>3, <1>4, <1>5, CallOver

\* The server gets its listener, or ends.
LEMMA OpenPass == ASSUME ReadInv, OpenListener PROVE ReadInv'
<1>1. Wellformed /\ InUse = {} /\ at' # "socket"
  BY DEF ReadInv, First, OpenListener, Goto
<1>2. Connections' = {}
  <2>1. ASSUME NEW s \in Slots, Socket(s, "stream"), listener' = s PROVE Connections' = {}
    <3>1. PICK e \in Endpoints : Taken(s, e)
      BY <1>1, <2>1, OpenTakes DEF Types
    <3> QED BY <1>1, <2>1, <3>1 DEF Taken, Connections
  <2>2. ASSUME NEW s \in Slots, SocketFails(s) PROVE Connections' = {}
    <3>1. InUse' = InUse
      BY <1>1, <2>2, CallKeeps DEF Kept
    <3> QED BY <1>1, <3>1 DEF Connections
  <2> QED BY <2>1, <2>2 DEF OpenListener
<1>3. Wellformed'
  <2>1. Next
    BY DEF OpenListener, Next, AnyCall, Types
  <2> QED BY <1>1, <2>1, WellformedStep
<1>4. Idle'
  BY DEF OpenListener, Socket, SocketFails, Idle
<1> QED BY <1>1, <1>2, <1>3, <1>4 DEF ReadInv, First, Underway, Announced, Idle, NoCall

\* The connection that is accepted is one to read, whatever select says of it.
LEMMA AcceptPass ==
  ASSUME ReadInv, NEW n \in Slots, AcceptConnection(listener, n),
         unfinished' = unfinished \cup {n}, at' # "socket", UNCHANGED listener
  PROVE  ReadInv'
<1>1. Wellformed /\ Owners /\ socket_table \in [Slots -> Entry]
  BY DEF ReadInv, Wellformed, TypeOK
<1>2. listener \in InUse /\ listener \in Slots /\ n \notin InUse
  BY DEF AcceptConnection, OTListen, get_socket, InUse, Allocated
<1>3. PICK e \in Endpoints : Taken(n, e)
  BY <1>1, <1>2, OpenTakes
<1>4. Connections' = Connections \cup {n}
  BY <1>2, <1>3 DEF Taken, Connections
<1>5. PICK f \in Endpoints :
        /\ endpoint[f].state = "closed"
        /\ endpoint' = [TakenFrom(socket_table[listener].ep) EXCEPT ![f].state = "connected"]
        /\ socket_table' = [socket_table EXCEPT ![n] = [AllocatedEntry(n) EXCEPT !.ep = f]]
  BY DEF AcceptConnection
<1>6. ASSUME NEW s \in Connections
      PROVE  /\ socket_table'[s] = socket_table[s]
             /\ endpoint'[socket_table[s].ep] = endpoint[socket_table[s].ep]
  <2>1. s \in InUse /\ s # listener /\ s # n
    BY <1>2 DEF Connections
  <2>2. socket_table[s].ep # socket_table[listener].ep /\ socket_table[s].ep \in Endpoints
    BY <1>1, <1>2, <2>1 DEF Owners
  <2>3. socket_table[s].ep # f
    BY <1>1, <1>5, <2>1 DEF Owners
  <2>4. socket_table'[s] = socket_table[s]
    BY <1>5, <2>1
  <2>5. endpoint'[socket_table[s].ep] = endpoint[socket_table[s].ep]
    <3>1. endpoint \in [Endpoints -> Provider]
      BY DEF ReadInv, Wellformed, TypeOK
    <3>2. TakenFrom(socket_table[listener].ep)[socket_table[s].ep] = endpoint[socket_table[s].ep]
      BY <2>2, <3>1 DEF TakenFrom
    <3>3. endpoint'[socket_table[s].ep] = TakenFrom(socket_table[listener].ep)[socket_table[s].ep]
      BY <1>5, <2>2, <2>3, <3>1 DEF TakenFrom
    <3> QED BY <3>2, <3>3
  <2> QED BY <2>4, <2>5
<1>7. First'
  BY DEF First
<1>8. Underway'
  <2>1. call' = [op |-> "accepted", s |-> n]
    BY DEF AcceptConnection
  <2> QED BY <2>1 DEF Underway
<1>9. Announced'
  <2>1. ASSUME NEW s \in Connections, Unread(s)' > 0, HasNotifier(s)'
        PROVE  socket_table'[s].readable \/ s \in unfinished'
    <3>1. Unread(s) > 0 /\ HasNotifier(s) /\ socket_table'[s] = socket_table[s]
      BY <1>6, <2>1 DEF Unread, HasNotifier
    <3> QED BY <3>1 DEF ReadInv, Announced
  <2> QED BY <1>4, <2>1 DEF Announced
<1>10. Wellformed'
  <2>1. Next
    BY <1>2 DEF Next, AnyCall
  <2> QED BY <1>1, <2>1, WellformedStep
<1> QED BY <1>7, <1>8, <1>9, <1>10 DEF ReadInv

\* fcntl, whichever it is, is no business of the data.
LEMMA FcntlPass ==
  ASSUME ReadInv, NEW s, F_SETFL(s), at' # "socket", UNCHANGED <<listener, unfinished>>
  PROVE  ReadInv'
<1>1. CASE UNCHANGED vars
  BY <1>1, LookingKeeps
<1>2. CASE SetNonblocking(s, TRUE)
  <2>1. Wellformed /\ socket_table \in [Slots -> Entry]
    BY DEF ReadInv, Wellformed, TypeOK
  <2>2. /\ Idle /\ UNCHANGED <<endpoint, call>> /\ s \in Slots
        /\ socket_table' = [socket_table EXCEPT ![s].nonblocking = TRUE]
    BY <1>2 DEF SetNonblocking, get_socket, InUse
  <2>3. InUse' = InUse /\ Connections' = Connections
    BY <2>1, <2>2 DEF InUse, Connections, Entry
  <2>4. ASSUME NEW t \in Connections PROVE Same(t)
    <3>1. /\ socket_table'[t].ep = socket_table[t].ep
          /\ socket_table'[t].readable = socket_table[t].readable
      BY <2>1, <2>2 DEF Connections, InUse, Entry
    <3> QED BY <2>2, <3>1 DEF Same, Unread, HasNotifier
  <2>5. Next
    BY <1>2, <2>2 DEF Next, AnyCall
  <2> QED BY <2>2, <2>3, <2>4, <2>5, CallOver
<1> QED BY <1>1, <1>2 DEF F_SETFL

\* A connection that is read stays unfinished until a recv finds nothing in it.
LEMMA ServePass == ASSUME ReadToEnd, ReadInv, NEW s \in Slots, ServeData(s) PROVE ReadInv'
<1>1. Wellformed /\ Owners /\ endpoint \in [Endpoints -> Provider]
  BY DEF ReadInv, Wellformed, TypeOK
<1>2. /\ RecvData(s, Unread(s)) /\ UNCHANGED <<at, listener, socket_table>>
      /\ unfinished' = unfinished \cup {s} /\ call' = [op |-> "recv", s |-> s] /\ call = NoCall
  BY DEF ServeData, RecvData, Idle
<1>3. InUse' = InUse /\ Connections' = Connections
  BY <1>2 DEF InUse, Connections
<1>4. \A e \in Endpoints : /\ endpoint'[e].notify = endpoint[e].notify
                           /\ endpoint'[e].inbox > 0 => endpoint[e].inbox > 0
  <2>1. s \in InUse /\ socket_table[s].ep \in Endpoints
    BY <1>1, <1>2, Held DEF RecvData, get_socket, InUse
  <2>2. endpoint' = [endpoint EXCEPT ![socket_table[s].ep].inbox = @ - Unread(s)]
    BY <1>2 DEF RecvData
  <2>3. endpoint[socket_table[s].ep].inbox = Unread(s) /\ Unread(s) \in Nat
    BY <1>1, <2>1 DEF Unread, Provider
  <2>4. endpoint'[socket_table[s].ep].inbox = 0
    BY <1>1, <2>1, <2>2, <2>3 DEF Provider
  <2> QED BY <1>1, <2>1, <2>2, <2>4 DEF Provider
<1>5. \A t \in Connections' : Same(t)
  BY <1>1, <1>2, <1>3, <1>4 DEF Same, Unread, HasNotifier, Connections, Owners
<1>6. First' /\ Announced'
  BY <1>2, <1>3, <1>5, SameKeeps
<1>7. Underway'
  BY <1>2 DEF Underway
<1>8. Wellformed'
  <2>1. Next
    BY <1>1, <1>2, RecvIsCall
  <2> QED BY <1>1, <2>1, WellformedStep
<1> QED BY <1>6, <1>7, <1>8 DEF ReadInv

\* A call returns: recv clears the flag of a connection that will be read again all the same.
LEMMA ReturnPass == ASSUME ReadInv, ServerReturns PROVE ReadInv'
<1>1. /\ Wellformed /\ Owners /\ socket_table \in [Slots -> Entry]
      /\ endpoint \in [Endpoints -> Provider]
  BY DEF ReadInv, Wellformed, TypeOK
<1>2. UNCHANGED <<at, listener, unfinished>>
  BY DEF ServerReturns, server
<1>3. Wellformed'
  <2>1. Next
    BY DEF ServerReturns, Next
  <2> QED BY <1>1, <2>1, WellformedStep
<1> DEFINE c == call.s
<1>4. call.op # "none" => c \in InUse /\ c \in Slots /\ socket_table[c].ep \in Endpoints
  BY <1>1 DEF Wellformed, CallInUse, Owners, InUse
<1>5. c \in unfinished \/ call.op = "none"
  BY DEF ReadInv, Underway
<1>6. CASE AcceptDone \/ RecvDone
  <2>1. /\ c \in Slots /\ UNCHANGED endpoint /\ call' = NoCall
        /\ \A s \in Slots \ {c} : socket_table'[s] = socket_table[s]
        /\ socket_table'[c].inUse = socket_table[c].inUse
        /\ socket_table'[c].ep = socket_table[c].ep
        /\ call.op # "recv" => socket_table'[c].readable = socket_table[c].readable
    BY <1>1, <1>4, <1>6 DEF AcceptDone, RecvDone, Entry
  <2>2. InUse' = InUse /\ Connections' = Connections
    BY <1>2, <2>1 DEF InUse, Connections
  <2>3. \A s \in Connections : /\ socket_table'[s].ep = socket_table[s].ep
                               /\ s # c => socket_table'[s] = socket_table[s]
    BY <2>1 DEF Connections, InUse
  <2>4. First'
    BY <1>2, <2>2 DEF ReadInv, First
  <2>5. Underway'
    BY <2>1 DEF Underway, NoCall
  <2>6. Announced'
    <3>1. c \in unfinished
      BY <1>5, <1>6 DEF AcceptDone, RecvDone
    <3>2. \A s \in Connections : Unread(s)' = Unread(s) /\ HasNotifier(s)' = HasNotifier(s)
      BY <2>1, <2>3 DEF Unread, HasNotifier
    <3> HIDE DEF c
    <3> QED BY <1>2, <2>2, <2>3, <3>1, <3>2 DEF ReadInv, Announced
  <2> QED BY <1>3, <2>4, <2>5, <2>6 DEF ReadInv
<1>7. ASSUME NEW installed \in BOOLEAN, InstallNotifier(installed) PROVE ReadInv'
  <2>1. /\ call.op = "accepted" /\ call' = [call EXCEPT !.op = "noted"]
        /\ UNCHANGED socket_table
    BY <1>7 DEF InstallNotifier
  <2>2. call'.op = "noted" /\ call'.s = c
    BY <1>1, <2>1 DEF Wellformed, TypeOK, Calls
  <2>3. /\ \A e \in Endpoints \ {socket_table[c].ep} : endpoint'[e] = endpoint[e]
        /\ endpoint'[socket_table[c].ep].inbox = endpoint[socket_table[c].ep].inbox
    BY <1>1, <1>4, <1>7, <2>1 DEF InstallNotifier, Provider
  <2>4. InUse' = InUse /\ Connections' = Connections
    BY <1>2, <2>1 DEF InUse, Connections
  <2>5. First'
    BY <1>2, <2>4 DEF ReadInv, First
  <2>6. Underway'
    BY <1>2, <1>5, <2>1, <2>2 DEF Underway
  <2>7. Announced'
    <3>1. ASSUME NEW s \in Connections, s # c
          PROVE  Unread(s)' = Unread(s) /\ HasNotifier(s)' = HasNotifier(s)
      <4>1. socket_table[s].ep # socket_table[c].ep /\ socket_table[s].ep \in Endpoints
        BY <1>1, <1>4, <2>1, <3>1 DEF Owners, Connections
      <4> QED BY <2>1, <2>3, <4>1 DEF Unread, HasNotifier
    <3>2. c \in unfinished
      BY <1>5, <2>1
    <3> HIDE DEF c
    <3> QED BY <1>2, <2>1, <2>4, <3>1, <3>2 DEF ReadInv, Announced
  <2> QED BY <1>3, <2>5, <2>6, <2>7 DEF ReadInv
<1>8. ~ConnectDone
  BY DEF ReadInv, Underway, ConnectDone
<1> QED BY <1>6, <1>7, <1>8 DEF ServerReturns, Return

\* And every step is one of these.
LEMMA ReadInvStep == ASSUME ReadToEnd, ReadInv, [ServerNext]_serverVars PROVE ReadInv'
<1>1. ASSUME BindListener \/ StartListening PROVE ReadInv'
  <2>1. /\ at' = at \/ at' # "socket"
        /\ UNCHANGED <<listener, unfinished>>
        /\ Bind(listener) \/ Listen(listener) \/ ListenFails(listener)
    BY <1>1 DEF BindListener, StartListening, Goto
  <2>2. listener \in Slots
    BY <2>1 DEF Bind, Listen, ListenFails, get_socket, InUse
  <2> QED BY <2>1, <2>2, ListenerPass
<1>2. ASSUME AcceptNobody PROVE ReadInv'
  <2>1. at' = at /\ UNCHANGED <<listener, unfinished>>
    BY <1>2 DEF AcceptNobody
  <2>2. CASE AcceptNoSlot(listener)
             \/ \E s \in Slots : AcceptNoEndpoint(listener, s) \/ AcceptRefused(listener, s)
    <3>1. listener \in Slots
      BY <2>2 DEF AcceptNoSlot, AcceptNoEndpoint, AcceptRefused, OTListen, get_socket, InUse
    <3> QED BY <2>1, <2>2, <3>1, ListenerPass
  <2>3. CASE UNCHANGED vars
    BY <2>1, <2>3, LookingKeeps
  <2> QED BY <1>2, <2>2, <2>3 DEF AcceptNobody
<1>3. ASSUME AcceptCaller PROVE ReadInv'
  <2>1. PICK n \in Slots : AcceptConnection(listener, n) /\ unfinished' = unfinished \cup {n}
    BY <1>3 DEF AcceptCaller
  <2>2. at' # "socket" /\ UNCHANGED listener
    BY <1>3 DEF AcceptCaller, Goto
  <2> QED BY <2>1, <2>2, AcceptPass
<1>4. ASSUME NEW e \in Endpoints, Network(e) /\ UNCHANGED server PROVE ReadInv'
  BY <1>4, NetworkPass
<1>5. ASSUME NEW s \in Slots, ServeData(s) \/ ServeNothing(s) \/ HangUp(s) PROVE ReadInv'
  BY <1>5, ServePass, QuietPass, HangUpPass
<1>6. ASSUME ListenerNonblocking \/ ConnectionNonblocking PROVE ReadInv'
  BY <1>6, FcntlPass DEF ListenerNonblocking, ConnectionNonblocking, Goto
<1> QED BY <1>1, <1>2, <1>3, <1>4, <1>5, <1>6, QuietPass, OpenPass, ReturnPass
        DEF ServerNext, ServerStep

\* No pass of a server that reads to the end starts without a connection that has data and its
\* notifier, though recv may clear readable after the notifier has set it, and data may come
\* before accept has installed the notifier, or while a recv waits: with either fcntl. Of a
\* connection for which OTInstallNotifier fails, which accept ignores, nothing is said.
THEOREM PassSeesAll == ASSUME ReadToEnd PROVE ServerSpec => []NothingOverlooked
<1>1. ServerInit => ReadInv
  <2> SUFFICES ASSUME ServerInit PROVE ReadInv
    OBVIOUS
  <2>1. Wellformed /\ InUse = {} /\ call.op = "none"
    BY WellformedInit DEF ServerInit, Init, InUse, Zeroed, NoCall
  <2> QED BY <2>1 DEF ReadInv, First, Underway, Announced, Connections
<1>2. ReadInv /\ [ServerNext]_serverVars => ReadInv'
  BY ReadInvStep
<1>3. ReadInv => NothingOverlooked
  BY DEF ReadInv, Announced, HasNotifier, NothingOverlooked, SelectedRead, Connections
<1> QED BY <1>1, <1>2, <1>3, PTL DEF ServerSpec

-----------------------------------------------------------------------------
(* What a step makes of the socket and its connection *)

\* The entries keep what the calls on a stream do not write.
Entrywise ==
  \A s \in Slots : /\ socket_table'[s].inUse = socket_table[s].inUse
                   /\ socket_table'[s].ep = socket_table[s].ep
                   /\ socket_table'[s].type = socket_table[s].type
                   /\ socket_table'[s].nonblocking = socket_table[s].nonblocking

\* Endpoint e comes to the given state with the given data unread; the others stay.
Turns(e, state, inbox) ==
  /\ endpoint'[e].state = state /\ endpoint'[e].inbox = inbox
  /\ \A f \in Endpoints \ {e} : /\ endpoint'[f].state = endpoint[f].state
                                /\ endpoint'[f].inbox = endpoint[f].inbox

Link == socket_table[sock].ep

\* The miner keeps its socket, and its connection is in the given state afterwards.
Stays(state, inbox) ==
  /\ InUse' = {sock}
  /\ socket_table'[sock].type = "stream"
  /\ socket_table'[sock].nonblocking = FALSE
  /\ call'.op \in {"none", "recv", "connect"}
  /\ endpoint'[socket_table'[sock].ep].state = state
  /\ endpoint'[socket_table'[sock].ep].inbox = inbox
  /\ Emptied'

\* It does if the entries are kept and only its own endpoint moves, and does not close.
LEMMA LinkTurns ==
  ASSUME Wellformed, Alone, Emptied, mpc \notin NoSocket, Entrywise,
         NEW state, NEW inbox, state # "closed", Turns(Link, state, inbox),
         call'.op \in {"none", "recv", "connect"}
  PROVE  Stays(state, inbox)
<1>1. InUse = {sock} /\ sock \in Slots
  BY DEF Alone, InUse
<1>2. InUse' = InUse
  BY DEF Entrywise, InUse
<1>3. Emptied'
  BY DEF Emptied, Turns
<1> QED BY <1>1, <1>2, <1>3 DEF Alone, Entrywise, Turns, Link, Stays

\* The only endpoint that is open is the miner's.
LEMMA OnlyLink ==
  ASSUME Wellformed, Alone, NEW e \in Endpoints, endpoint[e].state # "closed"
  PROVE  mpc \notin NoSocket /\ e = Link
BY DEF Wellformed, Owners, Alone, Link

\* The socket has an endpoint, and it is open.
LEMMA HasLink ==
  ASSUME Wellformed, Alone, mpc \notin NoSocket
  PROVE  /\ sock \in Slots /\ Link \in Endpoints
         /\ endpoint[Link] \in Provider /\ endpoint[Link].state # "closed"
         /\ OTState(sock) = endpoint[Link].state /\ Unread(sock) = endpoint[Link].inbox
BY DEF Wellformed, TypeOK, Owners, Alone, InUse, Link, OTState, Unread

\* A step that leaves the sockets leaves the connection.
LEMMA NothingStays ==
  ASSUME Wellformed, Alone, Emptied, mpc \notin NoSocket, UNCHANGED vars
  PROVE  Stays(OTState(sock), Unread(sock))
<1>1. Entrywise /\ call'.op \in {"none", "recv", "connect"}
  BY DEF vars, Entrywise, Alone
<1>2. Turns(Link, OTState(sock), Unread(sock))
  BY HasLink DEF vars, Turns
<1> QED BY <1>1, <1>2, HasLink, LinkTurns

\* So does the end of a call.
LEMMA ReturnStays ==
  ASSUME Wellformed, Alone, Emptied, Return
  PROVE  mpc \notin NoSocket /\ Stays(OTState(sock), Unread(sock))
<1>1. ConnectDone \/ RecvDone
  BY DEF Return, InstallNotifier, AcceptDone, Alone
<1>2. call.s \in InUse
  BY <1>1 DEF Wellformed, CallInUse, ConnectDone, RecvDone
<1>3. mpc \notin NoSocket
  BY <1>2 DEF Alone
<1>4. Entrywise
  BY <1>1 DEF ConnectDone, RecvDone, Entrywise, Wellformed, TypeOK, Entry
<1>5. call'.op = "none" /\ UNCHANGED endpoint
  BY <1>1 DEF ConnectDone, RecvDone, NoCall
<1>6. Turns(Link, OTState(sock), Unread(sock))
  BY <1>3, <1>5, HasLink DEF Turns
<1> QED BY <1>3, <1>4, <1>5, <1>6, HasLink, LinkTurns

\* recv takes what it returns out of the endpoint.
LEMMA RecvStays ==
  ASSUME Wellformed, Alone, Emptied, mpc \notin NoSocket, NEW k, RecvData(sock, k)
  PROVE  /\ OTState(sock) \in {"connected", "ended"}
         /\ k \in 1 .. Unread(sock)
         /\ Stays(OTState(sock), Unread(sock) - k)
<1>1. /\ OTState(sock) \in {"connected", "ended"}
      /\ k \in 1 .. Unread(sock)
      /\ endpoint' = [endpoint EXCEPT ![Link].inbox = @ - k]
      /\ call'.op = "recv"
      /\ UNCHANGED socket_table
  BY DEF RecvData, Link
<1>2. Entrywise
  BY <1>1 DEF Entrywise
<1>3. Turns(Link, OTState(sock), Unread(sock) - k)
  BY <1>1, HasLink DEF Turns, Wellformed, TypeOK, Provider
<1> QED BY <1>1, <1>2, <1>3, HasLink, LinkTurns

\* connect succeeds.
LEMMA ConnectStays ==
  ASSUME Wellformed, Alone, Emptied, mpc \notin NoSocket, Connect(sock)
  PROVE  Stays("connected", Unread(sock))
<1>1. /\ endpoint' = [endpoint EXCEPT ![Link].state = "connected"]
      /\ call' = [op |-> "connect", s |-> sock]
      /\ UNCHANGED socket_table
  BY DEF Connect, Link, Alone
<1>2. Entrywise
  BY <1>1 DEF Entrywise
<1>3. Turns(Link, "connected", Unread(sock))
  BY <1>1, HasLink DEF Turns, Wellformed, TypeOK, Provider
<1> QED BY <1>1, <1>2, <1>3, LinkTurns

\* Or fails.
LEMMA RefusedStays ==
  ASSUME Wellformed, Alone, Emptied, mpc \notin NoSocket, ConnectRefused(sock)
  PROVE  Stays("aborted", Unread(sock))
<1>1. /\ endpoint' = [endpoint EXCEPT ![Link].state = "aborted"]
      /\ UNCHANGED <<socket_table, call>>
  BY DEF ConnectRefused, Link
<1>2. Entrywise /\ call'.op \in {"none", "recv", "connect"}
  BY <1>1 DEF Entrywise, Alone
<1>3. Turns(Link, "aborted", Unread(sock))
  BY <1>1, HasLink DEF Turns, Wellformed, TypeOK, Provider
<1> QED BY <1>2, <1>3, LinkTurns

\* What the notifier writes is nothing the miner's socket is known by.
LEMMA NotifierKeeps ==
  ASSUME Wellformed, NEW e \in Endpoints, NEW event,
         socket_notifier(e, event) \/ UNCHANGED socket_table
  PROVE  Entrywise
BY NoticedFields DEF Entrywise

\* A piece of the reply comes, to a connection that is up.
LEMMA ArriveStays ==
  ASSUME Wellformed, Alone, Emptied, NEW e \in Endpoints, Arrive(e)
  PROVE  /\ mpc \notin NoSocket
         /\ OTState(sock) = "connected"
         /\ Stays("connected", Unread(sock) + 1)
<1>1. endpoint[e].state # "closed"
  BY DEF Arrive, Receiving
<1>2. mpc \notin NoSocket /\ e = Link
  BY <1>1, OnlyLink
<1>3. endpoint[Link].state = "connected"
  BY <1>2 DEF Arrive, Receiving, Alone
<1>4. endpoint' = [endpoint EXCEPT ![Link].inbox = @ + 1] /\ UNCHANGED call
  BY <1>2 DEF Arrive
<1>5. Entrywise
  BY NotifierKeeps DEF Arrive
<1>6. Turns(Link, "connected", Unread(sock) + 1)
  BY <1>2, <1>3, <1>4, HasLink DEF Turns, Wellformed, TypeOK, Provider
<1>7. call'.op \in {"none", "recv", "connect"}
  BY <1>4 DEF Alone
<1> QED BY <1>2, <1>3, <1>5, <1>6, <1>7, HasLink, LinkTurns

\* The server ends.
LEMMA ReleaseStays ==
  ASSUME Wellformed, Alone, Emptied, NEW e \in Endpoints, Release(e)
  PROVE  /\ mpc \notin NoSocket
         /\ OTState(sock) = "connected"
         /\ Stays("ended", Unread(sock))
<1>1. mpc \notin NoSocket /\ e = Link
  BY OnlyLink DEF Release
<1>2. /\ endpoint[Link].state = "connected"
      /\ endpoint' = [endpoint EXCEPT ![Link].state = "ended"]
      /\ UNCHANGED call
  BY <1>1 DEF Release
<1>3. Entrywise
  BY NotifierKeeps DEF Release
<1>4. Turns(Link, "ended", Unread(sock))
  BY <1>1, <1>2, HasLink DEF Turns, Wellformed, TypeOK, Provider
<1>5. call'.op \in {"none", "recv", "connect"}
  BY <1>2 DEF Alone
<1> QED BY <1>1, <1>2, <1>3, <1>4, <1>5, HasLink, LinkTurns

\* The connection breaks.
LEMMA AbortStays ==
  ASSUME Wellformed, Alone, Emptied, NEW e \in Endpoints, Abort(e)
  PROVE  /\ mpc \notin NoSocket
         /\ OTState(sock) # "unbound"
         /\ Stays("aborted", 0)
<1>1. mpc \notin NoSocket /\ e = Link
  BY OnlyLink DEF Abort
<1>2. /\ endpoint[Link].state # "unbound"
      /\ endpoint' = [endpoint EXCEPT ![Link].state = "aborted", ![Link].inbox = 0]
      /\ UNCHANGED call
  BY <1>1 DEF Abort
<1>3. Entrywise
  BY NotifierKeeps DEF Abort
<1>4. Turns(Link, "aborted", 0)
  BY <1>1, <1>2, HasLink DEF Turns, Wellformed, TypeOK, Provider
<1>5. call'.op \in {"none", "recv", "connect"}
  BY <1>2 DEF Alone
<1> QED BY <1>1, <1>2, <1>3, <1>4, <1>5, HasLink, LinkTurns

\* In the miner's next state.
LEMMA StayingOn ==
  ASSUME NEW state, NEW inbox, Stays(state, inbox), UNCHANGED sock, mpc' \notin NoSocket
  PROVE  Alone' /\ Emptied' /\ OTState(sock)' = state /\ Unread(sock)' = inbox
BY DEF Stays, Alone, OTState, Unread

\* While it has no socket, no call is under way and nothing is open.
LEMMA NothingOpen ==
  ASSUME Wellformed, Alone, mpc \in NoSocket
  PROVE  Idle /\ InUse = {} /\ Open = {}
BY DEF Wellformed, TypeOK, CallInUse, Calls, Idle, NoCall, Owners, Alone, Open

\* A new socket has a new endpoint, with nothing in it.
LEMMA SocketOpens ==
  ASSUME Wellformed, Alone, Emptied, mpc \in NoSocket, NEW s \in Slots, Socket(s, "stream")
  PROVE  /\ InUse' = {s}
         /\ socket_table'[s].type = "stream"
         /\ socket_table'[s].nonblocking = FALSE
         /\ call'.op = "none"
         /\ endpoint'[socket_table'[s].ep].state = "unbound"
         /\ endpoint'[socket_table'[s].ep].inbox = 0
         /\ Emptied'
<1>1. PICK e \in Endpoints :
        /\ endpoint[e].state = "closed"
        /\ OpenEndpoint(e, s)
        /\ socket_table' = [socket_table EXCEPT
             ![s] = [AllocatedEntry(s) EXCEPT !.ep = e, !.type = "stream", !.writable = TRUE]]
  BY DEF Socket
<1> DEFINE new == [AllocatedEntry(s) EXCEPT !.ep = e, !.type = "stream", !.writable = TRUE]
<1>2. new.inUse = TRUE /\ new.ep = e /\ new.type = "stream" /\ new.nonblocking = FALSE
  BY DEF AllocatedEntry, Zeroed
<1>3. socket_table' = [socket_table EXCEPT ![s] = new]
  BY <1>1
<1> HIDE DEF new
<1>4. /\ socket_table'[s] = new
      /\ \A r \in Slots \ {s} : socket_table'[r] = socket_table[r]
  BY <1>3 DEF Wellformed, TypeOK
<1>5. InUse' = {s}
  BY <1>2, <1>4, NothingOpen DEF InUse
<1>6. /\ endpoint'[e].state = "unbound" /\ endpoint'[e].inbox = endpoint[e].inbox
      /\ \A f \in Endpoints \ {e} : endpoint'[f] = endpoint[f]
  BY <1>1 DEF OpenEndpoint, Wellformed, TypeOK, Provider
<1>7. Emptied'
  BY <1>6 DEF Emptied
<1>8. call'.op = "none"
  BY DEF Socket, Idle, NoCall
<1> QED BY <1>1, <1>2, <1>4, <1>5, <1>6, <1>7, <1>8 DEF Emptied

\* A socket that cannot be had leaves nothing.
LEMMA SocketLeaves ==
  ASSUME Wellformed, Alone, mpc \in NoSocket, NEW s \in Slots, SocketFails(s)
  PROVE  InUse' = {} /\ UNCHANGED <<endpoint, call>>
<1> DEFINE new == [AllocatedEntry(s) EXCEPT !.inUse = FALSE]
<1>1. new.inUse = FALSE
  BY DEF AllocatedEntry, Zeroed
<1>2. socket_table' = [socket_table EXCEPT ![s] = new] /\ UNCHANGED <<endpoint, call>>
  BY DEF SocketFails, AllocateAndFree
<1> HIDE DEF new
<1> QED BY <1>1, <1>2, NothingOpen DEF InUse, Wellformed, TypeOK

\* close leaves nothing either.
LEMMA CloseLeaves ==
  ASSUME Wellformed, Alone, Emptied, mpc \notin NoSocket, Close(sock)
  PROVE  InUse' = {} /\ UNCHANGED call /\ Emptied'
<1>1. /\ endpoint' = [endpoint EXCEPT ![Link] = ClosedProvider]
      /\ socket_table' = [socket_table EXCEPT ![sock].inUse = FALSE, ![sock].ep = NoEndpoint]
      /\ UNCHANGED call
  BY DEF Close, OTCloseProvider, free_socket, Link
<1>2. InUse' = {}
  BY <1>1 DEF InUse, Alone, Wellformed, TypeOK, Entry
<1>3. Emptied'
  BY <1>1, HasLink DEF Emptied, ClosedProvider, Wellformed, TypeOK
<1> QED BY <1>1, <1>2, <1>3

-----------------------------------------------------------------------------
(* The steps of a cycle *)

MinerPart == Emptied /\ Alone /\ Counts

\* The cycle goes on with what it has.
LEMMA QuietStep ==
  ASSUME MinerInv,
         \/ Resolve \/ Connected \/ SendHello \/ SendRequest \/ RequestSent
         \/ ReceiveEnd \/ BufferFull \/ TlsClosed \/ Shutdown \/ Sleep
  PROVE  MinerPart'
<1> USE MinerAssumption
<1> USE DEF Counts, MinerTypeOK, Peered, Tallied, Through, Served, Hello, HasRead, Most, Go,
            NoSocket, Talking, Counting, cycle
<1>1. Wellformed /\ Alone /\ Emptied /\ Counts
  BY DEF MinerInv
<1>2. CASE Resolve \/ Sleep
  <2>1. UNCHANGED vars /\ Emptied' /\ Alone'
    BY <1>1, <1>2 DEF Resolve, Sleep, vars, Alone, Emptied, InUse
  <2>2. CASE Resolve
    BY <1>1, <2>1, <2>2 DEF Resolve, MinerPart
  <2>3. CASE Sleep
    BY <1>1, <2>1, <2>3 DEF Sleep, MinerPart
  <2> QED BY <1>2, <2>2, <2>3
<1>3. ASSUME mpc \notin NoSocket, mpc' \notin NoSocket, UNCHANGED <<vars, sock>>
      PROVE  /\ Alone' /\ Emptied'
             /\ OTState(sock)' = OTState(sock) /\ Unread(sock)' = Unread(sock)
             /\ Unread(sock) \in Nat
  BY <1>1, <1>3, NothingStays, StayingOn, HasLink DEF Provider
<1>4. CASE Connected
  BY <1>1, <1>3, <1>4 DEF Connected, MinerPart
<1>5. CASE SendHello
  BY <1>1, <1>3, <1>5 DEF SendHello, Failed, MinerPart
<1>6. CASE SendRequest
  BY <1>1, <1>3, <1>6 DEF SendRequest, Failed, MinerPart
<1>7. CASE RequestSent
  BY <1>1, <1>3, <1>7 DEF RequestSent, MinerPart
<1>8. CASE ReceiveEnd
  <2>1. /\ mpc = "response" /\ mpc' = "shutdown"
        /\ received < room
        /\ Unread(sock) = 0 /\ OTState(sock) # "connected"
        /\ UNCHANGED <<vars, tls, room, sock, cycle>>
    BY <1>1, <1>8 DEF ReceiveEnd, RecvNothing, Alone
  <2>2. /\ Alone' /\ Emptied'
        /\ OTState(sock)' = OTState(sock)
    BY <1>3, <2>1
  <2>3. OTState(sock) = "aborted" \/ received = Most
    <3>1. OTState(sock) \in {"ended", "aborted"}
      BY <1>1, <2>1
    <3>2. OTState(sock) = "ended" => served = Hello + received /\ served = Hello + Reply
      BY <1>1, <2>1
    <3> QED BY <1>1, <2>1, <3>1, <3>2
  <2> QED BY <1>1, <2>1, <2>2, <2>3 DEF MinerPart
<1>9. CASE BufferFull
  BY <1>1, <1>3, <1>9 DEF BufferFull, MinerPart
<1>10. CASE TlsClosed
  BY <1>1, <1>3, <1>10 DEF TlsClosed, MinerPart
<1>11. CASE Shutdown
  BY <1>1, <1>3, <1>11 DEF Shutdown, MinerPart
<1> QED BY <1>2, <1>4, <1>5, <1>6, <1>7, <1>8, <1>9, <1>10, <1>11

\* It calls, and keeps its socket.
LEMMA CallingStep ==
  ASSUME MinerInv, ConnectFailed \/ ConnectServer \/ Handshake \/ ReceiveMore \/ TlsDrain
  PROVE  MinerPart'
<1> USE MinerAssumption
<1> USE DEF Counts, MinerTypeOK, Peered, Tallied, Through, Served, Hello, HasRead, Most, Go,
            NoSocket, Talking, Counting, cycle
<1>1. Wellformed /\ Alone /\ Emptied /\ Counts
  BY DEF MinerInv
<1>2. mpc \notin NoSocket /\ mpc' \notin NoSocket /\ UNCHANGED sock
  BY DEF ConnectFailed, ConnectServer, Handshake, Failed, ReceiveMore, TlsDrain, miner
<1>3. Unread(sock) \in Nat
  BY <1>1, <1>2, HasLink DEF Provider
<1>4. CASE ConnectFailed
  <2>1. Stays("aborted", Unread(sock))
    BY <1>1, <1>2, <1>4, RefusedStays DEF ConnectFailed
  <2>2. Alone' /\ Emptied'
    BY <1>2, <2>1, StayingOn
  <2> QED BY <1>1, <1>4, <2>2 DEF ConnectFailed, MinerPart
<1>5. CASE ConnectServer
  <2>1. Stays("connected", Unread(sock))
    BY <1>1, <1>2, <1>5, ConnectStays DEF ConnectServer
  <2>2. Alone' /\ Emptied' /\ OTState(sock)' = "connected" /\ Unread(sock)' = Unread(sock)
    BY <1>2, <2>1, StayingOn
  <2> QED BY <1>1, <1>5, <2>2 DEF ConnectServer, MinerPart
<1>6. ASSUME NEW k, RecvData(sock, k)
      PROVE  /\ OTState(sock) \in {"connected", "ended"}
             /\ k \in 1 .. Unread(sock)
             /\ Alone' /\ Emptied'
             /\ OTState(sock)' = OTState(sock) /\ Unread(sock)' = Unread(sock) - k
  <2>1. /\ OTState(sock) \in {"connected", "ended"}
        /\ k \in 1 .. Unread(sock)
        /\ Stays(OTState(sock), Unread(sock) - k)
    BY <1>1, <1>2, <1>6, RecvStays
  <2> QED BY <1>2, <2>1, StayingOn
<1>7. CASE Handshake
  <2>1. CASE RecvData(sock, 1) /\ (Go("request") \/ Failed)
    BY <1>1, <1>3, <1>6, <1>7, <2>1 DEF Handshake, Failed, MinerPart
  <2>2. CASE UNCHANGED vars /\ Failed
    <3>1. Stays(OTState(sock), Unread(sock))
      BY <1>1, <1>2, <2>2, NothingStays
    <3>2. Alone' /\ Emptied' /\ OTState(sock)' = OTState(sock) /\ Unread(sock)' = Unread(sock)
      BY <1>2, <3>1, StayingOn
    <3> QED BY <1>1, <1>7, <2>2, <3>2 DEF Handshake, Failed, MinerPart
  <2> QED BY <1>7, <2>1, <2>2 DEF Handshake
<1>8. CASE ReceiveMore
  <2>1. PICK k \in 1 .. room - received : RecvData(sock, k) /\ received' = received + k
    BY <1>8 DEF ReceiveMore
  <2> QED BY <1>1, <1>3, <1>6, <1>8, <2>1 DEF ReceiveMore, MinerPart
<1>9. CASE TlsDrain
  <2>1. PICK k \in 1 .. MaxData : RecvData(sock, k)
    BY <1>9 DEF TlsDrain
  <2> QED BY <1>1, <1>3, <1>6, <1>9, <2>1 DEF TlsDrain, miner, MinerPart
<1> QED BY <1>4, <1>5, <1>7, <1>8, <1>9

\* It gets its socket, or does not; it gives it back.
LEMMA SocketStep == ASSUME MinerInv, OpenSocket \/ CloseSocket PROVE MinerPart'
<1> USE DEF Counts, MinerTypeOK, Peered, Tallied, Through, Served, Hello, HasRead, Go,
            NoSocket, Talking, Counting, cycle
<1>1. Wellformed /\ Alone /\ Emptied /\ Counts
  BY DEF MinerInv
<1>2. CASE OpenSocket
  <2>1. mpc = "socket" /\ UNCHANGED <<tls, room, cycle>>
    BY <1>2 DEF OpenSocket
  <2>2. ASSUME NEW s \in Slots, Socket(s, "stream"), sock' = s, mpc' = "connect"
        PROVE  MinerPart'
    <3>1. /\ InUse' = {s}
          /\ socket_table'[s].type = "stream"
          /\ socket_table'[s].nonblocking = FALSE
          /\ call'.op = "none"
          /\ endpoint'[socket_table'[s].ep].state = "unbound"
          /\ endpoint'[socket_table'[s].ep].inbox = 0
          /\ Emptied'
      BY <1>1, <2>1, <2>2, SocketOpens
    <3>2. Alone' /\ OTState(sock)' = "unbound" /\ Unread(sock)' = 0
      BY <2>2, <3>1 DEF Alone, OTState, Unread
    <3> QED BY <1>1, <2>1, <2>2, <3>1, <3>2 DEF MinerPart
  <2>3. ASSUME NEW s \in Slots, SocketFails(s), sock' = NoSlot, mpc' = "sleep"
        PROVE  MinerPart'
    <3>1. InUse' = {} /\ UNCHANGED <<endpoint, call>>
      BY <1>1, <2>1, <2>3, SocketLeaves
    <3>2. Alone' /\ Emptied'
      BY <1>1, <2>3, <3>1 DEF Alone, Emptied
    <3> QED BY <1>1, <2>1, <2>3, <3>2 DEF MinerPart
  <2> QED BY <1>2, <2>2, <2>3 DEF OpenSocket
<1>3. CASE CloseSocket
  <2>1. mpc = "close" /\ Close(sock) /\ sock' = NoSlot /\ mpc' = "sleep"
        /\ UNCHANGED <<tls, room, cycle>>
    BY <1>3 DEF CloseSocket
  <2>2. InUse' = {} /\ UNCHANGED call /\ Emptied'
    BY <1>1, <2>1, CloseLeaves
  <2>3. Alone'
    BY <1>1, <2>1, <2>2 DEF Alone
  <2> QED BY <1>1, <2>1, <2>2, <2>3 DEF MinerPart
<1> QED BY <1>2, <1>3

\* A call ends, or the server does something: the miner stays where it is.
LEMMA WaitingStep ==
  ASSUME MinerInv, MinerReturns \/ ServerSends \/ ServerEnds \/ ServerDies
  PROVE  MinerPart'
<1> USE MinerAssumption
<1> USE DEF Counts, MinerTypeOK, Peered, Tallied, Through, Served, Hello, HasRead, Most,
            NoSocket, Talking, Counting
<1>1. Wellformed /\ Alone /\ Emptied /\ Counts
  BY DEF MinerInv
<1>2. UNCHANGED <<mpc, tls, room, sock, sent, received>>
  BY DEF MinerReturns, ServerSends, ServerEnds, ServerDies, miner
<1>3. ASSUME mpc \notin NoSocket, NEW state, NEW inbox, Stays(state, inbox)
      PROVE  /\ Alone' /\ Emptied'
             /\ OTState(sock)' = state /\ Unread(sock)' = inbox
             /\ Unread(sock) \in Nat
  BY <1>1, <1>2, <1>3, StayingOn, HasLink DEF Provider
<1>4. CASE MinerReturns
  <2>1. mpc \notin NoSocket /\ Stays(OTState(sock), Unread(sock)) /\ UNCHANGED served
    BY <1>1, <1>4, ReturnStays DEF MinerReturns, miner
  <2> QED BY <1>1, <1>2, <1>3, <2>1 DEF MinerPart
<1>5. CASE ServerSends
  <2>1. mpc \notin NoSocket /\ OTState(sock) = "connected" /\ Stays("connected", Unread(sock) + 1)
    BY <1>1, <1>5, ArriveStays DEF ServerSends
  <2>2. served < Served /\ served' = served + 1
    BY <1>5 DEF ServerSends
  <2> QED BY <1>1, <1>2, <1>3, <2>1, <2>2 DEF MinerPart
<1>6. CASE ServerEnds
  <2>1. mpc \notin NoSocket /\ OTState(sock) = "connected" /\ Stays("ended", Unread(sock))
    BY <1>1, <1>6, ReleaseStays DEF ServerEnds
  <2>2. served = Hello + Reply /\ UNCHANGED served
    BY <1>6 DEF ServerEnds, miner
  <2> QED BY <1>1, <1>2, <1>3, <2>1, <2>2 DEF MinerPart
<1>7. CASE ServerDies
  <2>1. mpc \notin NoSocket /\ OTState(sock) # "unbound" /\ Stays("aborted", 0)
    BY <1>1, <1>7, AbortStays DEF ServerDies
  <2>2. UNCHANGED served
    BY <1>7 DEF ServerDies, miner
  <2> QED BY <1>1, <1>2, <1>3, <2>1, <2>2 DEF MinerPart
<1> QED BY <1>4, <1>5, <1>6, <1>7

\* And every step is one of these.
LEMMA MinerInvStep == MinerInv /\ [MinerNext]_minerVars => MinerInv'
<1> SUFFICES ASSUME MinerInv, [MinerNext]_minerVars PROVE MinerInv'
  OBVIOUS
<1>1. Wellformed'
  BY MinerStepIsCall, WellformedStep DEF MinerInv
<1>2. CASE UNCHANGED minerVars
  BY <1>1, <1>2 DEF MinerInv, minerVars, miner, vars, Emptied, Alone, InUse, Counts, MinerTypeOK,
                    Peered, Tallied, Through, Served, Hello, HasRead, Most, OTState, Unread
<1>3. CASE MinerNext
  <2>1. MinerPart'
    BY <1>3, QuietStep, CallingStep, SocketStep, WaitingStep DEF MinerNext, MinerStep
  <2> QED BY <1>1, <2>1 DEF MinerInv, MinerPart
<1> QED BY <1>2, <1>3

\* The miner starts with nothing open and nothing sent.
LEMMA MinerInvInit == MinerInit => MinerInv
<1> SUFFICES ASSUME MinerInit PROVE MinerInv
  OBVIOUS
<1>1. Wellformed
  BY WellformedInit DEF MinerInit
<1>2. Emptied /\ Alone
  BY DEF MinerInit, Init, Emptied, ClosedProvider, Alone, NoSocket, InUse, Zeroed, NoCall
<1>3. Counts
  BY MinerAssumption DEF MinerInit, Counts, MinerTypeOK, Peered, Tallied, Through, Served, Hello,
                         HasRead, Talking, Counting
<1> QED BY <1>1, <1>2, <1>3 DEF MinerInv

\* The invariant of the cycle.
LEMMA MinerInvariance == MinerSpec => []MinerInv
BY MinerInvInit, MinerInvStep, PTL DEF MinerSpec

-----------------------------------------------------------------------------
(* What follows *)

\* The miner's own variables keep their types: it sends no more than its request and takes no
\* more than the reply.
THEOREM MinerTypeCorrect == MinerSpec => []MinerTypeOK
<1>1. MinerInv => MinerTypeOK
  BY DEF MinerInv, Counts
<1> QED BY <1>1, MinerInvariance, PTL

\* At each sleep the cycle has given back its socket and its endpoint, whatever failed.
THEOREM NothingLeftOpen == MinerSpec => []MinerReleases
<1>1. MinerInv => MinerReleases
  BY NothingOpen DEF MinerInv, Alone, NoSocket, MinerReleases
<1> QED BY <1>1, MinerInvariance, PTL

\* Unless the connection breaks, the whole reply is received, or as much as the buffer takes.
THEOREM ReplyArrives == MinerSpec => []ReplyWhole
<1>1. MinerInv => ReplyWhole
  BY DEF MinerInv, Counts, Through, Most, ReplyWhole
<1> QED BY <1>1, MinerInvariance, PTL

-----------------------------------------------------------------------------
(* The instance that is checked: the library with one of three programs on it *)

\* What every behavior of MCSockets keeps, whichever program it runs.
MCInv == /\ Wellformed /\ ServerTypeOK /\ MinerTypeOK
         /\ program \in Programs
         /\ program = "miner" => MinerInv

\* Whoever makes a step, it is a step of the library.
LEMMA MCStepIsCall == ASSUME Wellformed, [MCNext]_allVars PROVE [Next]_vars
<1>1. ASSUME RunAny PROVE Next
  BY <1>1 DEF RunAny
<1>2. ASSUME RunServer(ServerNext) PROVE [Next]_vars
  BY <1>2, ServerStepIsCall DEF RunServer
<1>3. ASSUME RunMiner(MinerNext) PROVE [Next]_vars
  BY <1>3, MinerStepIsCall DEF RunMiner
<1>4. ASSUME UNCHANGED allVars PROVE UNCHANGED vars
  BY <1>4 DEF allVars
<1> QED BY <1>1, <1>2, <1>3, <1>4 DEF MCNext

\* The program that is not run is where its type allows, and stays there.
LEMMA MCInvInit == MCInit => MCInv
<1> SUFFICES ASSUME MCInit PROVE MCInv
  OBVIOUS
<1>1. Init
  BY DEF MCInit, ServerInit
<1>2. ServerTypeOK
  BY DEF MCInit, ServerInit, ServerTypeOK
<1>3. program = "miner" => MinerInv
  BY MinerInvInit DEF MCInit
<1>4. MinerTypeOK
  <2>1. CASE program = "miner"
    BY <1>3, <2>1 DEF MinerInv, Counts
  <2>2. CASE program # "miner"
    <3>1. /\ mpc = "off" /\ tls = FALSE /\ room = 1 /\ sock = NoSlot
          /\ sent = 0 /\ served = 0 /\ received = 0
      BY <2>2 DEF MCInit
    <3>2. Hello = 0 /\ tls \in BOOLEAN
      BY <3>1, Zenon DEF Hello
    <3>3. /\ room \in 1 .. RoomMost
          /\ sent \in 0 .. Hello + Request
          /\ served \in 0 .. Hello + Reply
          /\ received \in 0 .. Reply
      BY <3>1, <3>2, MinerAssumption
    <3> QED BY <3>1, <3>2, <3>3 DEF MinerTypeOK
  <2> QED BY <2>1, <2>2
<1>5. Wellformed
  BY <1>1, WellformedInit
<1>6. program \in Programs
  BY DEF MCInit
<1> QED BY <1>2, <1>3, <1>4, <1>5, <1>6 DEF MCInv

\* A step of one program keeps the types of both.
LEMMA MCInvStep == MCInv /\ [MCNext]_allVars => MCInv'
<1> SUFFICES ASSUME MCInv, [MCNext]_allVars PROVE MCInv'
  OBVIOUS
<1>1. Wellformed'
  BY MCStepIsCall, WellformedStep DEF MCInv
<1>2. UNCHANGED program
  BY DEF MCNext, RunAny, RunServer, RunMiner, allVars
<1>3. CASE RunAny \/ UNCHANGED allVars
  <2>1. UNCHANGED server /\ UNCHANGED miner
    BY <1>3 DEF RunAny, allVars
  <2>2. ServerTypeOK'
    BY <2>1 DEF MCInv, ServerTypeOK, server
  <2>3. MinerTypeOK'
    BY <2>1 DEF MCInv, MinerTypeOK, miner, Hello
  <2>4. program' = "miner" => MinerInv'
    BY <1>2, <1>3, MinerInvStep DEF MCInv, RunAny, allVars, minerVars
  <2> QED BY <1>1, <1>2, <2>2, <2>3, <2>4 DEF MCInv
<1>4. CASE RunServer(ServerNext)
  <2>1. ServerTypeOK'
    BY <1>4, ServerTypeStep DEF MCInv, RunServer
  <2>2. MinerTypeOK'
    BY <1>4 DEF MCInv, RunServer, MinerTypeOK, miner, Hello
  <2> QED BY <1>1, <1>2, <1>4, <2>1, <2>2 DEF MCInv, RunServer
<1>5. CASE RunMiner(MinerNext)
  <2>1. ServerTypeOK'
    BY <1>5 DEF MCInv, RunMiner, ServerTypeOK, server
  <2>2. MinerInv'
    BY <1>5, MinerInvStep DEF MCInv, RunMiner
  <2> QED BY <1>1, <1>2, <2>1, <2>2 DEF MCInv, MinerInv, Counts
<1> QED BY <1>3, <1>4, <1>5 DEF MCNext

\* And keeps it always.
LEMMA MCInvariance == MCSpec => []MCInv
BY MCInvInit, MCInvStep, PTL DEF MCSpec

\* What TLC checks of one library and one of three programs on it is of a library as Sockets has
\* it: all that is proved of every program holds of these.
THEOREM ChecksThePrograms == MCSpec => Spec
<1>1. MCInit => Init
  BY DEF MCInit, ServerInit
<1>2. MCInv /\ [MCNext]_allVars => [Next]_vars
  BY MCStepIsCall DEF MCInv
<1> QED BY <1>1, <1>2, MCInvariance, PTL DEF MCSpec, Spec

\* The types of the library and of both programs, in a behavior of any of the three programs: no
\* program disturbs what another keeps, and the miner's counts stay in their bounds.
THEOREM AllTypesCorrect == MCSpec => []AllTypeOK
<1>1. MCInv => AllTypeOK
  BY DEF MCInv, Wellformed, AllTypeOK
<1> QED BY <1>1, MCInvariance, PTL
=============================================================================
