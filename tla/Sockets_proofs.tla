---------------------------- MODULE Sockets_proofs ----------------------------
(***************************************************************************)
(* Proofs about Sockets, for any number of slots and any endpoints.  The   *)
(* inductive invariant IInv ties the three places where a socket and its   *)
(* endpoint know of each other: the slot's ep, the endpoint's state, and   *)
(* the context of its notifier.  Every step either keeps all three, or     *)
(* takes a slot with an endpoint, gives both back, or sets the context.    *)
(* Upon that pairing rest the flags that the notifier sets: who reads one  *)
(* reads it of the endpoint that the socket has.                           *)
(***************************************************************************)
EXTENDS Sockets, TLAPS

\* A socket in use and an open endpoint are one to one, and a notifier is called with its holder.
Owners ==
  /\ \A s \in InUse : /\ socket_table[s].ep \in Endpoints
                      /\ endpoint[socket_table[s].ep].state # "closed"
  /\ \A s, t \in InUse : socket_table[s].ep = socket_table[t].ep => s = t
  /\ \A e \in Endpoints : endpoint[e].state # "closed" => \E s \in InUse : socket_table[s].ep = e
  /\ \A e \in Endpoints : endpoint[e].notify # NoSlot =>
       endpoint[e].notify \in InUse /\ socket_table[endpoint[e].notify].ep = e

\* The socket of a call that is half done stays in use.
CallInUse == call.op # "none" => call.s \in InUse

\* Callers that are taken but not answered still count against the queue.
Admitting == {p \in Provider : p.callers + p.unanswered <= MaxCallers}
Counted == endpoint \in [Endpoints -> Admitting]

Wellformed == TypeOK /\ Owners /\ CallInUse /\ Counted

\* Only accept makes an endpoint without a notifier, and it makes it connected.
Notified ==
  \A e \in Endpoints :
    endpoint[e].state \in {"unbound", "bound", "queueing", "connecting"}
      => endpoint[e].notify # NoSlot

\* A connection that is up is known, or a call is about to say so.
Known ==
  \A s \in InUse :
    OTState(s) = "connected" =>
      \/ socket_table[s].connected
      \/ call.op \in {"connect", "accepted", "noted"} /\ call.s = s

\* A queue is a listener's, even after its listen has failed later on.
QueueListens == \A s \in InUse : OTState(s) = "queueing" => socket_table[s].listening

\* Readable means something, or recv is about to say that it does not.
Meaningful ==
  \A s \in InUse :
    socket_table[s].readable =>
      \/ socket_table[s].listening
      \/ socket_table[s].type = "dgram"
      \/ Unread(s) > 0
      \/ OTState(s) \in {"ended", "aborted"}
      \/ call.op = "recv" /\ call.s = s

\* accept gives its new socket a type at its end.
Untyped == call.op \in {"accepted", "noted"} => socket_table[call.s].type = "none"

Flags == Notified /\ Known /\ QueueListens /\ Meaningful

IInv == Wellformed /\ Untyped /\ Flags

-----------------------------------------------------------------------------
(* What a step does to slots and endpoints *)

Kept ==
  /\ InUse' = InUse
  /\ \A s \in InUse : socket_table'[s].ep = socket_table[s].ep
  /\ \A e \in Endpoints : /\ endpoint'[e].notify = endpoint[e].notify
                          /\ endpoint'[e].state = "closed" <=> endpoint[e].state = "closed"

Taken(s, e) ==
  /\ s \notin InUse /\ InUse' = InUse \cup {s}
  /\ socket_table'[s].ep = e
  /\ \A t \in InUse : socket_table'[t].ep = socket_table[t].ep
  /\ endpoint[e].state = "closed" /\ endpoint'[e].state # "closed"
  /\ endpoint'[e].notify \in {endpoint[e].notify, s}
  /\ \A f \in Endpoints \ {e} : /\ endpoint'[f].notify = endpoint[f].notify
                                /\ endpoint'[f].state = "closed" <=> endpoint[f].state = "closed"

Given(s, e) ==
  /\ s \in InUse /\ InUse' = InUse \ {s}
  /\ socket_table[s].ep = e
  /\ \A t \in InUse \ {s} : socket_table'[t].ep = socket_table[t].ep
  /\ endpoint'[e] = ClosedProvider
  /\ \A f \in Endpoints \ {e} : endpoint'[f] = endpoint[f]

Contexted(s, e) ==
  /\ s \in InUse /\ InUse' = InUse
  /\ socket_table[s].ep = e
  /\ \A t \in InUse : socket_table'[t].ep = socket_table[t].ep
  /\ endpoint'[e].notify \in {endpoint[e].notify, s}
  /\ endpoint'[e].state = endpoint[e].state
  /\ \A f \in Endpoints \ {e} : endpoint'[f] = endpoint[f]

OneOf == \/ Kept
         \/ \E s \in Slots, e \in Endpoints : Taken(s, e) \/ Given(s, e) \/ Contexted(s, e)

\* Each of the four kinds keeps sockets and endpoints one to one.
LEMMA OwnersKept == ASSUME Wellformed, OneOf PROVE Owners'
<1>1. CASE Kept
  BY <1>1 DEF Kept, Wellformed, TypeOK, Owners
<1>2. ASSUME NEW s \in Slots, NEW e \in Endpoints, Taken(s, e) PROVE Owners'
  <2>1. endpoint[e].notify = NoSlot /\ \A t \in InUse : socket_table[t].ep # e
    BY <1>2 DEF Taken, Wellformed, Owners
  <2> QED BY <1>2, <2>1 DEF Taken, Wellformed, Owners, Slots, NoSlot
<1>3. ASSUME NEW s \in Slots, NEW e \in Endpoints, Given(s, e) PROVE Owners'
  BY <1>3 DEF Given, Wellformed, Owners, ClosedProvider
<1>4. ASSUME NEW s \in Slots, NEW e \in Endpoints, Contexted(s, e) PROVE Owners'
  BY <1>4 DEF Contexted, Wellformed, Owners
<1> QED BY <1>1, <1>2, <1>3, <1>4 DEF OneOf

-----------------------------------------------------------------------------
(* Every step is of one of the four kinds *)

\* The endpoint of a socket in use is an endpoint.
LEMMA Held ==
  ASSUME Wellformed, NEW s \in Slots, get_socket(s)
  PROVE  socket_table[s].ep \in Endpoints /\ endpoint[socket_table[s].ep].state # "closed"
BY DEF Wellformed, Owners, get_socket

\* The entry that alloc_socket leaves, with an endpoint in it or not.
LEMMA AllocatedFields ==
  ASSUME NEW s \in Slots
  PROVE  /\ AllocatedEntry(s) \in Entry
         /\ AllocatedEntry(s).inUse = TRUE /\ AllocatedEntry(s).readable = FALSE
         /\ AllocatedEntry(s).type = "none"
<1>1. Zeroed \in Entry /\ Zeroed.readable = FALSE /\ Zeroed.type = "none"
  BY DEF Zeroed, Entry
<1> QED BY <1>1 DEF AllocatedEntry, Entry

\* What the network does keeps all slots and endpoints.
LEMMA NetworkKeeps ==
  ASSUME Wellformed, NEW e \in Endpoints, Network(e)
  PROVE  Kept
<1>1. ASSUME NEW event, socket_notifier(e, event)
      PROVE /\ InUse' = InUse
            /\ \A s \in Slots : socket_table'[s].ep = socket_table[s].ep
  BY <1>1 DEF socket_notifier, Noticed, Wellformed, TypeOK, Entry, InUse
<1>2. ASSUME UNCHANGED socket_table
      PROVE /\ InUse' = InUse
            /\ \A s \in Slots : socket_table'[s].ep = socket_table[s].ep
  BY <1>2 DEF InUse
<1>3. /\ InUse' = InUse
      /\ \A s \in InUse : socket_table'[s].ep = socket_table[s].ep
  BY <1>1, <1>2 DEF Network, Arrive, Caller, Established, Release, Abort, GoData, InUse
<1>4. \A f \in Endpoints : /\ endpoint'[f].notify = endpoint[f].notify
                           /\ endpoint'[f].state = "closed" <=> endpoint[f].state = "closed"
  BY DEF Network, Arrive, Receiving, Caller, Established, Release, Abort, GoData,
         Wellformed, TypeOK, Provider
<1> QED BY <1>3, <1>4 DEF Kept

\* What a call does that neither takes nor frees a slot.
LEMMA CallKeeps ==
  ASSUME Wellformed, NEW s \in Slots,
         \/ SocketFails(s) \/ Bind(s) \/ Listen(s) \/ ListenFails(s)
         \/ \E value \in BOOLEAN : SetNonblocking(s, value)
         \/ AcceptNoSlot(s)
         \/ \E n \in Slots : AcceptNoEndpoint(s, n) \/ AcceptRefused(s, n)
         \/ Connect(s) \/ ConnectRefused(s)
         \/ \E k \in 1 .. MaxData : RecvData(s, k)
         \/ RecvFrom(s)
  PROVE  Kept
<1> USE DEF Wellformed, TypeOK, Provider, Entry, Kept, InUse
<1>1. ASSUME SocketFails(s) PROVE Kept
  BY <1>1 DEF SocketFails, AllocateAndFree, AllocatedEntry, Zeroed, Allocated
<1>2. ASSUME Bind(s) \/ Listen(s) \/ ListenFails(s) PROVE Kept
  <2>1. socket_table[s].ep \in Endpoints /\ endpoint[socket_table[s].ep].state # "closed"
    BY <1>2, Held DEF Bind, Listen, ListenFails
  <2>2. CASE Bind(s)
    BY <2>1, <2>2 DEF Bind
  <2>3. CASE Listen(s)
    <3>1. \/ UNCHANGED endpoint
          \/ endpoint' = [endpoint EXCEPT ![socket_table[s].ep].state = "queueing",
                                          ![socket_table[s].ep].callers = 0,
                                          ![socket_table[s].ep].unanswered = 0]
      BY <2>3 DEF Listen
    <3>2. socket_table' = [socket_table EXCEPT ![s].listening = TRUE]
      BY <2>3 DEF Listen
    <3>3. \A t \in Slots : /\ socket_table'[t].ep = socket_table[t].ep
                           /\ socket_table'[t].inUse = socket_table[t].inUse
      BY <3>2
    <3>4. \A e \in Endpoints : /\ endpoint'[e].notify = endpoint[e].notify
                               /\ endpoint'[e].state = "closed" <=> endpoint[e].state = "closed"
      BY <2>1, <3>1
    <3> QED BY <3>3, <3>4
  <2>4. CASE ListenFails(s)
    BY <2>1, <2>4 DEF ListenFails
  <2> QED BY <1>2, <2>2, <2>3, <2>4
<1>3. ASSUME NEW value \in BOOLEAN, SetNonblocking(s, value) PROVE Kept
  BY <1>3 DEF SetNonblocking
<1>4. ASSUME AcceptNoSlot(s) PROVE Kept
  BY <1>4, Held DEF AcceptNoSlot, OTListen, TakenFrom, get_socket
<1>5. ASSUME NEW n \in Slots, AcceptNoEndpoint(s, n) \/ AcceptRefused(s, n) PROVE Kept
  <2>1. socket_table[s].ep \in Endpoints
    BY <1>5, Held DEF AcceptNoEndpoint, AcceptRefused, OTListen
  <2>2. \A e \in Endpoints : /\ endpoint'[e].notify = endpoint[e].notify
                             /\ endpoint'[e].state = endpoint[e].state
    BY <1>5, <2>1 DEF AcceptNoEndpoint, AcceptRefused, TakenFrom
  <2>3. n \notin InUse /\ AllocateAndFree(n)
    BY <1>5 DEF AcceptNoEndpoint, AcceptRefused, Allocated
  <2>4. InUse' = InUse /\ \A t \in InUse : socket_table'[t].ep = socket_table[t].ep
    <3> DEFINE new == [AllocatedEntry(n) EXCEPT !.inUse = FALSE]
    <3>1. new.inUse = FALSE
      BY AllocatedFields
    <3>2. socket_table' = [socket_table EXCEPT ![n] = new]
      BY <2>3 DEF AllocateAndFree
    <3> HIDE DEF new
    <3> QED BY <2>3, <3>1, <3>2
  <2> QED BY <2>2, <2>4
<1>6. ASSUME Connect(s) \/ ConnectRefused(s) PROVE Kept
  BY SMTT(40), <1>6, Held DEF Connect, ConnectRefused, CanConnect, OTState, get_socket
<1>7. ASSUME NEW k \in 1 .. MaxData, RecvData(s, k) \/ RecvFrom(s) PROVE Kept
  BY SMTT(40), <1>7, Held DEF RecvData, RecvFrom, OTState, get_socket
<1>8. 1 \in 1 .. MaxData
  BY SocketAssumption
<1> QED BY <1>1, <1>2, <1>3, <1>4, <1>5, <1>6, <1>7, <1>8

\* socket and accept take a slot and an endpoint.
LEMMA OpenTakes ==
  ASSUME Wellformed, NEW s \in Slots, NEW n \in Slots,
         (\E type \in Types : Socket(n, type)) \/ AcceptConnection(s, n)
  PROVE  \E e \in Endpoints : Taken(n, e)
<1> USE DEF Wellformed, TypeOK, Provider, Entry, Taken, InUse
<1>1. ASSUME NEW type \in Types, Socket(n, type) PROVE \E e \in Endpoints : Taken(n, e)
  <2>1. PICK e \in Endpoints :
          /\ endpoint[e].state = "closed"
          /\ OpenEndpoint(e, n)
          /\ socket_table' = [socket_table EXCEPT
               ![n] = [AllocatedEntry(n) EXCEPT !.ep = e, !.type = type, !.writable = TRUE]]
    BY <1>1 DEF Socket
  <2>2. n \notin InUse /\ InUse' = InUse \cup {n} /\ socket_table'[n].ep = e
    <3> DEFINE new == [AllocatedEntry(n) EXCEPT !.ep = e, !.type = type, !.writable = TRUE]
    <3>1. new.inUse = TRUE /\ new.ep = e
      BY AllocatedFields
    <3>2. n \notin InUse /\ socket_table' = [socket_table EXCEPT ![n] = new]
      BY <1>1, <2>1 DEF Socket, Allocated
    <3> HIDE DEF new
    <3> QED BY <3>1, <3>2
  <2>3. \A t \in InUse : socket_table'[t].ep = socket_table[t].ep
    BY <2>1, <2>2
  <2>4. /\ endpoint'[e].notify = n /\ endpoint'[e].state = "unbound"
        /\ \A f \in Endpoints \ {e} : endpoint'[f] = endpoint[f]
    BY <2>1 DEF OpenEndpoint
  <2> QED BY <2>1, <2>2, <2>3, <2>4
<1>2. ASSUME AcceptConnection(s, n) PROVE \E e \in Endpoints : Taken(n, e)
  <2>1. PICK e \in Endpoints :
          /\ endpoint[e].state = "closed"
          /\ endpoint' = [TakenFrom(socket_table[s].ep) EXCEPT ![e].state = "connected"]
          /\ socket_table' = [socket_table EXCEPT ![n] = [AllocatedEntry(n) EXCEPT !.ep = e]]
    BY <1>2 DEF AcceptConnection
  <2>2. e # socket_table[s].ep /\ socket_table[s].ep \in Endpoints
    BY <1>2, <2>1, Held DEF AcceptConnection, OTListen
  <2>3. \A f \in Endpoints \ {e} :
          /\ endpoint'[f].notify = endpoint[f].notify
          /\ endpoint'[f].state = "closed" <=> endpoint[f].state = "closed"
    BY <2>1, <2>2 DEF TakenFrom
  <2>4. endpoint'[e].notify = endpoint[e].notify /\ endpoint'[e].state = "connected"
    BY <2>1, <2>2 DEF TakenFrom
  <2>5. n \notin InUse /\ InUse' = InUse \cup {n} /\ socket_table'[n].ep = e
    <3> DEFINE new == [AllocatedEntry(n) EXCEPT !.ep = e]
    <3>1. new.inUse = TRUE /\ new.ep = e
      BY AllocatedFields
    <3>2. n \notin InUse /\ socket_table' = [socket_table EXCEPT ![n] = new]
      BY <1>2, <2>1 DEF AcceptConnection, Allocated
    <3> HIDE DEF new
    <3> QED BY <3>1, <3>2
  <2>6. \A t \in InUse : socket_table'[t].ep = socket_table[t].ep
    BY <2>1, <2>5
  <2> QED BY <2>1, <2>3, <2>4, <2>5, <2>6
<1> QED BY <1>1, <1>2

\* close gives both back.
LEMMA CloseGives ==
  ASSUME Wellformed, NEW s \in Slots, Close(s)
  PROVE  Given(s, socket_table[s].ep)
BY Held DEF Close, get_socket, free_socket, OTCloseProvider, Wellformed, TypeOK, Entry, InUse,
            Owners, Given

\* The end of a call sets at most the context of its socket's notifier.
LEMMA ReturnContexts ==
  ASSUME Wellformed, Return
  PROVE  OneOf
<1>1. ASSUME NEW installed \in BOOLEAN, InstallNotifier(installed)
      PROVE  Contexted(call.s, socket_table[call.s].ep)
  <2>1. call.s \in InUse /\ call.s \in Slots
    BY <1>1 DEF InstallNotifier, Wellformed, CallInUse, InUse
  <2> QED BY <1>1, <2>1, Held DEF InstallNotifier, Contexted, Wellformed, TypeOK, Provider,
                                  get_socket, InUse
<1>2. ASSUME AcceptDone \/ ConnectDone \/ RecvDone PROVE Kept
  BY SMTT(40), <1>2 DEF AcceptDone, ConnectDone, RecvDone, Kept, Wellformed, TypeOK, Entry, InUse
<1>3. ASSUME NEW installed \in BOOLEAN, InstallNotifier(installed)
      PROVE call.s \in Slots /\ socket_table[call.s].ep \in Endpoints
  BY <1>3, Held DEF InstallNotifier, Wellformed, CallInUse, InUse, get_socket
<1> QED BY <1>1, <1>2, <1>3 DEF Return, OneOf

\* Every step is of one of the four kinds.
LEMMA StepKinds == ASSUME Wellformed, [Next]_vars PROVE OneOf
<1>1. CASE UNCHANGED vars
  BY <1>1 DEF vars, OneOf, Kept, InUse
<1>2. CASE Return
  BY <1>2, ReturnContexts
<1>3. ASSUME NEW e \in Endpoints, Network(e) PROVE OneOf
  BY <1>3, NetworkKeeps DEF OneOf
<1>4. CASE AnyCall
  <2>1. ASSUME NEW s \in Slots,
               \/ \E type \in Types : Socket(s, type)
               \/ \E n \in Slots : AcceptConnection(s, n)
        PROVE OneOf
    BY <2>1, OpenTakes DEF OneOf
  <2>2. ASSUME NEW s \in Slots, Close(s) PROVE OneOf
    <3>1. socket_table[s].ep \in Endpoints
      BY <2>2, Held DEF Close
    <3> QED BY <2>2, <3>1, CloseGives DEF OneOf
  <2> QED BY <1>4, <2>1, <2>2, CallKeeps DEF AnyCall, OneOf
<1> QED BY <1>1, <1>2, <1>3, <1>4 DEF Next

-----------------------------------------------------------------------------
(* Types *)

\* What the notifier makes of an entry is an entry.
LEMMA NoticedEntry == ASSUME NEW x \in Entry, NEW event PROVE Noticed(x, event) \in Entry
<1> DEFINE r == x.readable \/ event \in {"T_DATA", "T_LISTEN"}
           w == x.writable \/ event = "T_GODATA"
           c == (x.connected \/ event = "T_CONNECT") /\ event \notin {"T_DISCONNECT", "T_ORDREL"}
<1>1. Noticed(x, event) = [x EXCEPT !.readable = r, !.writable = w, !.connected = c]
  BY DEF Noticed
<1>2. r \in BOOLEAN /\ w \in BOOLEAN /\ c \in BOOLEAN
  OBVIOUS
<1> HIDE DEF r, w, c
<1>3. [x EXCEPT !.readable = r, !.writable = w, !.connected = c] \in Entry
  BY <1>2 DEF Entry
<1> QED BY <1>1, <1>3

\* What the calls make of an entry is one, too.
LEMMA EntryUpdates ==
  ASSUME NEW x \in Entry
  PROVE  /\ [x EXCEPT !.inUse = FALSE] \in Entry
         /\ [x EXCEPT !.inUse = FALSE, !.ep = NoEndpoint] \in Entry
         /\ [x EXCEPT !.bound = TRUE] \in Entry
         /\ [x EXCEPT !.listening = TRUE] \in Entry
         /\ [x EXCEPT !.connected = TRUE] \in Entry
         /\ [x EXCEPT !.readable = FALSE] \in Entry
         /\ [x EXCEPT !.type = "stream", !.writable = TRUE, !.connected = TRUE] \in Entry
         /\ \A value \in BOOLEAN : [x EXCEPT !.nonblocking = value] \in Entry
         /\ \A e \in Endpoints : [x EXCEPT !.ep = e] \in Entry
         /\ \A e \in Endpoints, type \in Types :
              [x EXCEPT !.ep = e, !.type = type, !.writable = TRUE] \in Entry
BY DEF Entry, Types

\* The slots keep their type.
LEMMA TableStep == ASSUME Wellformed, [Next]_vars PROVE socket_table' \in [Slots -> Entry]
<1>1. socket_table \in [Slots -> Entry]
  BY DEF Wellformed, TypeOK
<1>2. ASSUME NEW s \in Slots, NEW type \in Types, Socket(s, type)
      PROVE  socket_table' \in [Slots -> Entry]
  <2>1. PICK e \in Endpoints : socket_table' = [socket_table EXCEPT
          ![s] = [AllocatedEntry(s) EXCEPT !.ep = e, !.type = type, !.writable = TRUE]]
    BY <1>2 DEF Socket
  <2>2. [AllocatedEntry(s) EXCEPT !.ep = e, !.type = type, !.writable = TRUE] \in Entry
    BY AllocatedFields, EntryUpdates
  <2> QED BY <1>1, <2>1, <2>2
<1>3. ASSUME NEW s \in Slots, AllocateAndFree(s)
      PROVE  socket_table' \in [Slots -> Entry]
  BY <1>1, <1>3, AllocatedFields, EntryUpdates DEF AllocateAndFree
<1>4. ASSUME NEW s \in Slots, NEW n \in Slots, AcceptConnection(s, n)
      PROVE  socket_table' \in [Slots -> Entry]
  <2>1. PICK e \in Endpoints :
          socket_table' = [socket_table EXCEPT ![n] = [AllocatedEntry(n) EXCEPT !.ep = e]]
    BY <1>4 DEF AcceptConnection
  <2>2. [AllocatedEntry(n) EXCEPT !.ep = e] \in Entry
    BY AllocatedFields, EntryUpdates
  <2> QED BY <1>1, <2>1, <2>2
<1>5. ASSUME NEW s \in Slots, Bind(s) \/ Listen(s) \/ Close(s)
      PROVE  socket_table' \in [Slots -> Entry]
  <2>1. CASE Bind(s)
    BY <1>1, <2>1, EntryUpdates DEF Bind
  <2>2. CASE Listen(s)
    BY <1>1, <2>2, EntryUpdates DEF Listen
  <2>3. CASE Close(s)
    BY <1>1, <2>3, EntryUpdates DEF Close, free_socket
  <2> QED BY <1>5, <2>1, <2>2, <2>3
<1>6. ASSUME NEW s \in Slots, NEW value \in BOOLEAN, SetNonblocking(s, value)
      PROVE  socket_table' \in [Slots -> Entry]
  BY <1>1, <1>6, EntryUpdates DEF SetNonblocking
<1>7. CASE Return
  <2>1. UNCHANGED socket_table \/ call.s \in Slots
    BY <1>7 DEF Return, InstallNotifier, AcceptDone, ConnectDone, RecvDone, Wellformed, CallInUse,
                InUse
  <2>2. CASE UNCHANGED socket_table
    BY <1>1, <2>2
  <2>3. CASE call.s \in Slots /\ AcceptDone
    BY <1>1, <2>3, EntryUpdates DEF AcceptDone
  <2>4. CASE call.s \in Slots /\ ConnectDone
    BY <1>1, <2>4, EntryUpdates DEF ConnectDone
  <2>5. CASE call.s \in Slots /\ RecvDone
    BY <1>1, <2>5, EntryUpdates DEF RecvDone
  <2> QED BY <1>7, <2>1, <2>2, <2>3, <2>4, <2>5 DEF Return, InstallNotifier
<1>8. ASSUME NEW e \in Endpoints, Network(e)
      PROVE  socket_table' \in [Slots -> Entry]
  <2>1. ASSUME NEW event, socket_notifier(e, event)
        PROVE  socket_table' \in [Slots -> Entry]
    BY <1>1, <2>1, NoticedEntry DEF socket_notifier
  <2> QED BY <1>1, <1>8, <2>1 DEF Network, Arrive, Caller, Established, Release, Abort, GoData
<1>9. ASSUME NEW s \in Slots,
             \/ ListenFails(s) \/ AcceptNoSlot(s) \/ Connect(s) \/ ConnectRefused(s)
             \/ (\E k \in 1 .. MaxData : RecvData(s, k)) \/ RecvFrom(s)
      PROVE  UNCHANGED socket_table
  BY <1>9 DEF ListenFails, AcceptNoSlot, Connect, ConnectRefused, RecvData, RecvFrom
<1>10. ASSUME NEW s \in Slots, NEW n \in Slots, AcceptNoEndpoint(s, n) \/ AcceptRefused(s, n)
       PROVE  socket_table' \in [Slots -> Entry]
  BY <1>3, <1>10 DEF AcceptNoEndpoint, AcceptRefused
<1>11. CASE AnyCall
  BY <1>1, <1>2, <1>3, <1>4, <1>5, <1>6, <1>9, <1>10, <1>11 DEF AnyCall, SocketFails
<1> QED BY <1>1, <1>7, <1>8, <1>11 DEF Next, vars

\* What calls and network make of a provider is one, and its queue does not grow over its bound.
LEMMA ProviderUpdates ==
  ASSUME NEW p \in Admitting
  PROVE  /\ \A state \in {"bound", "connecting", "connected", "ended", "aborted"} :
              [p EXCEPT !.state = state] \in Admitting
         /\ \A state \in {"unbound", "queueing"} :
              [p EXCEPT !.state = state, !.callers = 0, !.unanswered = 0] \in Admitting
         /\ \A s \in Slots : /\ [p EXCEPT !.state = "unbound", !.notify = s] \in Admitting
                             /\ [p EXCEPT !.notify = s] \in Admitting
         /\ [p EXCEPT !.state = "aborted", !.inbox = 0] \in Admitting
         /\ p.callers > 0 => /\ [p EXCEPT !.callers = @ - 1] \in Admitting
                             /\ [p EXCEPT !.callers = @ - 1, !.unanswered = @ + 1] \in Admitting
         /\ p.callers + p.unanswered < MaxCallers => [p EXCEPT !.callers = @ + 1] \in Admitting
         /\ p.inbox < MaxData => [p EXCEPT !.inbox = @ + 1] \in Admitting
         /\ \A k \in 1 .. p.inbox : [p EXCEPT !.inbox = @ - k] \in Admitting
<1>1. /\ p \in Provider
      /\ p.inbox \in 0 .. MaxData
      /\ p.callers \in 0 .. MaxCallers /\ p.unanswered \in 0 .. MaxCallers
      /\ p.callers + p.unanswered <= MaxCallers
  BY DEF Admitting, Provider
<1>2. 0 \in 0 .. MaxData /\ 0 \in 0 .. MaxCallers /\ 0 + 0 <= MaxCallers
  BY SocketAssumption
<1>3. \A state \in {"bound", "connecting", "connected", "ended", "aborted"} :
        [p EXCEPT !.state = state] \in Admitting
  BY <1>1 DEF Admitting, Provider
<1>4. \A state \in {"unbound", "queueing"} :
        [p EXCEPT !.state = state, !.callers = 0, !.unanswered = 0] \in Admitting
  BY <1>1, <1>2 DEF Admitting, Provider
<1>5. \A s \in Slots : /\ [p EXCEPT !.state = "unbound", !.notify = s] \in Admitting
                      /\ [p EXCEPT !.notify = s] \in Admitting
  BY <1>1 DEF Admitting, Provider
<1>6. [p EXCEPT !.state = "aborted", !.inbox = 0] \in Admitting
  BY <1>1, <1>2 DEF Admitting, Provider
<1>7. ASSUME p.callers > 0
      PROVE  /\ [p EXCEPT !.callers = @ - 1] \in Admitting
             /\ [p EXCEPT !.callers = @ - 1, !.unanswered = @ + 1] \in Admitting
  <2>1. /\ p.callers - 1 \in 0 .. MaxCallers /\ p.unanswered + 1 \in 0 .. MaxCallers
        /\ p.callers - 1 + p.unanswered <= MaxCallers
        /\ p.callers - 1 + (p.unanswered + 1) <= MaxCallers
    BY <1>1, <1>7, SocketAssumption
  <2> QED BY <1>1, <2>1 DEF Admitting, Provider
<1>8. ASSUME p.callers + p.unanswered < MaxCallers
      PROVE  [p EXCEPT !.callers = @ + 1] \in Admitting
  <2>1. p.callers + 1 \in 0 .. MaxCallers /\ p.callers + 1 + p.unanswered <= MaxCallers
    BY <1>1, <1>8, SocketAssumption
  <2> QED BY <1>1, <2>1 DEF Admitting, Provider
<1>9. ASSUME p.inbox < MaxData
      PROVE  [p EXCEPT !.inbox = @ + 1] \in Admitting
  <2>1. p.inbox + 1 \in 0 .. MaxData
    BY <1>1, <1>9, SocketAssumption
  <2> QED BY <1>1, <2>1 DEF Admitting, Provider
<1>10. ASSUME NEW k \in 1 .. p.inbox
       PROVE  [p EXCEPT !.inbox = @ - k] \in Admitting
  <2>1. p.inbox - k \in 0 .. MaxData
    BY <1>1, SocketAssumption
  <2> QED BY <1>1, <2>1 DEF Admitting, Provider
<1> QED BY <1>3, <1>4, <1>5, <1>6, <1>7, <1>8, <1>9, <1>10

\* So is a provider that is closed.
LEMMA ProviderClosed == ClosedProvider \in Admitting
<1>1. 0 \in 0 .. MaxData /\ 0 \in 0 .. MaxCallers /\ 0 + 0 <= MaxCallers
  BY SocketAssumption
<1> QED BY <1>1 DEF Admitting, Provider, ClosedProvider

\* The endpoints keep their type, and no queue grows over its bound.
LEMMA EndpointStep == ASSUME Wellformed, [Next]_vars PROVE Counted'
<1> USE DEF Counted
<1>1. endpoint \in [Endpoints -> Admitting]
  BY DEF Wellformed
<1>2. ASSUME NEW s \in Slots, NEW type \in Types, Socket(s, type) PROVE Counted'
  <2>1. PICK e \in Endpoints : endpoint' = [endpoint EXCEPT ![e].state = "unbound", ![e].notify = s]
    BY <1>2 DEF Socket, OpenEndpoint
  <2> QED BY <1>1, <2>1, ProviderUpdates
<1>3. ASSUME NEW s \in Slots, Bind(s) \/ Listen(s) \/ ListenFails(s) PROVE Counted'
  <2>1. CASE Bind(s)
    BY <1>1, <2>1, ProviderUpdates DEF Bind
  <2>2. CASE Listen(s)
    <3>1. \/ UNCHANGED endpoint
          \/ endpoint' = [endpoint EXCEPT ![socket_table[s].ep].state = "queueing",
                                          ![socket_table[s].ep].callers = 0,
                                          ![socket_table[s].ep].unanswered = 0]
      BY <2>2 DEF Listen
    <3>2. CASE UNCHANGED endpoint
      BY <1>1, <3>2
    <3>3. CASE endpoint' = [endpoint EXCEPT ![socket_table[s].ep].state = "queueing",
                                            ![socket_table[s].ep].callers = 0,
                                            ![socket_table[s].ep].unanswered = 0]
      BY <1>1, <3>3, ProviderUpdates
    <3> QED BY <3>1, <3>2, <3>3
  <2>3. CASE ListenFails(s)
    BY <1>1, <2>3, ProviderUpdates DEF ListenFails
  <2> QED BY <1>3, <2>1, <2>2, <2>3
<1>4. ASSUME NEW s \in Slots, OTListen(s)
      PROVE  TakenFrom(socket_table[s].ep) \in [Endpoints -> Admitting]
  <2>1. socket_table[s].ep \in Endpoints
    BY <1>4, Held DEF OTListen
  <2> QED BY <1>1, <1>4, <2>1, ProviderUpdates DEF OTListen, TakenFrom
<1>5. ASSUME NEW s \in Slots, NEW n \in Slots,
             AcceptNoSlot(s) \/ AcceptNoEndpoint(s, n) \/ AcceptConnection(s, n)
      PROVE  Counted'
  <2>1. CASE AcceptNoSlot(s) \/ AcceptNoEndpoint(s, n)
    BY <1>4, <2>1 DEF AcceptNoSlot, AcceptNoEndpoint
  <2>2. CASE AcceptConnection(s, n)
    <3>1. PICK e \in Endpoints :
            endpoint' = [TakenFrom(socket_table[s].ep) EXCEPT ![e].state = "connected"]
      BY <2>2 DEF AcceptConnection
    <3>2. TakenFrom(socket_table[s].ep) \in [Endpoints -> Admitting]
      BY <1>4, <2>2 DEF AcceptConnection
    <3> QED BY <3>1, <3>2, ProviderUpdates
  <2> QED BY <1>5, <2>1, <2>2
<1>6. ASSUME NEW s \in Slots, NEW n \in Slots, AcceptRefused(s, n)
      PROVE  Counted'
  <2>1. socket_table[s].ep \in Endpoints /\ endpoint[socket_table[s].ep].callers > 0
    BY <1>6, Held DEF AcceptRefused, OTListen
  <2> DEFINE e == socket_table[s].ep
  <2>2. endpoint' = [endpoint EXCEPT
          ![e] = [endpoint[e] EXCEPT !.callers = @ - 1, !.unanswered = @ + 1]]
    BY <1>1, <1>6, <2>1 DEF AcceptRefused, TakenFrom
  <2>3. [endpoint[e] EXCEPT !.callers = @ - 1, !.unanswered = @ + 1] \in Admitting
    BY <1>1, <2>1, ProviderUpdates
  <2> QED BY <1>1, <2>1, <2>2, <2>3
<1>7. ASSUME NEW s \in Slots, Connect(s) \/ ConnectRefused(s) PROVE Counted'
  <2>1. PICK state \in {"connecting", "connected", "aborted"} :
          endpoint' = [endpoint EXCEPT ![socket_table[s].ep].state = state]
    BY <1>7 DEF Connect, ConnectRefused
  <2> QED BY <1>1, <2>1, ProviderUpdates
<1>8. ASSUME NEW s \in Slots, NEW k \in 1 .. MaxData, RecvData(s, k) PROVE Counted'
  BY <1>1, <1>8, ProviderUpdates DEF RecvData, Unread
<1>9. ASSUME NEW s \in Slots, RecvFrom(s) PROVE Counted'
  <2>1. socket_table[s].ep \in Endpoints
    BY <1>9, Held DEF RecvFrom
  <2>2. 1 \in 1 .. endpoint[socket_table[s].ep].inbox
    BY <1>1, <1>9, <2>1 DEF RecvFrom, Unread, Admitting, Provider
  <2> QED BY <1>1, <1>9, <2>2, ProviderUpdates DEF RecvFrom
<1>10. ASSUME NEW s \in Slots, Close(s) PROVE Counted'
  <2>1. socket_table[s].ep \in Endpoints
    BY <1>10, Held DEF Close
  <2> QED BY <1>1, <1>10, <2>1, ProviderClosed DEF Close, OTCloseProvider
<1>11. CASE Return
  <2>1. UNCHANGED endpoint \/ call.s \in Slots
    BY <1>11 DEF Return, InstallNotifier, AcceptDone, ConnectDone, RecvDone, Wellformed, CallInUse,
                 InUse
  <2>2. \/ UNCHANGED endpoint
        \/ endpoint' = [endpoint EXCEPT ![socket_table[call.s].ep].notify = call.s]
    BY <1>11 DEF Return, InstallNotifier, AcceptDone, ConnectDone, RecvDone
  <2>3. CASE UNCHANGED endpoint
    BY <1>1, <2>3
  <2>4. CASE call.s \in Slots /\ endpoint' = [endpoint EXCEPT ![socket_table[call.s].ep].notify = call.s]
    BY <1>1, <2>4, ProviderUpdates
  <2> QED BY <2>1, <2>2, <2>3, <2>4
<1>12. ASSUME NEW e \in Endpoints, Network(e) PROVE Counted'
  <2>1. CASE Arrive(e)
    BY <1>1, <2>1, ProviderUpdates DEF Arrive
  <2>2. CASE Caller(e)
    BY <1>1, <2>2, ProviderUpdates DEF Caller
  <2>3. CASE Established(e)
    BY <1>1, <2>3, ProviderUpdates DEF Established
  <2>4. CASE Release(e)
    BY <1>1, <2>4, ProviderUpdates DEF Release
  <2>5. CASE Abort(e)
    BY <1>1, <2>5, ProviderUpdates DEF Abort
  <2>6. CASE GoData(e)
    BY <1>1, <2>6 DEF GoData
  <2> QED BY <1>12, <2>1, <2>2, <2>3, <2>4, <2>5, <2>6 DEF Network
<1>13. ASSUME UNCHANGED endpoint PROVE Counted'
  BY <1>1, <1>13
<1>14. ASSUME NEW s \in Slots,
              SocketFails(s) \/ \E value \in BOOLEAN : SetNonblocking(s, value)
       PROVE  UNCHANGED endpoint
  BY <1>14 DEF SocketFails, SetNonblocking
<1>15. CASE AnyCall
  BY <1>2, <1>3, <1>5, <1>6, <1>7, <1>8, <1>9, <1>10, <1>13, <1>14, <1>15 DEF AnyCall
<1> QED BY <1>11, <1>12, <1>13, <1>15 DEF Next, vars

\* A call that is half done has its socket, until it is done: no other call can close it.
LEMMA CallStep ==
  ASSUME Wellformed, [Next]_vars
  PROVE  call' \in Calls /\ CallInUse'
<1> USE DEF Wellformed, TypeOK, CallInUse, Calls, NoCall, Idle
<1>1. ASSUME UNCHANGED call, Kept PROVE call' \in Calls /\ CallInUse'
  BY <1>1 DEF Kept
<1>2. ASSUME call' = NoCall PROVE call' \in Calls /\ CallInUse'
  BY <1>2
<1>3. ASSUME Idle, UNCHANGED call PROVE call' = NoCall
  BY <1>3
<1>4. CASE Return
  <2>1. ASSUME NEW installed \in BOOLEAN, InstallNotifier(installed)
        PROVE call' \in Calls /\ CallInUse'
    BY <2>1 DEF InstallNotifier, InUse
  <2>2. CASE AcceptDone \/ ConnectDone \/ RecvDone
    BY <1>2, <2>2 DEF AcceptDone, ConnectDone, RecvDone
  <2> QED BY <1>4, <2>1, <2>2 DEF Return
<1>5. ASSUME NEW e \in Endpoints, Network(e) PROVE call' \in Calls /\ CallInUse'
  BY <1>1, <1>5, NetworkKeeps
     DEF Network, Arrive, Caller, Established, Release, Abort, GoData
<1>6. ASSUME NEW s \in Slots, NEW n \in Slots, AcceptConnection(s, n)
      PROVE call' \in Calls /\ CallInUse'
  <2>1. n \in InUse'
    BY <1>6, OpenTakes DEF Taken
  <2> QED BY <1>6, <2>1 DEF AcceptConnection
<1>7. ASSUME NEW s \in Slots, Connect(s) \/ \E k \in 1 .. MaxData : RecvData(s, k)
      PROVE call' \in Calls /\ CallInUse'
  <2>1. Kept
    BY <1>7, CallKeeps
  <2>2. s \in InUse
    BY <1>7 DEF Connect, CanConnect, RecvData, get_socket
  <2>3. call' = NoCall \/ call' = [op |-> "connect", s |-> s] \/ call' = [op |-> "recv", s |-> s]
    BY <1>7 DEF Connect, RecvData
  <2> QED BY <2>1, <2>2, <2>3 DEF Kept
<1>8. CASE AnyCall
  <2>1. ASSUME NEW s \in Slots,
               \/ \E type \in Types : Socket(s, type)
               \/ SocketFails(s) \/ Bind(s) \/ Listen(s) \/ ListenFails(s)
               \/ \E value \in BOOLEAN : SetNonblocking(s, value)
               \/ AcceptNoSlot(s)
               \/ \E n \in Slots : AcceptNoEndpoint(s, n) \/ AcceptRefused(s, n)
               \/ ConnectRefused(s) \/ RecvFrom(s) \/ Close(s)
        PROVE  call' = NoCall
    BY <2>1 DEF Socket, SocketFails, Bind, Listen, ListenFails, SetNonblocking, AcceptNoSlot,
                AcceptNoEndpoint, AcceptRefused, OTListen, ConnectRefused, CanConnect, RecvFrom,
                Close
  <2> QED BY <1>2, <1>6, <1>7, <1>8, <2>1 DEF AnyCall
<1> QED BY <1>1, <1>4, <1>5, <1>8 DEF Next, vars, Kept, InUse

\* Types, the pairing, and the half-done call together are inductive.
LEMMA WellformedStep == Wellformed /\ [Next]_vars => Wellformed'
BY TableStep, EndpointStep, CallStep, StepKinds, OwnersKept DEF Wellformed, TypeOK, Counted, Admitting

\* No slot is in use at the start, and no endpoint is open.
LEMMA WellformedInit == Init => Wellformed
<1> SUFFICES ASSUME Init PROVE Wellformed
  OBVIOUS
<1>1. TypeOK
  BY SocketAssumption DEF Init, TypeOK, Zeroed, Entry, ClosedProvider, Provider, NoCall, Calls
<1>2. InUse = {}
  BY DEF Init, Zeroed, InUse
<1>3. Counted
  BY SocketAssumption, ProviderClosed DEF Init, Counted
<1>4. Owners /\ CallInUse
  BY <1>2 DEF Init, Owners, CallInUse, ClosedProvider, NoCall
<1> QED BY <1>1, <1>3, <1>4 DEF Wellformed

\* Types, the pairing and the half-done call hold in every state.
LEMMA Invariance == Spec => []Wellformed
BY WellformedInit, WellformedStep, PTL DEF Spec

\* Slots, endpoints and the call under way keep their types, with any number of slots.
THEOREM TypeCorrect == Spec => []TypeOK
BY Invariance, PTL DEF Wellformed

-----------------------------------------------------------------------------
(* Refinement *)

\* With endpoints and sockets one to one, the pairs are the sockets in use and their endpoints.
LEMMA PairsAreHeld == Owners => Pairs = {<<s, socket_table[s].ep>> : s \in InUse}
<1> SUFFICES ASSUME Owners PROVE Pairs = {<<s, socket_table[s].ep>> : s \in InUse}
  OBVIOUS
<1>1. Open \ Owned = {}
  BY DEF Owners, Open, Owned
<1>2. \A e \in Endpoints : endpoint[e].notify # NoSlot =>
        \E s \in InUse : <<endpoint[e].notify, e>> = <<s, socket_table[s].ep>>
  BY DEF Owners
<1> QED BY <1>1, <1>2 DEF Pairs

\* The same after a step.
LEMMA NextPairsAreHeld == Owners' => Pairs' = {<<s, socket_table'[s].ep>> : s \in InUse'}
<1> SUFFICES ASSUME Owners' PROVE Pairs' = {<<s, socket_table'[s].ep>> : s \in InUse'}
  OBVIOUS
<1>1. Open' \ Owned' = {}
  BY DEF Owners, Open, Owned
<1>2. \A e \in Endpoints : endpoint'[e].notify # NoSlot =>
        \E s \in InUse' : <<endpoint'[e].notify, e>> = <<s, socket_table'[s].ep>>
  BY DEF Owners
<1> QED BY <1>1, <1>2 DEF Pairs

\* Every step opens a handle, closes one, or leaves the table of handles alone.
LEMMA StepRefines == Wellformed /\ [Next]_vars => [Table!Next]_(Table!vars)
<1> SUFFICES ASSUME Wellformed, [Next]_vars PROVE Table!Next \/ Pairs' = Pairs
  BY DEF Table!vars
<1>1. Pairs = {<<s, socket_table[s].ep>> : s \in InUse}
  BY PairsAreHeld DEF Wellformed
<1>2. Pairs' = {<<s, socket_table'[s].ep>> : s \in InUse'}
  <2>1. Owners'
    BY StepKinds, OwnersKept
  <2> QED BY <2>1, NextPairsAreHeld
<1>3. CASE Kept
  BY <1>1, <1>2, <1>3 DEF Kept
<1>4. ASSUME NEW s \in Slots, NEW e \in Endpoints, Taken(s, e) PROVE Table!Open(s, e)
  <2>1. \A t \in InUse : t # s /\ socket_table[t].ep # e
    BY <1>4 DEF Taken, Wellformed, Owners
  <2>2. \A p \in Pairs : p[1] # s /\ p[2] # e
    BY <1>1, <2>1
  <2>3. Pairs' = Pairs \cup {<<s, e>>}
    BY <1>1, <1>2, <1>4 DEF Taken
  <2> QED BY <2>2, <2>3 DEF Table!Open
<1>5. ASSUME NEW s \in Slots, NEW e \in Endpoints, Given(s, e) PROVE Table!Close(s, e)
  <2>1. <<s, e>> \in Pairs
    BY <1>1, <1>5 DEF Given
  <2>2. Pairs' = Pairs \ {<<s, e>>}
    BY <1>1, <1>2, <1>5 DEF Given
  <2> QED BY <2>1, <2>2 DEF Table!Close
<1>6. ASSUME NEW s \in Slots, NEW e \in Endpoints, Contexted(s, e) PROVE Pairs' = Pairs
  BY <1>1, <1>2, <1>6 DEF Contexted
<1> QED BY <1>3, <1>4, <1>5, <1>6, StepKinds DEF OneOf, Table!Next

\* The library starts without handles.
LEMMA InitRefines == Init => Table!Init
<1> SUFFICES ASSUME Init PROVE Pairs = {}
  BY DEF Table!Init
<1>1. InUse = {}
  BY DEF Init, Zeroed, InUse
<1> QED BY <1>1, WellformedInit, PairsAreHeld DEF Wellformed

\* Socket numbers are handles of endpoints, however many there are: no call, failed or not, loses
\* or shares one, and no notifier outlives its socket.
THEOREM Refinement == Spec => ImplementsHandles
BY Invariance, InitRefines, StepRefines, PTL DEF Spec, ImplementsHandles, Table!Spec

-----------------------------------------------------------------------------
(* The flags *)

\* What an event changes in the entries.
LEMMA NoticedFields ==
  ASSUME Wellformed, NEW e \in Endpoints, NEW event, socket_notifier(e, event), NEW s \in Slots
  PROVE  /\ socket_table'[s].inUse = socket_table[s].inUse
         /\ socket_table'[s].ep = socket_table[s].ep
         /\ socket_table'[s].type = socket_table[s].type
         /\ socket_table'[s].listening = socket_table[s].listening
         /\ socket_table'[s].nonblocking = socket_table[s].nonblocking
         /\ socket_table'[s].readable =>
              \/ socket_table[s].readable
              \/ endpoint[e].notify = s /\ event \in {"T_DATA", "T_LISTEN"}
         /\ socket_table[s].connected =>
              \/ socket_table'[s].connected
              \/ endpoint[e].notify = s /\ event \in {"T_DISCONNECT", "T_ORDREL"}
         /\ endpoint[e].notify = s /\ event = "T_CONNECT" => socket_table'[s].connected
<1>1. socket_table \in [Slots -> Entry] /\ socket_table[s] \in Entry
  BY DEF Wellformed, TypeOK
<1>2. CASE endpoint[e].notify = s
  <2>1. socket_table'[s] = Noticed(socket_table[s], event)
    BY <1>1, <1>2 DEF socket_notifier, Slots, NoSlot
  <2> QED BY <1>1, <1>2, <2>1 DEF Noticed, Entry
<1>3. CASE endpoint[e].notify # s
  BY <1>1, <1>3 DEF socket_notifier
<1> QED BY <1>2, <1>3

\* An interrupt keeps the flags true.
LEMMA NetworkFlags == ASSUME IInv, NEW e \in Endpoints, Network(e) PROVE Flags'
<1>1. /\ socket_table \in [Slots -> Entry] /\ endpoint \in [Endpoints -> Provider]
      /\ Wellformed /\ Owners /\ Flags
  BY DEF IInv, Wellformed, TypeOK
<1>2. Kept /\ UNCHANGED call
  BY <1>1, NetworkKeeps DEF Network, Arrive, Caller, Established, Release, Abort, GoData
<1>3. InUse \subseteq Slots
  BY DEF InUse
<1> USE DEF Flags, Notified, Known, QueueListens, Meaningful, Owners, Kept, OTState, Unread, Provider
<1>4. CASE Arrive(e)
  <2>1. CASE endpoint[e].inbox = 0
    <3>1. socket_notifier(e, "T_DATA")
      BY <1>4, <2>1 DEF Arrive
    <3>2. Notified'
      BY <1>1, <1>2, <1>3, <1>4, <2>1, <3>1, NoticedFields DEF Arrive
    <3>3. Known'
      BY <1>1, <1>2, <1>3, <1>4, <2>1, <3>1, NoticedFields DEF Arrive
    <3>4. QueueListens'
      BY <1>1, <1>2, <1>3, <1>4, <2>1, <3>1, NoticedFields DEF Arrive
    <3>5. Meaningful'
      <4> SUFFICES ASSUME NEW s \in InUse', socket_table'[s].readable,
                          ~ (call.op = "recv" /\ call.s = s)
                   PROVE  \/ socket_table'[s].listening \/ socket_table'[s].type = "dgram"
                          \/ Unread(s)' > 0 \/ OTState(s)' \in {"ended", "aborted"}
        BY <1>2
      <4>1. s \in InUse /\ socket_table'[s].ep = socket_table[s].ep
        BY <1>2
      <4>2. CASE socket_table[s].ep = e
        BY <1>1, <1>4, <2>1, <4>1, <4>2 DEF Arrive
      <4>3. CASE socket_table[s].ep # e
        <5>1. socket_table[s].readable
          BY <1>1, <1>3, <3>1, <4>1, <4>3, NoticedFields DEF NoSlot, Slots
        <5>2. endpoint'[socket_table[s].ep] = endpoint[socket_table[s].ep]
          BY <1>1, <1>4, <4>1, <4>3 DEF Arrive
        <5> QED BY <1>1, <1>3, <3>1, <4>1, <5>1, <5>2, NoticedFields
      <4> QED BY <4>2, <4>3
    <3> QED BY <3>2, <3>3, <3>4, <3>5
  <2>2. CASE endpoint[e].inbox # 0
    BY <1>1, <1>2, <1>3, <1>4, <2>2 DEF Arrive
  <2> QED BY <2>1, <2>2
<1>5. CASE Caller(e)
  <2>1. socket_notifier(e, "T_LISTEN")
    BY <1>5 DEF Caller
  <2> QED BY <1>1, <1>2, <1>3, <1>5, <2>1, NoticedFields DEF Caller
<1>6. CASE Established(e)
  <2>1. socket_notifier(e, "T_CONNECT")
    BY <1>6 DEF Established
  <2> QED BY SMTT(40), <1>1, <1>2, <1>3, <1>6, <2>1, NoticedFields DEF Established
<1>7. CASE Release(e)
  <2>1. socket_notifier(e, "T_ORDREL")
    BY <1>7 DEF Release
  <2>2. Notified'
    BY <1>1, <1>2, <1>3, <1>7, <2>1, NoticedFields DEF Release
  <2>3. Known'
    <3> SUFFICES ASSUME NEW s \in InUse', OTState(s)' = "connected"
                 PROVE  socket_table'[s].connected \/ (call.op \in {"connect", "accepted", "noted"} /\ call.s = s)
      BY <1>2
    <3>1. socket_table[s].ep # e /\ OTState(s) = "connected" /\ s \in InUse
      BY <1>1, <1>2, <1>7 DEF Release
    <3>2. endpoint[e].notify # s
      BY <1>1, <3>1, <1>3 DEF NoSlot, Slots
    <3> QED BY <1>1, <1>3, <2>1, <3>1, <3>2, NoticedFields
  <2>4. QueueListens'
    BY <1>1, <1>2, <1>3, <1>7, <2>1, NoticedFields DEF Release
  <2>5. Meaningful'
    BY <1>1, <1>2, <1>3, <1>7, <2>1, NoticedFields DEF Release
  <2> QED BY <2>2, <2>3, <2>4, <2>5
<1>8. CASE Abort(e)
  <2>1. socket_notifier(e, "T_DISCONNECT")
    BY <1>8 DEF Abort
  <2>2. Notified'
    BY <1>1, <1>2, <1>3, <1>8, <2>1, NoticedFields DEF Abort
  <2>3. Known'
    <3> SUFFICES ASSUME NEW s \in InUse', OTState(s)' = "connected"
                 PROVE  socket_table'[s].connected \/ (call.op \in {"connect", "accepted", "noted"} /\ call.s = s)
      BY <1>2
    <3>1. socket_table[s].ep # e /\ OTState(s) = "connected" /\ s \in InUse
      BY <1>1, <1>2, <1>8 DEF Abort
    <3>2. endpoint[e].notify # s
      BY <1>1, <3>1, <1>3 DEF NoSlot, Slots
    <3> QED BY <1>1, <1>3, <2>1, <3>1, <3>2, NoticedFields
  <2>4. QueueListens'
    BY <1>1, <1>2, <1>3, <1>8, <2>1, NoticedFields DEF Abort
  <2>5. Meaningful'
    BY <1>1, <1>2, <1>3, <1>8, <2>1, NoticedFields DEF Abort
  <2> QED BY <2>2, <2>3, <2>4, <2>5
<1>9. CASE GoData(e)
  <2>1. socket_notifier(e, "T_GODATA")
    BY <1>9 DEF GoData
  <2> QED BY <1>1, <1>2, <1>3, <1>9, <2>1, NoticedFields DEF GoData
<1> QED BY <1>4, <1>5, <1>6, <1>7, <1>8, <1>9 DEF Network

\* A socket that is being accepted stays without a type: of the steps there can be meanwhile, the
\* interrupts do not set it.
LEMMA UntypedStep == IInv /\ [Next]_vars => Untyped'
<1> SUFFICES ASSUME IInv, [Next]_vars PROVE Untyped'
  OBVIOUS
<1>1. /\ socket_table \in [Slots -> Entry] /\ Wellformed /\ CallInUse /\ call \in Calls /\ Untyped
  BY DEF IInv, Wellformed, TypeOK
<1> USE DEF Untyped, Idle, NoCall, Calls
<1>2. CASE UNCHANGED vars
  BY <1>1, <1>2 DEF vars
<1>3. CASE Return
  BY SMTT(40), <1>1, <1>3 DEF Return, InstallNotifier, AcceptDone, ConnectDone, RecvDone
<1>4. ASSUME NEW e \in Endpoints, Network(e) PROVE Untyped'
  <2>1. UNCHANGED call
    BY <1>4 DEF Network, Arrive, Caller, Established, Release, Abort, GoData
  <2>2. CASE UNCHANGED socket_table
    BY <1>1, <2>1, <2>2
  <2>3. ASSUME NEW event, socket_notifier(e, event) PROVE Untyped'
    BY <1>1, <2>1, <2>3, NoticedFields DEF CallInUse, InUse
  <2> QED BY <1>4, <2>2, <2>3 DEF Network, Arrive, Caller, Established, Release, Abort, GoData
<1>5. ASSUME NEW s \in Slots, NEW n \in Slots, AcceptConnection(s, n) PROVE Untyped'
  <2>1. PICK e \in Endpoints :
          socket_table' = [socket_table EXCEPT ![n] = [AllocatedEntry(n) EXCEPT !.ep = e]]
    BY <1>5 DEF AcceptConnection
  <2>2. [AllocatedEntry(n) EXCEPT !.ep = e].type = "none"
    BY AllocatedFields DEF Entry
  <2> QED BY <1>1, <1>5, <2>1, <2>2 DEF AcceptConnection
<1>6. CASE AnyCall
  <2>1. ASSUME NEW s \in Slots, NEW n \in Slots, NEW type \in Types, NEW value \in BOOLEAN,
               \/ Socket(s, type) \/ SocketFails(s) \/ Bind(s) \/ Listen(s) \/ ListenFails(s)
               \/ SetNonblocking(s, value) \/ AcceptNoSlot(s) \/ AcceptNoEndpoint(s, n)
               \/ AcceptRefused(s, n) \/ ConnectRefused(s) \/ RecvFrom(s) \/ Close(s)
        PROVE  call' = NoCall
    BY <2>1 DEF Socket, SocketFails, Bind, Listen, ListenFails, SetNonblocking, AcceptNoSlot,
                AcceptNoEndpoint, AcceptRefused, OTListen, ConnectRefused, CanConnect, RecvFrom,
                Close
  <2>2. ASSUME NEW s \in Slots, NEW k \in 1 .. MaxData, Connect(s) \/ RecvData(s, k)
        PROVE  call'.op \in {"none", "connect", "recv"}
    BY <2>2 DEF Connect, RecvData
  <2>3. call' = NoCall => Untyped'
    OBVIOUS
  <2>4. call'.op \in {"none", "connect", "recv"} => Untyped'
    OBVIOUS
  <2>5. "stream" \in Types /\ TRUE \in BOOLEAN /\ 1 \in 1 .. MaxData
    BY SocketAssumption DEF Types
  <2> HIDE DEF Untyped
  <2> QED BY <1>5, <1>6, <2>1, <2>2, <2>3, <2>4, <2>5 DEF AnyCall
<1> QED BY <1>2, <1>3, <1>4, <1>6 DEF Next

\* Every step keeps the flags true.
LEMMA FlagsStep == IInv /\ [Next]_vars => Flags'
<1> SUFFICES ASSUME IInv, [Next]_vars PROVE Flags'
  OBVIOUS
<1>1. /\ socket_table \in [Slots -> Entry] /\ endpoint \in [Endpoints -> Provider]
      /\ call \in Calls /\ Owners /\ CallInUse /\ Untyped /\ Flags
  BY DEF IInv, Wellformed, TypeOK
<1> USE DEF Flags, Notified, Known, QueueListens, Meaningful, Owners, CallInUse, InUse, OTState,
            Unread, Idle, NoCall, Calls, Entry, Provider, get_socket
<1>2. ASSUME NEW s \in Slots, NEW type \in Types, Socket(s, type) PROVE Flags'
  <2>0. /\ s \notin InUse
        /\ \E e \in Endpoints :
             /\ endpoint[e].state = "closed"
             /\ OpenEndpoint(e, s)
             /\ socket_table' = [socket_table EXCEPT
                  ![s] = [AllocatedEntry(s) EXCEPT !.ep = e, !.type = type, !.writable = TRUE]]
        /\ UNCHANGED call /\ Idle
        /\ AllocatedEntry(s) \in Entry /\ AllocatedEntry(s).readable = FALSE
    BY <1>2, AllocatedFields DEF Socket, Allocated
  <2>1. Notified'
    BY <1>1, <2>0 DEF OpenEndpoint, Slots, NoSlot
  <2>2. Known'
    BY <1>1, <2>0 DEF OpenEndpoint
  <2>3. QueueListens'
    BY <1>1, <2>0 DEF OpenEndpoint
  <2>4. Meaningful'
    BY <1>1, <2>0 DEF OpenEndpoint
  <2> QED BY <2>1, <2>2, <2>3, <2>4 DEF Flags
<1>3. ASSUME NEW s \in Slots, SocketFails(s) PROVE Flags'
  BY <1>1, <1>3, AllocatedFields DEF SocketFails, AllocateAndFree, Allocated
<1>4. ASSUME NEW s \in Slots, Bind(s) PROVE Flags'
  BY <1>1, <1>4 DEF Bind
<1>5. ASSUME NEW s \in Slots, Listen(s) PROVE Flags'
  <2>1. Notified'
    BY <1>1, <1>5 DEF Listen
  <2>2. Known'
    BY <1>1, <1>5 DEF Listen
  <2>3. QueueListens'
    BY <1>1, <1>5 DEF Listen
  <2>4. Meaningful'
    BY <1>1, <1>5 DEF Listen
  <2> QED BY <2>1, <2>2, <2>3, <2>4 DEF Flags
<1>6. ASSUME NEW s \in Slots, ListenFails(s) PROVE Flags'
  <2>1. Notified'
    BY <1>1, <1>6 DEF ListenFails
  <2>2. Known'
    BY <1>1, <1>6 DEF ListenFails
  <2>3. QueueListens'
    BY <1>1, <1>6 DEF ListenFails
  <2>4. Meaningful'
    BY <1>1, <1>6 DEF ListenFails
  <2> QED BY <2>1, <2>2, <2>3, <2>4 DEF Flags
<1>7. ASSUME NEW s \in Slots, NEW value \in BOOLEAN, SetNonblocking(s, value) PROVE Flags'
  BY <1>1, <1>7 DEF SetNonblocking
<1>8. ASSUME NEW s \in Slots, AcceptNoSlot(s) PROVE Flags'
  BY <1>1, <1>8 DEF AcceptNoSlot, OTListen, TakenFrom
<1>9. ASSUME NEW s \in Slots, NEW n \in Slots, AcceptNoEndpoint(s, n) PROVE Flags'
  BY <1>1, <1>9, AllocatedFields DEF AcceptNoEndpoint, OTListen, TakenFrom, AllocateAndFree, Allocated
<1>10. ASSUME NEW s \in Slots, NEW n \in Slots, AcceptRefused(s, n) PROVE Flags'
  <2>1. Notified'
    BY <1>1, <1>10, AllocatedFields DEF AcceptRefused, OTListen, TakenFrom, AllocateAndFree, Allocated
  <2>2. Known'
    BY <1>1, <1>10, AllocatedFields DEF AcceptRefused, OTListen, TakenFrom, AllocateAndFree, Allocated
  <2>3. QueueListens'
    BY <1>1, <1>10, AllocatedFields DEF AcceptRefused, OTListen, TakenFrom, AllocateAndFree, Allocated
  <2>4. Meaningful'
    BY SMTT(40), <1>1, <1>10, AllocatedFields DEF AcceptRefused, OTListen, TakenFrom, AllocateAndFree, Allocated
  <2> QED BY <2>1, <2>2, <2>3, <2>4 DEF Flags
<1>11. ASSUME NEW s \in Slots, NEW n \in Slots, AcceptConnection(s, n) PROVE Flags'
  <2>1. Notified'
    BY <1>1, <1>11, AllocatedFields DEF AcceptConnection, OTListen, TakenFrom, Allocated
  <2>2. Known'
    BY <1>1, <1>11, AllocatedFields DEF AcceptConnection, OTListen, TakenFrom, Allocated
  <2>3. QueueListens'
    BY <1>1, <1>11, AllocatedFields DEF AcceptConnection, OTListen, TakenFrom, Allocated
  <2>4. Meaningful'
    <3>1. PICK e \in Endpoints :
            /\ endpoint[e].state = "closed"
            /\ endpoint' = [TakenFrom(socket_table[s].ep) EXCEPT ![e].state = "connected"]
            /\ socket_table' = [socket_table EXCEPT ![n] = [AllocatedEntry(n) EXCEPT !.ep = e]]
      BY <1>11 DEF AcceptConnection
    <3>2. ~socket_table'[n].readable
      <4>1. [AllocatedEntry(n) EXCEPT !.ep = e].readable = FALSE
        BY AllocatedFields
      <4> QED BY <1>1, <3>1, <4>1
    <3>3. \A f \in Endpoints \ {e} : /\ endpoint'[f].inbox = endpoint[f].inbox
                                     /\ endpoint'[f].state = endpoint[f].state
      BY <1>1, <3>1 DEF TakenFrom
    <3>4. \A t \in InUse' : t # n => t \in InUse /\ socket_table'[t] = socket_table[t]
      BY <1>1, <3>1
    <3>5. Idle
      BY <1>11 DEF AcceptConnection, OTListen
    <3> QED BY <1>1, <3>1, <3>2, <3>3, <3>4, <3>5
  <2> QED BY <2>1, <2>2, <2>3, <2>4 DEF Flags
<1>12. ASSUME NEW s \in Slots, Connect(s) \/ ConnectRefused(s) PROVE Flags'
  <2>1. CASE ConnectRefused(s)
    BY <1>1, <2>1 DEF ConnectRefused, CanConnect
  <2>2. CASE Connect(s)
    <3>1. PICK state \in {"connecting", "connected"} :
            /\ endpoint' = [endpoint EXCEPT ![socket_table[s].ep].state = state]
            /\ state = "connected" => call' = [op |-> "connect", s |-> s]
      BY <2>2 DEF Connect
    <3>2. OTState(s) \in {"unbound", "bound"} /\ UNCHANGED socket_table /\ Idle /\ s \in InUse
      BY <2>2 DEF Connect, CanConnect
    <3>3. Notified'
      BY <1>1, <3>1, <3>2
    <3>4. Known'
      BY <1>1, <3>1, <3>2
    <3>5. QueueListens'
      BY <1>1, <3>1, <3>2
    <3>6. Meaningful'
      BY <1>1, <3>1, <3>2
    <3> QED BY <3>3, <3>4, <3>5, <3>6
  <2> QED BY <1>12, <2>1, <2>2
<1>13. ASSUME NEW s \in Slots, NEW k \in 1 .. MaxData, RecvData(s, k) PROVE Flags'
  BY <1>1, <1>13 DEF RecvData
<1>14. ASSUME NEW s \in Slots, RecvFrom(s) PROVE Flags'
  BY <1>1, <1>14 DEF RecvFrom
<1>15. ASSUME NEW s \in Slots, Close(s) PROVE Flags'
  BY <1>1, <1>15 DEF Close, free_socket, OTCloseProvider, ClosedProvider
<1>16. CASE Return
  <2>1. ASSUME NEW installed \in BOOLEAN, InstallNotifier(installed) PROVE Flags'
    BY SMTT(40), <1>1, <2>1 DEF InstallNotifier
  <2>2. CASE AcceptDone
    <3>1. Notified'
      BY <1>1, <2>2 DEF AcceptDone
    <3>2. Known'
      BY <1>1, <2>2 DEF AcceptDone
    <3>3. QueueListens'
      BY <1>1, <2>2 DEF AcceptDone
    <3>4. Meaningful'
      BY SMTT(40), <1>1, <2>2 DEF AcceptDone, Untyped
    <3> QED BY <3>1, <3>2, <3>3, <3>4 DEF Flags
  <2>3. CASE ConnectDone
    BY <1>1, <2>3 DEF ConnectDone
  <2>4. CASE RecvDone
    BY <1>1, <2>4 DEF RecvDone
  <2> QED BY <1>16, <2>1, <2>2, <2>3, <2>4 DEF Return
<1>17. CASE UNCHANGED vars
  BY <1>1, <1>17 DEF vars
<1>18. ASSUME NEW e \in Endpoints, Network(e) PROVE Flags'
  BY <1>18, NetworkFlags
<1> HIDE DEF Flags
<1>19. CASE AnyCall
  BY <1>2, <1>3, <1>4, <1>5, <1>6, <1>7, <1>8, <1>9, <1>10, <1>11, <1>12, <1>13, <1>14, <1>15, <1>19
     DEF AnyCall
<1> QED BY <1>16, <1>17, <1>18, <1>19 DEF Next

\* No flag is set at the start.
LEMMA FlagsInit == Init => Flags
<1> SUFFICES ASSUME Init PROVE Flags
  OBVIOUS
<1>1. InUse = {}
  BY DEF Init, Zeroed, InUse
<1> QED BY <1>1 DEF Init, Flags, Notified, Known, QueueListens, Meaningful, ClosedProvider

\* The conjunction of types, pairing and flags is inductive.
LEMMA FlagsInvariance == Spec => []IInv
<1>1. Init => IInv
  BY WellformedInit, FlagsInit DEF IInv, Init, Untyped, NoCall
<1>2. IInv /\ [Next]_vars => IInv'
  BY WellformedStep, UntypedStep, FlagsStep DEF IInv
<1> QED BY <1>1, <1>2, PTL DEF Spec

\* What select reports of a stream is true whenever a call can be made, with any number of sockets
\* and however much comes at interrupt time.
THEOREM ReadyIsTrue == Spec => []NoFalseReady
<1>1. IInv => NoFalseReady
  <2> SUFFICES ASSUME IInv, Idle, NEW s \in SelectedRead(Slots)
               PROVE  \/ socket_table[s].listening
                      \/ socket_table[s].type = "dgram"
                      \/ Unread(s) > 0
                      \/ OTState(s) # "connected"
    BY DEF NoFalseReady
  <2>1. s \in InUse /\ (socket_table[s].readable \/ socket_table[s].listening)
    BY DEF SelectedRead
  <2> QED BY <2>1 DEF IInv, Flags, Meaningful, Idle, NoCall
<1> QED BY <1>1, FlagsInvariance, PTL

\* A connection that is up is marked so whenever a call can be made.
THEOREM UpIsKnown == Spec => []UpIsConnected
<1>1. IInv => UpIsConnected
  BY DEF IInv, Flags, Known, UpIsConnected, Idle, NoCall
<1> QED BY <1>1, FlagsInvariance, PTL
=============================================================================
