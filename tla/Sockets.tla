------------------------------- MODULE Sockets -------------------------------
(***************************************************************************)
(* The socket table of src/src/posix9_socket.c over the endpoints of Open  *)
(* Transport.  One program calls; Open Transport interrupts it at any      *)
(* moment and tells socket_notifier of an event.  A call is therefore one  *)
(* step up to the last thing it asks of Open Transport, and a step for     *)
(* what it writes to the table after that, if the notifier writes the same *)
(* fields.                                                                 *)
(*                                                                         *)
(* A blocking call of Open Transport does not return before it has         *)
(* something to return, and nothing else runs meanwhile: its step is       *)
(* disabled.  Addresses, what is sent, asyncError (only getsockopt reads   *)
(* it) and hasOOB (the first expedited data sets it, nothing clears it)    *)
(* are left out; send, sendto, shutdown, select and the option calls leave *)
(* the rest of the table as it is.                                         *)
(***************************************************************************)
EXTENDS FiniteSets, Integers

CONSTANTS MaxSockets,  \* MAX_SOCKETS
          Endpoints,   \* the endpoints Open Transport can have open
          NoEndpoint,  \* kOTInvalidEndpointRef
          MaxData,     \* bound: what an endpoint holds unread
          MaxCallers   \* bound: the qlen, connections asked for and not answered

ASSUME SocketAssumption == /\ MaxSockets \in Nat \ {0}
                           /\ MaxData \in Nat \ {0}
                           /\ MaxCallers \in Nat \ {0}
                           /\ NoEndpoint \notin Endpoints

VARIABLES socket_table,
          endpoint,  \* Open Transport's side
          call       \* the call that an interrupt may find half done

vars == <<socket_table, endpoint, call>>

Slots == 0 .. MaxSockets - 1
NoSlot == -1
Types == {"stream", "dgram"}
Entry == [inUse : BOOLEAN, ep : Endpoints \cup {NoEndpoint}, type : Types \cup {"none"},
          bound : BOOLEAN, listening : BOOLEAN, connected : BOOLEAN, nonblocking : BOOLEAN,
          readable : BOOLEAN, writable : BOOLEAN]

\* The states of a provider, "ended" after an orderly release and "aborted" after a disconnect.
\* notify is the context its notifier was installed with.
Provider == [state : {"closed", "unbound", "bound", "queueing", "connecting", "connected",
                      "ended", "aborted"},
             inbox : 0 .. MaxData, callers : 0 .. MaxCallers, unanswered : 0 .. MaxCallers,
             notify : Slots \cup {NoSlot}]
ClosedProvider ==
  [state |-> "closed", inbox |-> 0, callers |-> 0, unanswered |-> 0, notify |-> NoSlot]

Calls == [op : {"none"}] \cup [op : {"recv", "connect", "accepted", "noted"}, s : Slots]
NoCall == [op |-> "none"]
Idle == call = NoCall

TypeOK == /\ socket_table \in [Slots -> Entry]
          /\ endpoint \in [Endpoints -> Provider]
          /\ call \in Calls

\* memset
Zeroed == [inUse |-> FALSE, ep |-> NoEndpoint, type |-> "none", bound |-> FALSE,
           listening |-> FALSE, connected |-> FALSE, nonblocking |-> FALSE,
           readable |-> FALSE, writable |-> FALSE]

Init == /\ socket_table = [s \in Slots |-> Zeroed]
        /\ endpoint = [e \in Endpoints |-> ClosedProvider]
        /\ call = NoCall

-----------------------------------------------------------------------------
(* The table *)

InUse == {s \in Slots : socket_table[s].inUse}

\* alloc_socket takes the lowest free slot.
Allocated(s) == s \in Slots \ InUse /\ \A i \in Slots \ InUse : s <= i

\* A mutant of AllocatedEntry below: the fields of the slot's last socket are kept.
AllocatedEntryKept(s) == [socket_table[s] EXCEPT !.inUse = TRUE]

AllocatedEntry(s) == [Zeroed EXCEPT !.inUse = TRUE]

free_socket(s) ==
  socket_table' = [socket_table EXCEPT ![s].inUse = FALSE, ![s].ep = NoEndpoint]

\* The failing ends of socket and accept: the slot is taken and given back.
AllocateAndFree(s) ==
  socket_table' = [socket_table EXCEPT ![s] = [AllocatedEntry(s) EXCEPT !.inUse = FALSE]]

get_socket(s) == s \in InUse
OTState(s) == endpoint[socket_table[s].ep].state

OTCloseProvider(e) == endpoint' = [endpoint EXCEPT ![e] = ClosedProvider]

-----------------------------------------------------------------------------
(* Sockets and their addresses *)

\* OTOpenEndpointInContext and OTInstallNotifier.
OpenEndpoint(e, s) == endpoint' = [endpoint EXCEPT ![e].state = "unbound", ![e].notify = s]

Socket(s, type) ==
  /\ Idle
  /\ Allocated(s)
  /\ \E e \in Endpoints :
       /\ endpoint[e].state = "closed"
       /\ OpenEndpoint(e, s)
       /\ socket_table' = [socket_table EXCEPT
            ![s] = [AllocatedEntry(s) EXCEPT !.ep = e, !.type = type, !.writable = TRUE]]
  /\ UNCHANGED call

\* There is no configuration, no endpoint, or no notifier for it; an endpoint is closed again.
SocketFails(s) ==
  /\ Idle
  /\ Allocated(s)
  /\ AllocateAndFree(s)
  /\ UNCHANGED <<endpoint, call>>

Bind(s) ==
  /\ Idle
  /\ get_socket(s)
  /\ OTState(s) = "unbound"
  /\ endpoint' = [endpoint EXCEPT ![socket_table[s].ep].state = "bound"]
  /\ socket_table' = [socket_table EXCEPT ![s].bound = TRUE]
  /\ UNCHANGED call

\* A bound socket is bound again, with a queue.  One that is not is marked all the same.
Listen(s) ==
  /\ Idle
  /\ get_socket(s)
  /\ socket_table[s].type = "stream"
  /\ LET e == socket_table[s].ep IN
       IF socket_table[s].bound
         THEN /\ OTState(s) \in {"unbound", "bound", "queueing"}
              /\ endpoint' = [endpoint EXCEPT ![e].state = "queueing", ![e].callers = 0,
                                              ![e].unanswered = 0]
         ELSE UNCHANGED endpoint
  /\ socket_table' = [socket_table EXCEPT ![s].listening = TRUE]
  /\ UNCHANGED call

\* OTUnbind has given up the address when OTBind fails; the flags stay.
ListenFails(s) ==
  /\ Idle
  /\ get_socket(s)
  /\ socket_table[s].type = "stream"
  /\ socket_table[s].bound
  /\ OTState(s) \in {"bound", "queueing"}
  /\ endpoint' = [endpoint EXCEPT ![socket_table[s].ep].state = "unbound",
                                  ![socket_table[s].ep].callers = 0,
                                  ![socket_table[s].ep].unanswered = 0]
  /\ UNCHANGED <<socket_table, call>>

\* fcntl(F_SETFL) and ioctl(FIONBIO)
SetNonblocking(s, value) ==
  /\ Idle
  /\ get_socket(s)
  /\ socket_table' = [socket_table EXCEPT ![s].nonblocking = value]
  /\ UNCHANGED <<endpoint, call>>

-----------------------------------------------------------------------------
(* accept.  OTListen waits for a caller, unless the socket does not block. *)

\* OTListen takes the caller l's queue has had longest.
OTListen(l) ==
  /\ Idle
  /\ get_socket(l)
  /\ socket_table[l].listening
  /\ OTState(l) = "queueing"
  /\ endpoint[socket_table[l].ep].callers > 0

TakenFrom(e) == [endpoint EXCEPT ![e].callers = @ - 1]

\* OTSndDisconnect sends the caller away: there is no free slot.
AcceptNoSlot(l) ==
  /\ OTListen(l)
  /\ InUse = Slots
  /\ endpoint' = TakenFrom(socket_table[l].ep)
  /\ UNCHANGED <<socket_table, call>>

\* The same, where no endpoint can be opened.
AcceptNoEndpoint(l, s) ==
  /\ OTListen(l)
  /\ Allocated(s)
  /\ AllocateAndFree(s)
  /\ endpoint' = TakenFrom(socket_table[l].ep)
  /\ UNCHANGED call

\* OTAccept fails.  Nobody answers the caller.
AcceptRefused(l, s) ==
  /\ OTListen(l)
  /\ Allocated(s)
  /\ AllocateAndFree(s)
  /\ LET e == socket_table[l].ep IN
       endpoint' = [TakenFrom(e) EXCEPT ![e].unanswered = @ + 1]
  /\ UNCHANGED call

\* OTAccept hands the caller to a new endpoint, that has no notifier yet.
AcceptConnection(l, s) ==
  /\ OTListen(l)
  /\ Allocated(s)
  /\ \E e \in Endpoints :
       /\ endpoint[e].state = "closed"
       /\ endpoint' = [TakenFrom(socket_table[l].ep) EXCEPT ![e].state = "connected"]
       /\ socket_table' = [socket_table EXCEPT ![s] = [AllocatedEntry(s) EXCEPT !.ep = e]]
  /\ call' = [op |-> "accepted", s |-> s]

\* What OTInstallNotifier returns is ignored.
InstallNotifier(installed) ==
  /\ call.op = "accepted"
  /\ endpoint' = IF installed
                   THEN [endpoint EXCEPT ![socket_table[call.s].ep].notify = call.s]
                   ELSE endpoint
  /\ call' = [call EXCEPT !.op = "noted"]
  /\ UNCHANGED socket_table

\* A mutant of AcceptDone below: the new socket is not marked connected.
AcceptDoneUnmarked ==
  /\ call.op = "noted"
  /\ socket_table' = [socket_table EXCEPT ![call.s].type = "stream", ![call.s].writable = TRUE]
  /\ call' = NoCall
  /\ UNCHANGED endpoint

AcceptDone ==
  /\ call.op = "noted"
  /\ socket_table' = [socket_table EXCEPT ![call.s].type = "stream", ![call.s].writable = TRUE,
                                          ![call.s].connected = TRUE]
  /\ call' = NoCall
  /\ UNCHANGED endpoint

-----------------------------------------------------------------------------
(* connect, recv, recvfrom, close *)

CanConnect(s) ==
  /\ Idle
  /\ get_socket(s)
  /\ socket_table[s].type = "stream"
  /\ OTState(s) \in {"unbound", "bound"}

\* OTConnect returns when the connection is there, or, on a socket that does not block, at once
\* with kOTNoDataErr.
Connect(s) ==
  /\ CanConnect(s)
  /\ LET reached == IF socket_table[s].nonblocking THEN "connecting" ELSE "connected" IN
       endpoint' = [endpoint EXCEPT ![socket_table[s].ep].state = reached]
  /\ call' = IF socket_table[s].nonblocking THEN NoCall ELSE [op |-> "connect", s |-> s]
  /\ UNCHANGED socket_table

\* The peer refuses.
ConnectRefused(s) ==
  /\ CanConnect(s)
  /\ ~socket_table[s].nonblocking
  /\ endpoint' = [endpoint EXCEPT ![socket_table[s].ep].state = "aborted"]
  /\ UNCHANGED <<socket_table, call>>

ConnectDone ==
  /\ call.op = "connect"
  /\ socket_table' = [socket_table EXCEPT ![call.s].connected = TRUE]
  /\ call' = NoCall
  /\ UNCHANGED endpoint

Unread(s) == endpoint[socket_table[s].ep].inbox

\* OTRcv returns k pieces of what there is.
RecvData(s, k) ==
  /\ Idle
  /\ get_socket(s)
  /\ socket_table[s].type = "stream"
  /\ OTState(s) \in {"connected", "ended"}
  /\ k \in 1 .. Unread(s)
  /\ endpoint' = [endpoint EXCEPT ![socket_table[s].ep].inbox = @ - k]
  /\ call' = [op |-> "recv", s |-> s]
  /\ UNCHANGED socket_table

RecvDone ==
  /\ call.op = "recv"
  /\ socket_table' = [socket_table EXCEPT ![call.s].readable = FALSE]
  /\ call' = NoCall
  /\ UNCHANGED endpoint

\* recv returns at once, with kOTNoDataErr (EAGAIN) or, the connection being down, kOTLookErr or
\* kOTOutStateErr (EAGAIN and EINVAL).  Neither changes anything.
RecvNothing(s) ==
  /\ Idle
  /\ get_socket(s)
  /\ Unread(s) = 0
  /\ socket_table[s].nonblocking \/ OTState(s) # "connected"

\* A datagram.  readable stays.
RecvFrom(s) ==
  /\ Idle
  /\ get_socket(s)
  /\ socket_table[s].type = "dgram"
  /\ Unread(s) > 0
  /\ endpoint' = [endpoint EXCEPT ![socket_table[s].ep].inbox = @ - 1]
  /\ UNCHANGED <<socket_table, call>>

\* A mutant of Close below: the endpoint stays open.
CloseSlotOnly(s) ==
  /\ Idle
  /\ get_socket(s)
  /\ free_socket(s)
  /\ UNCHANGED <<endpoint, call>>

\* posix9_close_socket.  A connection still up is broken off first.
Close(s) ==
  /\ Idle
  /\ get_socket(s)
  /\ OTCloseProvider(socket_table[s].ep)
  /\ free_socket(s)
  /\ UNCHANGED call

\* What select finds in its first pass over the sockets it is asked about.
SelectedRead(fds) == {s \in fds \cap InUse : socket_table[s].readable \/ socket_table[s].listening}

-----------------------------------------------------------------------------
(* The network, and the notifier, at interrupt time *)


Noticed(entry, event) ==
  [entry EXCEPT !.readable = @ \/ event \in {"T_DATA", "T_LISTEN"},
                !.writable = @ \/ event = "T_GODATA",
                !.connected = (@ \/ event = "T_CONNECT")
                                /\ event \notin {"T_DISCONNECT", "T_ORDREL"}]

socket_notifier(e, event) ==
  LET s == endpoint[e].notify IN
    socket_table' = IF s = NoSlot THEN socket_table
                                  ELSE [socket_table EXCEPT ![s] = Noticed(@, event)]

Receiving(e) ==
  \/ endpoint[e].state = "connected"
  \/ endpoint[e].state = "bound" /\ \E s \in InUse : /\ socket_table[s].ep = e
                                                     /\ socket_table[s].type = "dgram"

\* Open Transport says T_DATA of what comes to an empty endpoint, and not again before all is read.
Arrive(e) ==
  /\ Receiving(e)
  /\ endpoint[e].inbox < MaxData
  /\ endpoint' = [endpoint EXCEPT ![e].inbox = @ + 1]
  /\ IF endpoint[e].inbox = 0 THEN socket_notifier(e, "T_DATA") ELSE UNCHANGED socket_table
  /\ UNCHANGED call

\* A connection is asked for.
Caller(e) ==
  /\ endpoint[e].state = "queueing"
  /\ endpoint[e].callers + endpoint[e].unanswered < MaxCallers
  /\ endpoint' = [endpoint EXCEPT ![e].callers = @ + 1]
  /\ socket_notifier(e, "T_LISTEN")
  /\ UNCHANGED call

\* The connection that a socket did not wait for is there.
Established(e) ==
  /\ endpoint[e].state = "connecting"
  /\ endpoint' = [endpoint EXCEPT ![e].state = "connected"]
  /\ socket_notifier(e, "T_CONNECT")
  /\ UNCHANGED call

\* The peer has sent all it had.
Release(e) ==
  /\ endpoint[e].state = "connected"
  /\ endpoint' = [endpoint EXCEPT ![e].state = "ended"]
  /\ socket_notifier(e, "T_ORDREL")
  /\ UNCHANGED call

\* The connection breaks, and what has not been read is lost.
Abort(e) ==
  /\ endpoint[e].state \in {"connecting", "connected", "ended"}
  /\ endpoint' = [endpoint EXCEPT ![e].state = "aborted", ![e].inbox = 0]
  /\ socket_notifier(e, "T_DISCONNECT")
  /\ UNCHANGED call

\* Flow control ends.
GoData(e) ==
  /\ endpoint[e].state = "connected"
  /\ socket_notifier(e, "T_GODATA")
  /\ UNCHANGED <<endpoint, call>>

Network(e) == Arrive(e) \/ Caller(e) \/ Established(e) \/ Release(e) \/ Abort(e) \/ GoData(e)

Return == \/ \E installed \in BOOLEAN : InstallNotifier(installed)
          \/ AcceptDone \/ ConnectDone \/ RecvDone

\* Any program: it makes any call at any time.
AnyCall == \E s \in Slots :
             \/ \E type \in Types : Socket(s, type)
             \/ SocketFails(s) \/ Bind(s) \/ Listen(s) \/ ListenFails(s)
             \/ \E value \in BOOLEAN : SetNonblocking(s, value)
             \/ AcceptNoSlot(s)
             \/ \E n \in Slots : \/ AcceptNoEndpoint(s, n) \/ AcceptRefused(s, n)
                                 \/ AcceptConnection(s, n)
             \/ Connect(s) \/ ConnectRefused(s)
             \/ \E k \in 1 .. MaxData : RecvData(s, k)
             \/ RecvFrom(s) \/ Close(s)

Next == AnyCall \/ Return \/ \E e \in Endpoints : Network(e)

Spec == Init /\ [][Next]_vars

-----------------------------------------------------------------------------
(* Properties *)

Owned == {socket_table[s].ep : s \in InUse}
Open == {e \in Endpoints : endpoint[e].state # "closed"}

\* A socket in use, an endpoint nobody holds, and a notifier's context each are a pair.
Pairs == {<<s, socket_table[s].ep>> : s \in InUse}
           \cup {<<NoSlot, e>> : e \in Open \ Owned}
           \cup {<<endpoint[e].notify, e>> : e \in {f \in Endpoints : endpoint[f].notify # NoSlot}}

Table == INSTANCE Handles WITH Handles <- Slots, Resources <- Endpoints, holds <- Pairs

\* Socket numbers are handles of endpoints: after every call, failed or not, each socket in use
\* has an endpoint of its own, no other endpoint is open, and the notifier of an endpoint is
\* called with the socket that holds it, never with the slot's next tenant.
ImplementsHandles == Table!Spec

\* What select reports as readable can be read, or the connection is down: recv on a stream does
\* not wait after it.  (A listening socket is always reported, and a datagram socket for ever
\* after its first datagram.)  The notifier may set readable in the middle of recv.
NoFalseReady ==
  Idle => \A s \in SelectedRead(Slots) :
            \/ socket_table[s].listening
            \/ socket_table[s].type = "dgram"
            \/ Unread(s) > 0
            \/ OTState(s) # "connected"

\* A connection that is up is known to be up, so send does not fail with ENOTCONN: whatever comes
\* between the steps of accept and connect, and when the notifier brings the news.
UpIsConnected ==
  Idle => \A s \in InUse : OTState(s) = "connected" => socket_table[s].connected
=============================================================================
