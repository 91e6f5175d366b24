-------------------------------- MODULE Miner --------------------------------
(***************************************************************************)
(* The miner of src/miner: main's cycle of http_post and sleep, with the   *)
(* plain sockets of rustchain_miner_posix9.c or, built with USE_TLS, over  *)
(* tls_wrapper.c.  It is a program on Sockets, with a server at the other  *)
(* end that reads a request, replies and ends, or dies at any moment.      *)
(* BearSSL is external: its engine writes and reads by sock_write and      *)
(* sock_read, and may fail on what it reads.  One piece each way stands    *)
(* for a handshake.                                                        *)
(***************************************************************************)
EXTENDS Sockets

CONSTANTS Request,  \* pieces of a request, as send takes them
          Reply,    \* pieces of a reply, as the server sends them
          RoomMost  \* the most pieces that the response buffer may have room for

ASSUME MinerAssumption == Request \in Nat \ {0} /\ Reply \in Nat \ {0} /\ RoomMost \in Nat \ {0}

VARIABLES mpc,        \* where the miner is in its cycle, "off" if it is not run
          tls,        \* whether it is built with USE_TLS
          room,       \* resp_size - 1
          sock,       \* http_post's sock, or tls_sockfd
          sent,       \* pieces of the request, the handshake's one included
          served,     \* pieces of the reply that the server has sent, likewise
          received    \* total_received

cycle == <<sent, served, received>>
miner == <<mpc, tls, room, sock, sent, served, received>>
minerVars == <<vars, miner>>

\* What goes each way before the request and the reply.
Hello == IF tls THEN 1 ELSE 0

MinerTypeOK == /\ mpc \in {"off", "resolve", "socket", "connect", "connecting", "hello", "handshake",
                           "request", "response", "tls_close", "shutdown", "close", "sleep"}
               /\ tls \in BOOLEAN /\ room \in 1 .. RoomMost
               /\ sock \in Slots \cup {NoSlot}
               /\ sent \in 0 .. Hello + Request
               /\ served \in 0 .. Hello + Reply
               /\ received \in 0 .. Reply

MinerInit == /\ Init
             /\ mpc = "resolve"
             /\ tls \in BOOLEAN
             /\ room \in 1 .. RoomMost
             /\ sock = NoSlot
             /\ sent = 0 /\ served = 0 /\ received = 0

Go(place) == mpc' = place

-----------------------------------------------------------------------------
(* http_post and tls_connect: from the name to the connection *)

\* gethostbyname
Resolve ==
  /\ mpc = "resolve"
  /\ Go("socket") \/ Go("sleep")
  /\ UNCHANGED <<vars, tls, room, sock, cycle>>

OpenSocket ==
  /\ mpc = "socket"
  /\ \E s \in Slots : \/ Socket(s, "stream") /\ sock' = s /\ Go("connect")
                      \/ SocketFails(s) /\ sock' = NoSlot /\ Go("sleep")
  /\ UNCHANGED <<tls, room, cycle>>

\* A mutant of ConnectFailed below: the error path leaves the socket.
ConnectFailedKept ==
  /\ mpc = "connect"
  /\ ConnectRefused(sock)
  /\ Go("sleep")
  /\ UNCHANGED <<tls, room, sock, cycle>>

\* Both clients go on to close the socket.
ConnectFailed ==
  /\ mpc = "connect"
  /\ ConnectRefused(sock)
  /\ Go("close")
  /\ UNCHANGED <<tls, room, sock, cycle>>

ConnectServer ==
  /\ mpc = "connect"
  /\ Connect(sock)
  /\ Go("connecting")
  /\ UNCHANGED <<tls, room, sock, cycle>>

\* connect has returned.  tls_connect looks at the engine, that has sent nothing yet.
Connected ==
  /\ mpc = "connecting"
  /\ Idle
  /\ IF tls THEN Go("hello") \/ Go("close") ELSE Go("request")
  /\ UNCHANGED <<vars, tls, room, sock, cycle>>

-----------------------------------------------------------------------------
(* The request.  The handshake is driven by the first tls_send. *)

\* sock_write; send asks the socket's own flag before Open Transport.
CanSend == socket_table[sock].connected /\ OTState(sock) \in {"connected", "ended"}
\* A failed engine has nothing to close: tls_close goes on to the socket.
Failed == Go(IF tls THEN "shutdown" ELSE "close")

SendHello ==
  /\ mpc = "hello"
  /\ IF CanSend THEN sent' = sent + 1 /\ Go("handshake")
                ELSE UNCHANGED sent /\ Failed
  /\ UNCHANGED <<vars, tls, room, sock, served, received>>

\* sock_read of the server's part, that BearSSL may refuse.
Handshake ==
  /\ mpc = "handshake"
  /\ \/ RecvData(sock, 1) /\ (Go("request") \/ Failed)
     \/ RecvNothing(sock) /\ Failed /\ UNCHANGED vars
  /\ UNCHANGED <<tls, room, sock, cycle>>

\* A mutant of SendRequest below: the loop does not look at what has been sent.
SendRequestOn ==
  /\ mpc = "request"
  /\ Idle
  /\ IF CanSend THEN sent' = sent + 1 /\ UNCHANGED mpc
                ELSE UNCHANGED sent /\ Failed
  /\ UNCHANGED <<vars, tls, room, sock, served, received>>

SendRequest ==
  /\ mpc = "request"
  /\ Idle
  /\ sent < Hello + Request
  /\ IF CanSend THEN sent' = sent + 1 /\ UNCHANGED mpc
                ELSE UNCHANGED sent /\ Failed
  /\ UNCHANGED <<vars, tls, room, sock, served, received>>

RequestSent ==
  /\ mpc = "request"
  /\ Idle
  /\ sent = Hello + Request
  /\ Go("response")
  /\ UNCHANGED <<vars, tls, room, sock, cycle>>

-----------------------------------------------------------------------------
(* The reply *)

\* A mutant of ReceiveMore below: the loop ends after its first recv.
ReceiveOnce ==
  /\ mpc = "response"
  /\ received = 0
  /\ \E k \in 1 .. room : RecvData(sock, k) /\ received' = received + k
  /\ Go("shutdown")
  /\ UNCHANGED <<tls, room, sock, sent, served>>

\* recv, or tls_recv, into what is left of the buffer.
ReceiveMore ==
  /\ mpc = "response"
  /\ received < room
  /\ \E k \in 1 .. room - received : RecvData(sock, k) /\ received' = received + k
  /\ UNCHANGED <<mpc, tls, room, sock, sent, served>>

\* A mutant of ReceiveEnd below: the loop tries again.
ReceiveEndRetries ==
  /\ mpc = "response"
  /\ received < room
  /\ RecvNothing(sock)
  /\ UNCHANGED minerVars

\* recv fails once nothing more can come.  To tls_recv that is BR_ERR_IO, and so an end of file.
ReceiveEnd ==
  /\ mpc = "response"
  /\ received < room
  /\ RecvNothing(sock)
  /\ Go("shutdown")
  /\ UNCHANGED <<vars, tls, room, sock, cycle>>

BufferFull ==
  /\ mpc = "response"
  /\ Idle
  /\ received = room
  /\ Go(IF tls THEN "tls_close" ELSE "shutdown")
  /\ UNCHANGED <<vars, tls, room, sock, cycle>>

-----------------------------------------------------------------------------
(* The end of a cycle *)

\* br_sslio_close reads, and throws away, until the server's end.
TlsDrain ==
  /\ mpc = "tls_close"
  /\ \E k \in 1 .. MaxData : RecvData(sock, k)
  /\ UNCHANGED miner

TlsClosed ==
  /\ mpc = "tls_close"
  /\ RecvNothing(sock)
  /\ Go("shutdown")
  /\ UNCHANGED <<vars, tls, room, sock, cycle>>

\* OTSndOrderlyDisconnect, if it can; what it returns is ignored.
Shutdown ==
  /\ mpc = "shutdown"
  /\ Go("close")
  /\ UNCHANGED <<vars, tls, room, sock, cycle>>

CloseSocket ==
  /\ mpc = "close"
  /\ Close(sock)
  /\ sock' = NoSlot
  /\ Go("sleep")
  /\ UNCHANGED <<tls, room, cycle>>

\* main sleeps, and starts the next cycle.
Sleep ==
  /\ mpc = "sleep"
  /\ Go("resolve")
  /\ sent' = 0 /\ served' = 0 /\ received' = 0
  /\ UNCHANGED <<vars, tls, room, sock>>

MinerReturns == Return /\ UNCHANGED miner

MinerStep ==
  \/ Resolve \/ OpenSocket \/ ConnectFailed \/ ConnectServer \/ Connected
  \/ SendHello \/ Handshake \/ SendRequest \/ RequestSent
  \/ ReceiveMore \/ ReceiveEnd \/ BufferFull
  \/ TlsDrain \/ TlsClosed \/ Shutdown \/ CloseSocket \/ Sleep \/ MinerReturns

-----------------------------------------------------------------------------
(* The server at the other end *)

\* It answers a handshake, and a request once it has all of it.
Served == IF sent = Hello + Request THEN Hello + Reply
          ELSE IF sent >= Hello THEN Hello ELSE 0

ServerSends ==
  /\ served < Served
  /\ \E e \in Endpoints : Arrive(e)
  /\ served' = served + 1
  /\ UNCHANGED <<mpc, tls, room, sock, sent, received>>

\* "Connection: close"
ServerEnds ==
  /\ served = Hello + Reply
  /\ \E e \in Endpoints : Release(e)
  /\ UNCHANGED miner

\* The server, or the way to it, breaks down.
ServerDies ==
  /\ \E e \in Endpoints : Abort(e)
  /\ UNCHANGED miner

MinerNext == MinerStep \/ ServerSends \/ ServerEnds \/ ServerDies

MinerSpec == MinerInit /\ [][MinerNext]_minerVars
\* The miner runs, and a server that lives says what it has to say and ends.
MinerFairSpec == MinerSpec /\ WF_minerVars(MinerStep)
                           /\ WF_minerVars(ServerSends \/ ServerEnds)

-----------------------------------------------------------------------------
(* Properties *)

\* A cycle leaves nothing behind, whichever call of it failed and whenever the server died: at
\* each sleep no socket is in use and no endpoint open, so the table's slots last for ever.
MinerReleases == mpc = "sleep" => InUse = {} /\ Open = {} /\ sock = NoSlot

\* A reply is complete, or as much of it as fits, if the connection did not break: no piece is
\* lost between recv, the notifier and the loop, and the server's orderly end does not overtake
\* what it has sent.
ReplyWhole ==
  mpc = "shutdown" /\ received > 0 =>
    \/ received = IF Reply < room THEN Reply ELSE room
    \/ OTState(sock) = "aborted"

\* The miner comes back to its sleep, though its sockets block and it sets no timeout.
CycleReturns == mpc \notin {"off", "sleep"} ~> mpc = "sleep"
=============================================================================
