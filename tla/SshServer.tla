------------------------------ MODULE SshServer ------------------------------
(***************************************************************************)
(* The server of src/dropbear/os9/main_os9.c: a program on Sockets that    *)
(* the signal library and the Mac's events stop.  main, the menu, the      *)
(* signal and Apple event handlers and the two hooks are the repository's. *)
(* Dropbear itself is not in it: the loop that calls the hooks is modelled *)
(* from how it must use the library, with sockets that it asks not to      *)
(* block and select, which never waits here, as it always reports the      *)
(* listener.                                                               *)
(*                                                                         *)
(* Two functions in the repository are called fcntl.  The library's makes  *)
(* a socket nonblocking.  The one of the port's own os9_platform.c takes   *)
(* the flag and does nothing, and then accept and recv wait.  The program  *)
(* may be linked with either.                                              *)
(***************************************************************************)
EXTENDS Sockets

CONSTANT ReadToEnd  \* whether the loop reads a connection until recv fails with EAGAIN

VARIABLES at,        \* the statement the server is at
          fcntl,     \* whose fcntl is linked: "library" or "port"
          gRunning,
          quitAsked, \* the user has asked to quit, by the menu, a key or an Apple event
          listener,  \* the socket it listens on
          todo,      \* what it still has to see to in this pass
          unfinished \* connections that it has not yet read to the end

server == <<at, fcntl, gRunning, quitAsked, listener, todo, unfinished>>
serverVars == <<vars, server>>

ServerTypeOK == /\ at \in {"socket", "bind", "listen", "listening", "events", "continue", "select",
                           "serve", "accepted", "done"}
                /\ fcntl \in {"library", "port"}
                /\ gRunning \in BOOLEAN /\ quitAsked \in BOOLEAN
                /\ listener \in Slots \cup {NoSlot}
                /\ todo \subseteq Slots /\ unfinished \subseteq Slots

ServerInit == /\ Init
              /\ at = "socket"
              /\ fcntl \in {"library", "port"}
              /\ gRunning = TRUE
              /\ quitAsked = FALSE
              /\ listener = NoSlot
              /\ todo = {}
              /\ unfinished = {}

-----------------------------------------------------------------------------
(* main, up to the loop: a failure ends the program *)

Goto(statement) == at' = statement

OpenListener ==
  /\ at = "socket"
  /\ \E s \in Slots : \/ Socket(s, "stream") /\ listener' = s /\ Goto("bind")
                      \/ SocketFails(s) /\ Goto("done") /\ UNCHANGED listener
  /\ UNCHANGED <<fcntl, gRunning, quitAsked, todo, unfinished>>

BindListener ==
  /\ at = "bind"
  /\ Bind(listener)
  /\ Goto("listen")
  /\ UNCHANGED <<fcntl, gRunning, quitAsked, listener, todo, unfinished>>

StartListening ==
  /\ at = "listen"
  /\ \/ Listen(listener) /\ Goto("listening")
     \/ ListenFails(listener) /\ Goto("done")
  /\ UNCHANGED <<fcntl, gRunning, quitAsked, listener, todo, unfinished>>

\* fcntl(s, F_SETFL, O_NONBLOCK). The port's finds that s is a socket and returns 0.
F_SETFL(s) == IF fcntl = "library" THEN SetNonblocking(s, TRUE)
                                   ELSE Idle /\ get_socket(s) /\ UNCHANGED vars

ListenerNonblocking ==
  /\ at = "listening"
  /\ F_SETFL(listener)
  /\ Goto("events")
  /\ UNCHANGED <<fcntl, gRunning, quitAsked, listener, todo, unfinished>>

-----------------------------------------------------------------------------
(* The hooks *)

\* Quit in the menu or by its key raises SIGTERM, and HandleQuitAE does what its handler does.
Quit == /\ ~quitAsked
        /\ quitAsked' = TRUE
        /\ UNCHANGED <<vars, at, fcntl, gRunning, listener, todo, unfinished>>


\* os9_process_events: raise delivers to shutdown_handler before it returns.
ProcessEvents ==
  /\ at = "events"
  /\ gRunning' = (gRunning /\ ~quitAsked)
  /\ Goto("continue")
  /\ UNCHANGED <<vars, fcntl, quitAsked, listener, todo, unfinished>>

os9_should_continue ==
  /\ at = "continue"
  /\ Goto(IF gRunning THEN "select" ELSE "done")
  /\ UNCHANGED <<vars, fcntl, gRunning, quitAsked, listener, todo, unfinished>>

-----------------------------------------------------------------------------
(* The loop *)

Select ==
  /\ at = "select"
  /\ todo' = SelectedRead(InUse) \cup unfinished
  /\ Goto("serve")
  /\ UNCHANGED <<vars, fcntl, gRunning, quitAsked, listener, unfinished>>

PassDone ==
  /\ at = "serve"
  /\ todo = {}
  /\ Goto("events")
  /\ UNCHANGED <<vars, fcntl, gRunning, quitAsked, listener, todo, unfinished>>

Seen(s) == todo' = todo \ {s}

\* The listener: a connection. Data may come before it has a notifier, so the loop will read it
\* whatever select says.
AcceptCaller ==
  /\ at = "serve"
  /\ listener \in todo
  /\ \E s \in Slots : AcceptConnection(listener, s) /\ unfinished' = unfinished \cup {s}
  /\ Seen(listener)
  /\ Goto("accepted")
  /\ UNCHANGED <<fcntl, gRunning, quitAsked, listener>>

\* A listener that does not block has no caller.
NobodyCalls == /\ Idle
               /\ socket_table[listener].nonblocking
               /\ endpoint[socket_table[listener].ep].callers = 0

\* A caller that cannot be served, or nobody there. A listener that blocks waits for somebody.
AcceptNobody ==
  /\ at = "serve"
  /\ listener \in todo
  /\ \/ AcceptNoSlot(listener)
     \/ \E s \in Slots : AcceptNoEndpoint(listener, s) \/ AcceptRefused(listener, s)
     \/ NobodyCalls /\ UNCHANGED vars
  /\ Seen(listener)
  /\ UNCHANGED <<at, fcntl, gRunning, quitAsked, listener, unfinished>>

\* accept has returned.
ConnectionNonblocking ==
  /\ at = "accepted"
  /\ \E s \in InUse \ {listener} : ~socket_table[s].nonblocking /\ F_SETFL(s)
  /\ Goto("serve")
  /\ UNCHANGED <<fcntl, gRunning, quitAsked, listener, todo, unfinished>>

\* One recv a pass, into a buffer with room for all that has come.
ServeData(s) ==
  /\ at = "serve"
  /\ s \in todo \ {listener}
  /\ RecvData(s, Unread(s))
  /\ unfinished' = IF ReadToEnd THEN unfinished \cup {s} ELSE unfinished \ {s}
  /\ Seen(s)
  /\ UNCHANGED <<at, fcntl, gRunning, quitAsked, listener>>

ServeNothing(s) ==
  /\ at = "serve"
  /\ s \in todo \ {listener}
  /\ RecvNothing(s)
  /\ unfinished' = unfinished \ {s}
  /\ Seen(s)
  /\ UNCHANGED <<vars, at, fcntl, gRunning, quitAsked, listener>>

\* The session is over, as the client said.
HangUp(s) ==
  /\ at = "serve"
  /\ s \in todo \ {listener}
  /\ Close(s)
  /\ unfinished' = unfinished \ {s}
  /\ Seen(s)
  /\ UNCHANGED <<at, fcntl, gRunning, quitAsked, listener>>

\* A call of the library returns.
ServerReturns == Return /\ UNCHANGED server

\* What the loop does without waiting for the network, but for hanging up.
ServerStep ==
  \/ OpenListener \/ BindListener \/ StartListening \/ ListenerNonblocking
  \/ ProcessEvents \/ os9_should_continue \/ Select \/ PassDone \/ AcceptCaller \/ AcceptNobody
  \/ ConnectionNonblocking \/ ServerReturns
  \/ \E s \in Slots : ServeData(s) \/ ServeNothing(s)

ServerNext == \/ ServerStep \/ Quit
              \/ \E s \in Slots : HangUp(s)
              \/ \E e \in Endpoints : Network(e) /\ UNCHANGED server

ServerSpec == ServerInit /\ [][ServerNext]_serverVars

\* The server is the only program that runs, and goes on unless its next call waits. It need not
\* hang up.
ServerFairSpec == ServerSpec /\ WF_serverVars(ServerStep)

-----------------------------------------------------------------------------
(* Properties *)

\* The server sits in accept, or in recv, for a peer to do something: what it still has to see
\* to are a listener and connections that block. The port's fcntl lets this happen.
Waits == /\ fcntl = "port"
         /\ at = "serve" /\ Idle /\ todo # {}
         /\ \A s \in todo :
              IF s = listener THEN endpoint[socket_table[s].ep].callers = 0
                              ELSE OTState(s) = "connected" /\ Unread(s) = 0


\* What a client sends to a connection that has its notifier is read, or the connection or the
\* server ends, or, with the port's fcntl, the server comes to wait: though the notifier may set
\* readable between OTRcv and recv's clearing of it, and data may come before accept has
\* installed a notifier.
DataRead ==
  \A s \in Slots :
    (s \in InUse /\ Unread(s) > 0 /\ endpoint[socket_table[s].ep].notify = s)
      ~> (at = "done" \/ s \notin InUse \/ Unread(s) = 0 \/ Waits)
=============================================================================
