------------------------------ MODULE MCSockets ------------------------------
(***************************************************************************)
(* The instance TLC checks: one library, and three programs on it, of      *)
(* which one is run.  "any" makes every call at every time, on two of the  *)
(* sockets, which is enough for a slot and an endpoint to pass from one to *)
(* the other; "server" and "miner" are SshServer and Miner on three.       *)
(***************************************************************************)
EXTENDS SshServer, Miner

CONSTANTS AnySlots, AnyEndpoints,  \* bounds: what the program that makes every call may use
          SmallData                \* bound: what an endpoint holds unread, but for the miner's

VARIABLE program

allVars == <<vars, server, miner, program>>

Programs == {"any", "server", "miner"}

MCInit ==
  /\ program \in Programs
  /\ IF program = "server"
       THEN ServerInit
       ELSE /\ Init
            /\ at = "done" /\ fcntl = "library" /\ gRunning = FALSE /\ quitAsked = FALSE
            /\ listener = NoSlot /\ todo = {} /\ unfinished = {}
  /\ IF program = "miner"
       THEN MinerInit
       ELSE /\ mpc = "off" /\ tls = FALSE /\ room = 1 /\ sock = NoSlot
            /\ sent = 0 /\ served = 0 /\ received = 0

\* Closed endpoints are alike: the lowest stands for any that Open Transport may open.
LowestOpened == \A e \in Open' \ Open : \A f \in Endpoints \ Open : e <= f

SmallInboxes == \A e \in Endpoints : endpoint'[e].inbox <= SmallData

RunAny == /\ program = "any"
          /\ Next
          /\ InUse' \subseteq AnySlots
          /\ Open' \subseteq AnyEndpoints
          /\ SmallInboxes /\ LowestOpened
          /\ UNCHANGED <<server, miner, program>>

RunServer(step) == /\ program = "server"
                   /\ step
                   /\ fcntl = "port" => InUse' \subseteq AnySlots /\ Open' \subseteq AnyEndpoints
                   /\ SmallInboxes /\ LowestOpened
                   /\ UNCHANGED <<miner, program>>

RunMiner(step) == program = "miner" /\ step /\ LowestOpened /\ UNCHANGED <<server, program>>

MCNext == RunAny \/ RunServer(ServerNext) \/ RunMiner(MinerNext)

MCSpec == /\ MCInit
          /\ [][MCNext]_allVars
          /\ WF_allVars(RunServer(ServerStep))
          /\ WF_allVars(RunMiner(MinerStep))
          /\ WF_allVars(RunMiner(ServerSends \/ ServerEnds))

\* Every variable of the library and of both programs keeps its type; a cycle of the miner sends
\* no more than its request and receives no more than the reply.
AllTypeOK == TypeOK /\ ServerTypeOK /\ MinerTypeOK
=============================================================================
