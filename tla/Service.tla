------------------------------- MODULE Service -------------------------------
(***************************************************************************)
(* The gateway process: main of squeuelite-gateway with the servers it was *)
(* asked for, SidecarGateway::run (the binary without --http) or both      *)
(* transports over one InProcessGateway (with it), and the clients of the  *)
(* socket.  An HTTP handler here is a connection that serves one request   *)
(* after the other and holds a handle while it is open.                    *)
(***************************************************************************)
EXTENDS Connection

CONSTANT MaxRequests  \* bound on the requests of an HTTP connection

VARIABLES
  uds,       \* the socket server, see ServerStates
  http,      \* the HTTP server
  ctrlC,     \* was Ctrl-C pressed?
  heard,     \* the servers that will find the broadcast in their receiver
  requests,  \* the requests of each HTTP connection
  exited     \* has main returned?

lifeVars  == <<uds, http, ctrlC, heard, requests, exited>>
serveVars == <<vars, rpcVars, connVars, lifeVars>>

\* "off": its receiver is not subscribed yet; "draining": no new connections.
ServerStates == {"absent", "off", "starting", "serving", "draining", "ended"}

\* parse_args wants a transport, HTTP with or without the socket goes through
\* the broadcast channel, the socket alone does not.
Transports ==
  \/ uds = "starting" /\ http = "absent"
  \/ uds \in {"absent", "off"} /\ http = "off"

ServeInit ==
  /\ RpcInit /\ ConnInit /\ Transports
  /\ ctrlC = FALSE /\ heard = {}
  /\ requests = [h \in Http |-> 0]
  /\ exited = FALSE

\* Without --http there is one server, which main itself runs.
Alone == http = "absent"

-----------------------------------------------------------------------------
(* main. *)

\* subscribe, then spawn: the socket first.
SpawnUds ==
  /\ uds = "off" /\ uds' = "starting"
  /\ UNCHANGED <<vars, rpcVars, connVars, http, ctrlC, heard, requests, exited>>

SpawnHttp ==
  /\ uds # "off" /\ http = "off" /\ http' = "starting"
  /\ UNCHANGED <<vars, rpcVars, connVars, uds, ctrlC, heard, requests, exited>>

\* Mutant: main waits for the connections of the socket as well.
ServersEndedIdle ==
  uds \in {"absent", "ended"} /\ http \in {"absent", "ended"} /\ \A u \in Uds : task[u] # "up"

\* The servers are awaited, the connections of the socket are not.
ServersEnded == uds \in {"absent", "ended"} /\ http \in {"absent", "ended"}

ShutDown ==
  /\ ServersEnded /\ Alongside(BeginShutdown)
  /\ UNCHANGED <<connVars, lifeVars>>

FinishShutdown ==
  /\ Alongside(PushShutdown \/ Join)
  /\ UNCHANGED <<connVars, lifeVars>>

Hangup(us) == task' = [u \in Uds |-> IF u \in us THEN "over" ELSE task[u]]

\* main returns; the tasks of connections end wherever they are.
Exit ==
  /\ owner = "down" /\ exited' = TRUE
  /\ Hangup({u \in Uds : task[u] = "up"})
  /\ UNCHANGED <<vars, rpcVars, clientVars, wireVars, serving, fate>>
  /\ UNCHANGED <<uds, http, ctrlC, heard, requests>>

MainStep == SpawnUds \/ SpawnHttp \/ ShutDown \/ FinishShutdown \/ Exit

-----------------------------------------------------------------------------
(* Ctrl-C. *)

\* The broadcast reaches the receivers there are.
Subscribers == (IF uds # "off" THEN {"uds"} ELSE {}) \cup (IF http # "off" THEN {"http"} ELSE {})

\* The handler sends once.  SidecarGateway's future waits for the signal only
\* inside its select.
PressCtrlC ==
  /\ ~ctrlC /\ ctrlC' = TRUE
  /\ Alone => uds # "starting"
  /\ heard' = Subscribers
  /\ UNCHANGED <<vars, rpcVars, connVars, uds, http, requests, exited>>

-----------------------------------------------------------------------------
(* The socket server. *)

BindUds ==
  /\ uds = "starting" /\ uds' = "serving"
  /\ UNCHANGED <<vars, rpcVars, connVars, http, ctrlC, heard, requests, exited>>

\* run returns the error, which drops the gateway, and main exits; a server
\* task just ends.
BindUdsFails ==
  /\ uds = "starting" /\ uds' = "ended"
  /\ IF Alone THEN Alongside(DropGateway) /\ exited' = TRUE
              ELSE UNCHANGED <<vars, rpcVars, exited>>
  /\ UNCHANGED <<connVars, http, ctrlC, heard, requests>>

Connect(u) ==
  /\ uds = "serving" /\ link[u] = "none"
  /\ link' = [link EXCEPT ![u] = "up"]
  /\ UNCHANGED <<vars, rpcVars, calls, reading, got, serverVars, wireVars, fate, lifeVars>>

Backlog == {u \in Uds : link[u] # "none" /\ task[u] = "none"}

Accept(u) ==
  /\ uds = "serving" /\ u \in Backlog
  /\ Alongside(GetHandle(u))
  /\ task' = [task EXCEPT ![u] = "up"]
  /\ UNCHANGED <<clientVars, wireVars, serving, fate, lifeVars>>

\* The listener goes, with the connections it has not accepted; the tasks of
\* the others stay.
EndUds ==
  /\ uds = "serving" /\ uds' = "ended"
  /\ Hangup(Backlog)
  /\ UNCHANGED <<vars, rpcVars, clientVars, wireVars, serving, fate>>
  /\ UNCHANGED <<http, ctrlC, heard, requests, exited>>

UdsHears == "uds" \in heard /\ EndUds

\* accept_loop ends at the first error of accept.
AcceptFails == EndUds

-----------------------------------------------------------------------------
(* The HTTP server. *)

BindHttp ==
  /\ http = "starting" /\ http' \in {"serving", "ended"}
  /\ UNCHANGED <<vars, rpcVars, connVars, uds, ctrlC, heard, requests, exited>>

HttpHears ==
  /\ http = "serving" /\ "http" \in heard /\ http' = "draining"
  /\ UNCHANGED <<vars, rpcVars, connVars, uds, ctrlC, heard, requests, exited>>

\* Mutant: serve returns without a look at the connections.
HttpEndsAtOnce ==
  /\ http = "draining" /\ http' = "ended"
  /\ UNCHANGED <<vars, rpcVars, connVars, uds, ctrlC, heard, requests, exited>>

\* The graceful serve ends when its connections have.
HttpEnds ==
  /\ http = "draining" /\ live \cap Http = {} /\ http' = "ended"
  /\ UNCHANGED <<vars, rpcVars, connVars, uds, ctrlC, heard, requests, exited>>

Open(h) ==
  /\ http = "serving" /\ Alongside(GetHandle(h))
  /\ UNCHANGED <<connVars, lifeVars>>

\* A request that was on its way when the signal came is served.
Request(h) ==
  /\ requests[h] < MaxRequests /\ Dispatch(h)
  /\ requests' = [requests EXCEPT ![h] = @ + 1]
  /\ UNCHANGED <<connVars, uds, http, ctrlC, heard, exited>>

Respond200(h) == Settle(h) /\ UNCHANGED <<connVars, lifeVars>>

GoAway(h) == DropRequest(h) /\ UNCHANGED <<connVars, lifeVars>>

\* A connection between two requests is closed, by its client or because the
\* server is draining.
Close(h) ==
  /\ h \notin busy /\ Alongside(DropHandle(h))
  /\ UNCHANGED <<connVars, lifeVars>>

-----------------------------------------------------------------------------

WriterRuns ==
  \/ JudgeCall /\ UNCHANGED lifeVars
  \/ /\ Alongside(ReceiveCommand \/ SeeNoSender \/ DrainCommand \/ EndDrain
                    \/ HandleDeferred \/ DropReceiver)
     /\ UNCHANGED <<connVars, lifeVars>>

Wakes(c) == Alongside(Push(c)) /\ UNCHANGED <<connVars, lifeVars>>

TimerFires(c) == Alongside(Expire(c)) /\ UNCHANGED <<connVars, lifeVars>>

UdsStep == BindUds \/ BindUdsFails \/ (\E u \in Uds : Accept(u)) \/ UdsHears

HttpStep == BindHttp \/ HttpHears \/ HttpEnds

HttpServes(h) == Respond200(h) \/ (http = "draining" /\ Close(h))

ServesLine(u) == ServerStep(u) /\ UNCHANGED lifeVars

ClientReads(u) == (ReadReply(u) \/ ReadEof(u)) /\ UNCHANGED <<vars, rpcVars, fate, lifeVars>>

ProcessStep ==
  \/ MainStep \/ PressCtrlC \/ WriterRuns
  \/ UdsStep \/ AcceptFails \/ (\E u \in Uds : ServesLine(u))
  \/ HttpStep
  \/ \E h \in Http : Open(h) \/ Request(h) \/ HttpServes(h) \/ GoAway(h) \/ Close(h)
  \/ \E c \in Callers : Wakes(c) \/ TimerFires(c)
  \/ SnapshotStep /\ UNCHANGED <<connVars, lifeVars>>

\* The servers that were asked for and never get a signal wait for ever.
Deaf == ctrlC /\ ~({"uds", "http"} \subseteq heard)

\* Nothing need happen any more.
AtRest == (exited \/ Deaf) /\ UNCHANGED serveVars

ServeNext ==
  \/ ~exited /\ ProcessStep
  \/ \E u \in Uds : ~exited /\ Connect(u)
  \/ \E u \in Uds : ClientStep(u) /\ UNCHANGED lifeVars
  \/ AtRest

ServeSpec == ServeInit /\ [][ServeNext]_serveVars

\* Threads and tasks that can run do; a client that waits for a reply reads it.
\* No client has to call, disconnect or be patient, no timer has to fire, and
\* accept need not fail.
ServeFairness ==
  /\ WF_serveVars(~exited /\ WriterRuns)
  /\ WF_serveVars(~exited /\ MainStep)
  /\ WF_serveVars(~exited /\ UdsStep) /\ WF_serveVars(~exited /\ HttpStep)
  /\ \A u \in Uds : WF_serveVars(~exited /\ ServesLine(u)) /\ WF_serveVars(ClientReads(u))
  /\ \A h \in Http : WF_serveVars(~exited /\ HttpServes(h))
  /\ \A c \in Callers : WF_serveVars(~exited /\ Wakes(c))

FairServe == ServeSpec /\ ServeFairness
=============================================================================
