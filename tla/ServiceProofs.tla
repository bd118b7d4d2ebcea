---------------------------- MODULE ServiceProofs ----------------------------
(***************************************************************************)
(* Proofs about the gateway process: its statistics, its HTTP connections  *)
(* and its clients on the socket, for every set of clients, queue length,  *)
(* batch size, overflow policy, and number of calls and requests.          *)
(***************************************************************************)
EXTENDS ServiceProperties, InProcessProofs

-----------------------------------------------------------------------------
(***************************************************************************)
(* The inductive invariant, by who it is about.                            *)
(***************************************************************************)
\* A caller inside an await is one whose call is pending or has returned to
\* it; a command nobody waits for is of an HTTP handler that is gone.
BusyOK ==
  /\ busy \subseteq live /\ IsFiniteSet(busy)
  /\ \A c \in Callers : stage[c] \in Pending => c \in busy
  /\ \A c \in busy : stage[c] \in Pending \cup {"served", "overloaded", "closed"}
  /\ \A u \in Uds : stage[u] # "abandoned"

\* A verdict waits for exactly the writes that were served and not settled.
VerdictOK ==
  /\ verdict \in [Write -> {"none", "committed", "failed"}]
  /\ \A c \in Write : verdict[c] # "none" <=> c \in busy /\ stage[c] = "served"

\* The writes that may yet commit or fail, or whose failure is not counted.
Outstanding ==
  {c \in Write : (c \in busy /\ verdict[c] # "committed") \/ stage[c] = "abandoned"}

ToldCommitted == {c \in Write : verdict[c] = "committed"}

CountsOK ==
  /\ counters \in [Counters -> Nat] /\ commits \in Nat /\ dropped \in Nat
  /\ IsFiniteSet(Outstanding) /\ IsFiniteSet(ToldCommitted)
  /\ counters["accepted"] = Finished + Cardinality(busy \cap Write) + dropped
  /\ counters["committed"] + Cardinality(ToldCommitted) <= commits
  /\ commits + counters["failed"] + counters["rejected"] + Cardinality(Outstanding)
       <= counters["accepted"]

\* What a snapshot has loaded of counter f is at most what f is now.
Loaded(f) == IF f \in snapshot.unread THEN 0 ELSE counters[f]

SnapshotOK ==
  /\ snapshot \in [on : BOOLEAN, unread : SUBSET Counters, accepted : Nat, finished : Nat,
                   since : Nat]
  /\ snapshot.on =>
       /\ snapshot.since <= counters["accepted"]
       /\ "accepted" \notin snapshot.unread => snapshot.since <= snapshot.accepted
       /\ snapshot.finished <= Loaded("committed") + Loaded("failed") + Loaded("rejected")

RpcOK == BusyOK /\ VerdictOK /\ CountsOK /\ SnapshotOK

\* The task of a connection is there while it serves a request.
TasksOK ==
  /\ task \in [Uds -> {"none", "up", "over"}]
  /\ ~exited => \A u \in Uds : u \in busy => task[u] = "up"

\* HTTP connections are only where the server has them, and the gateway is
\* closed when it has none any more.
OwnerOK ==
  /\ http \notin {"serving", "draining"} => live \cap Http = {}
  /\ owner # "open" => http \in {"absent", "ended"}

ServersOK == TasksOK /\ OwnerOK /\ \A h \in Http : stage[h] # "closed"

-----------------------------------------------------------------------------
(***************************************************************************)
(* Of all that the process does, what its requests and counters see.       *)
(***************************************************************************)
\* Neither a request nor a verdict begins or ends.
Runs ==
  \/ ReceiveCommand \/ SeeNoSender \/ DrainCommand \/ EndDrain
  \/ HandleDeferred \/ DropReceiver
  \/ \E c \in Callers : Push(c) \/ Expire(c) \/ GetHandle(c) \/ (c \notin busy /\ DropHandle(c))
  \/ BeginShutdown \/ PushShutdown \/ Join \/ DropGateway
  \/ UNCHANGED vars

RpcStep ==
  \/ \E c \in Callers : Dispatch(c) \/ Settle(c) \/ DropRequest(c)
  \/ \E v \in {"committed", "failed"} : Judge(v)
  \/ Alongside(Runs)
  \/ SnapshotStep

LEMMA ClientRpc ==
  ASSUME NEW u \in Uds, ClientStep(u)
  PROVE  UNCHANGED <<vars, rpcVars, fate, task, serving>>
BY DEF ClientStep, SendLine, SendFails, CutLine, ReadReply, ReadEof, CancelRead, Disconnect,
       NextCall, StopsReading, serverVars

LEMMA ServerRpc ==
  ASSUME ServersOK, ~exited, NEW u \in Uds, ServerStep(u)
  PROVE  RpcStep
<1>1. u \in Callers
  BY RpcAssumption
<1>2. CASE TakeLine(u)
  BY <1>1, <1>2 DEF TakeLine, RpcStep, Alongside, Runs
<1>3. CASE TakeRest(u)
  BY <1>1, <1>3 DEF TakeRest, RpcStep
<1>4. CASE SeeEof(u)
  BY <1>4 DEF SeeEof, RpcStep, Alongside, Runs
<1>5. CASE Answer(u)
  BY <1>1, <1>5 DEF Answer, RpcStep
<1>6. CASE ReleaseHandle(u)
  <2>1. u \notin busy
    BY <1>6 DEF ReleaseHandle, ServersOK, TasksOK
  <2> QED
    BY <1>1, <1>6, <2>1 DEF ReleaseHandle, RpcStep, Alongside, Runs
<1> QED
  BY <1>2, <1>3, <1>4, <1>5, <1>6 DEF ServerStep

LEMMA MainRpc == ASSUME MainStep \/ PressCtrlC \/ WriterRuns PROVE RpcStep
<1>1. CASE SpawnUds \/ SpawnHttp \/ Exit \/ PressCtrlC
  BY <1>1 DEF SpawnUds, SpawnHttp, Exit, PressCtrlC, RpcStep, Alongside, Runs
<1>2. CASE ShutDown \/ FinishShutdown
  BY <1>2 DEF ShutDown, FinishShutdown, RpcStep, Alongside, Runs
<1>3. CASE WriterRuns
  BY <1>3 DEF WriterRuns, JudgeCall, RpcStep, Alongside, Runs
<1> QED
  BY <1>1, <1>2, <1>3 DEF MainStep

LEMMA UdsRpc == ASSUME UdsStep \/ AcceptFails PROVE RpcStep
<1>1. CASE BindUds \/ BindUdsFails \/ EndUds
  BY <1>1 DEF BindUds, BindUdsFails, EndUds, RpcStep, Alongside, Runs
<1>2. ASSUME NEW u \in Uds, Accept(u) PROVE RpcStep
  <2>1. u \in Callers
    BY RpcAssumption
  <2> QED
    BY <1>2, <2>1 DEF Accept, RpcStep, Alongside, Runs
<1> QED
  BY <1>1, <1>2 DEF UdsStep, UdsHears, AcceptFails

LEMMA HttpRpc ==
  ASSUME \/ HttpStep
         \/ \E h \in Http : Open(h) \/ Request(h) \/ HttpServes(h) \/ GoAway(h) \/ Close(h)
  PROVE  RpcStep
<1>1. CASE HttpStep
  BY <1>1 DEF HttpStep, BindHttp, HttpHears, HttpEnds, RpcStep, Alongside, Runs
<1>2. ASSUME NEW h \in Http, Open(h) \/ Request(h) \/ HttpServes(h) \/ GoAway(h) \/ Close(h)
      PROVE  RpcStep
  <2>1. h \in Callers
    BY RpcAssumption
  <2> QED
    BY <1>2, <2>1 DEF Open, Request, HttpServes, Respond200, GoAway, Close, RpcStep, Alongside, Runs
<1> QED
  BY <1>1, <1>2

LEMMA ServeRpc == ASSUME ServersOK, [ServeNext]_serveVars PROVE RpcStep
<1>1. CASE UNCHANGED serveVars \/ AtRest
  BY <1>1 DEF AtRest, serveVars, RpcStep, Alongside, Runs
<1>2. ASSUME NEW u \in Uds, Connect(u) \/ ClientStep(u) PROVE RpcStep
  BY <1>2, ClientRpc DEF Connect, RpcStep, Alongside, Runs
<1>3. CASE ~exited /\ ProcessStep
  <2>1. ASSUME NEW c \in Callers, Wakes(c) \/ TimerFires(c) PROVE RpcStep
    BY <2>1 DEF Wakes, TimerFires, RpcStep, Alongside, Runs
  <2>2. ASSUME NEW u \in Uds, ServesLine(u) PROVE RpcStep
    BY <1>3, <2>2, ServerRpc DEF ServesLine
  <2> QED
    BY <1>3, <2>1, <2>2, MainRpc, UdsRpc, HttpRpc DEF ProcessStep, RpcStep
<1> QED
  BY <1>1, <1>2, <1>3 DEF ServeNext

LEMMA RpcKeepsIInv == ASSUME IInv, RpcStep PROVE IInv'
<1>1. CASE UNCHANGED vars
  BY <1>1, NextIInv
<1>2. ASSUME NEW c \in Callers, Dispatch(c) \/ DropRequest(c) PROVE IInv'
  BY <1>1, <1>2, CallerKeeps DEF Dispatch, DropRequest, CallerStep
<1>3. ASSUME NEW c \in Callers, Settle(c) PROVE IInv'
  BY <1>1, <1>3 DEF Settle
<1>4. CASE \E v \in {"committed", "failed"} : Judge(v)
  BY <1>4, WriterKeeps DEF Judge, WriterStep
<1>5. CASE Runs
  BY <1>1, <1>5, WriterKeeps, CallerKeeps, OwnerKeeps DEF Runs, WriterStep, CallerStep, OwnerStep
<1>6. CASE SnapshotStep
  BY <1>1, <1>6 DEF SnapshotStep, BeginSnapshot, Load, ReturnSnapshot
<1> QED
  BY <1>2, <1>3, <1>4, <1>5, <1>6 DEF RpcStep, Alongside

-----------------------------------------------------------------------------
(***************************************************************************)
(* How the calls of all callers move in such a step.                       *)
(***************************************************************************)
Moves(c) ==
  \/ stage'[c] = stage[c]
  \/ stage[c] \in Pending /\ stage'[c] \in Pending \cup {"overloaded"}
  \/ stage[c] \in Pending /\ stage'[c] = "closed" /\ loop = "exiting"
  \/ stage[c] \in Pending /\ stage'[c] = "served" /\ c \in Ask
  \/ stage[c] = "abandoned" /\ stage'[c] = "idle"

LEMMA AskAnswered ==
  ASSUME IInv, NEW c \in Commands, c \in Active, AnsweredIfAsk(c)
  PROVE  \A d \in Callers : Moves(d)
<1>1. CASE c \in Ask
  <2>1. c \in Callers /\ Answered(c) /\ stage \in [Callers -> Stages]
    BY <1>1 DEF AnsweredIfAsk, Callers, IInv, CallersOK
  <2>2. stage[c] \in {"queued", "abandoned"}
    BY <2>1 DEF IInv, CallersOK, StageAgrees
  <2> QED
    BY <1>1, <2>1, <2>2 DEF Answered, Becomes, Moves, Pending
<1>2. CASE c \notin Ask
  BY <1>2 DEF AnsweredIfAsk, Moves
<1> QED
  BY <1>1, <1>2

LEMMA RunsMove ==
  ASSUME IInv, BusyOK, Runs
  PROVE  (\A c \in Callers : Moves(c)) /\ busy \subseteq live'
<1>1. ThreadOK /\ stage \in [Callers -> Stages] /\ busy \subseteq live /\ StageAgrees
  BY DEF IInv, CallersOK, BusyOK
<1>2. CASE ReceiveCommand
  <2>1. Receive /\ AnsweredIfAsk(Head(queue)) /\ live' = live
    BY <1>2 DEF ReceiveCommand
  <2>2. Head(queue) \in Commands /\ Head(queue) \in Active
    BY <1>1, <2>1, Received
  <2> QED
    BY <1>1, <2>1, <2>2, AskAnswered
<1>3. CASE HandleDeferred
  <2>1. TakeDeferred /\ AnsweredIfAsk(deferred[1]) /\ live' = live
    BY <1>3 DEF HandleDeferred
  <2>2. deferred[1] \in Commands /\ deferred[1] \in Active
    BY <1>1, <2>1, DeferredTaken
  <2> QED
    BY <1>1, <2>1, <2>2, AskAnswered
<1>4. CASE DropReceiver
  BY <1>1, <1>4 DEF DropReceiver, Leave, ClosedStage, Moves
<1>5. ASSUME NEW c \in Callers, Push(c) \/ Expire(c)
      PROVE  (\A d \in Callers : Moves(d)) /\ busy \subseteq live'
  <2>1. CASE Push(c)
    <3>1. c \in Sending
      BY <2>1 DEF Push, PutInGrantedSlot, Sending
    <3>2. stage[c] = "sending"
      BY <1>1, <3>1 DEF StageAgrees
    <3> QED
      BY <1>1, <2>1, <3>2 DEF Push, Becomes, Moves, Pending
  <2>2. CASE Expire(c)
    BY <1>1, <2>2 DEF Expire, Becomes, Moves, Pending
  <2> QED
    BY <1>5, <2>1, <2>2
<1>6. CASE \E c \in Callers : GetHandle(c) \/ (c \notin busy /\ DropHandle(c))
  BY <1>1, <1>6 DEF GetHandle, DropHandle, Moves
<1>7. CASE \/ SeeNoSender \/ DrainCommand \/ EndDrain \/ BeginShutdown \/ PushShutdown
           \/ Join \/ DropGateway \/ UNCHANGED vars
  BY <1>1, <1>7 DEF SeeNoSender, DrainCommand, EndDrain, BeginShutdown, PushShutdown, Join,
                    DropGateway, vars, Moves
<1> QED
  BY <1>2, <1>3, <1>4, <1>5, <1>6, <1>7 DEF Runs

-----------------------------------------------------------------------------
(***************************************************************************)
(* What each kind of step does to the call of one caller.                  *)
(***************************************************************************)
LEMMA Who == Write \subseteq Callers /\ Uds \subseteq Callers /\ Http \subseteq Callers /\ Uds \cap Http = {}
BY RpcAssumption DEF Callers

LEMMA DispatchMoves ==
  ASSUME IInv, NEW c \in Callers, Dispatch(c)
  PROVE  /\ c \in live /\ c \notin busy /\ busy' = busy \cup {c} /\ stage[c] \in Returned
         /\ \E s \in Pending \cup {"overloaded", "closed"} :
              stage' = [stage EXCEPT ![c] = s] /\ (s = "closed" => loop = "stopped")
         /\ UNCHANGED <<live, owner, verdict, commits, dropped, snapshot>>
         /\ Count(Admitted(c))
BY DEF Dispatch, Call, Becomes, Pending

LEMMA DropMoves ==
  ASSUME IInv, NEW c \in Callers, DropRequest(c)
  PROVE  /\ c \in busy /\ c \in Http /\ busy' = busy \ {c}
         /\ \E s \in Returned \cup {"abandoned"} :
              /\ stage' = [stage EXCEPT ![c] = s]
              /\ s = "abandoned" => stage[c] = "queued"
              /\ s = "closed" => stage[c] = "closed"
         /\ UNCHANGED <<live, owner, counters, commits, snapshot>>
         /\ dropped' = dropped + IF c \in Write THEN 1 ELSE 0
         /\ Forget(c)
<1>1. stage \in [Callers -> Stages]
  BY DEF IInv, CallersOK
<1>2. CASE Cancel(c)
  BY <1>2 DEF DropRequest, Cancel, Becomes, Returned
<1>3. CASE stage[c] \in Returned /\ UNCHANGED vars
  <2>1. stage' = [stage EXCEPT ![c] = stage[c]]
    BY <1>1, <1>3 DEF vars
  <2>2. stage[c] # "abandoned"
    BY <1>3 DEF Returned
  <2> QED
    BY <1>3, <2>1, <2>2 DEF DropRequest, vars
<1> QED
  BY <1>2, <1>3 DEF DropRequest

LEMMA JudgeMoves ==
  ASSUME IInv, NEW v, Judge(v)
  PROVE  \E c \in Write :
           /\ stage[c] \in {"queued", "abandoned"}
           /\ stage' = [stage EXCEPT ![c] = IF stage[c] = "abandoned" THEN "idle" ELSE "served"]
           /\ verdict' = IF stage[c] = "queued" THEN [verdict EXCEPT ![c] = v] ELSE verdict
           /\ commits' = commits + IF v = "committed" THEN 1 ELSE 0
           /\ UNCHANGED <<live, owner, busy, counters, dropped, snapshot>>
           /\ c = Head(batch)
<1>1. ThreadOK /\ StageAgrees /\ Respond
  BY DEF IInv, CallersOK, Judge, AnswerWrite
<1>2. Head(batch) \in Write /\ Head(batch) \in Active
  BY <1>1, HeadTaken DEF ThreadOK, Respond, Active, Held
<1>3. stage[Head(batch)] \in {"queued", "abandoned"}
  BY <1>1, <1>2, Who DEF StageAgrees
<1> QED
  BY <1>2, <1>3 DEF Judge, AnswerWrite, Answered, Becomes

-----------------------------------------------------------------------------
(* Who is busy, and whose verdict is on the way. *)

LEMMA BusyKeeps == ASSUME IInv, BusyOK, VerdictOK, RpcStep PROVE BusyOK' /\ VerdictOK'
<1>1. stage \in [Callers -> Stages] /\ live \subseteq Callers /\ Write \cap Ask = {}
  BY InProcessAssumption DEF IInv, CallersOK
<1>2. ASSUME NEW c \in Callers, Dispatch(c) PROVE BusyOK' /\ VerdictOK'
  <2>1. PICK s \in Pending \cup {"overloaded", "closed"} : stage' = [stage EXCEPT ![c] = s]
    BY <1>2, DispatchMoves
  <2>2. /\ busy' = busy \cup {c} /\ c \in live /\ c \notin busy /\ UNCHANGED <<live, verdict>>
        /\ IsFiniteSet(busy')
    BY <1>2, DispatchMoves, FS_AddElement DEF BusyOK
  <2>3. BusyOK'
    BY <1>1, <2>1, <2>2, Who DEF BusyOK, Pending
  <2>4. VerdictOK'
    BY <1>1, <2>1, <2>2, Who DEF VerdictOK, Pending
  <2> QED
    BY <2>3, <2>4
<1>3. ASSUME NEW c \in Callers, Settle(c) PROVE BusyOK' /\ VerdictOK'
  <2>1. /\ busy' = busy \ {c} /\ c \in busy /\ UNCHANGED <<live, stage>> /\ Forget(c)
        /\ stage[c] \notin Pending /\ IsFiniteSet(busy')
    BY <1>3, FS_RemoveElement DEF Settle, vars, BusyOK, Pending
  <2>2. BusyOK'
    BY <2>1 DEF BusyOK
  <2>3. VerdictOK'
    BY <2>1 DEF VerdictOK, Forget
  <2> QED
    BY <2>2, <2>3
<1>4. ASSUME NEW c \in Callers, DropRequest(c) PROVE BusyOK' /\ VerdictOK'
  <2>1. PICK s \in Returned \cup {"abandoned"} : stage' = [stage EXCEPT ![c] = s]
    BY <1>4, DropMoves
  <2>2. /\ busy' = busy \ {c} /\ c \in busy /\ c \notin Uds /\ UNCHANGED live /\ Forget(c)
        /\ IsFiniteSet(busy')
    BY <1>4, DropMoves, Who, FS_RemoveElement DEF BusyOK
  <2>3. BusyOK'
    BY <1>1, <2>1, <2>2, Who DEF BusyOK, Pending, Returned
  <2>4. VerdictOK'
    BY <1>1, <2>1, <2>2, Who DEF VerdictOK, Forget
  <2> QED
    BY <2>3, <2>4
<1>5. ASSUME NEW v \in {"committed", "failed"}, Judge(v) PROVE BusyOK' /\ VerdictOK'
  <2>1. PICK c \in Write :
          /\ stage[c] \in {"queued", "abandoned"}
          /\ stage' = [stage EXCEPT ![c] = IF stage[c] = "abandoned" THEN "idle" ELSE "served"]
          /\ verdict' = IF stage[c] = "queued" THEN [verdict EXCEPT ![c] = v] ELSE verdict
          /\ UNCHANGED <<live, busy>>
    BY <1>5, JudgeMoves
  <2>2. BusyOK'
    BY <1>1, <2>1, Who DEF BusyOK, Pending
  <2>3. VerdictOK'
    <3>1. CASE stage[c] = "queued"
      <4>1. c \in busy /\ stage'[c] = "served" /\ \A d \in Callers \ {c} : stage'[d] = stage[d]
        BY <1>1, <2>1, <3>1, Who DEF BusyOK, Pending
      <4>2. verdict' = [verdict EXCEPT ![c] = v] /\ busy' = busy
        BY <2>1, <3>1
      <4> QED
        BY <4>1, <4>2, Who DEF VerdictOK
    <3>2. CASE stage[c] = "abandoned"
      <4>1. stage'[c] = "idle" /\ \A d \in Callers \ {c} : stage'[d] = stage[d]
        BY <1>1, <2>1, <3>2, Who
      <4>2. verdict' = verdict /\ busy' = busy
        BY <2>1, <3>2
      <4> QED
        BY <4>1, <4>2, <3>2, Who DEF VerdictOK
    <3> QED
      BY <2>1, <3>1, <3>2
  <2> QED
    BY <2>2, <2>3
<1>6. CASE Alongside(Runs)
  <2>1. /\ \A c \in Callers : Moves(c)
        /\ busy \subseteq live' /\ UNCHANGED <<busy, verdict>>
    BY <1>6, RunsMove DEF Alongside, rpcVars
  <2>2. BusyOK'
    <3>1. \A c \in Callers : stage'[c] \in Pending => c \in busy
      BY <2>1 DEF BusyOK, Moves, Pending
    <3>2. \A c \in busy : stage'[c] \in Pending \cup {"served", "overloaded", "closed"}
      <4>1. busy \subseteq Callers
        BY <1>1 DEF BusyOK
      <4> QED
        BY <2>1, <4>1 DEF BusyOK, Moves, Pending
    <3>3. \A u \in Uds : stage'[u] # "abandoned"
      BY <2>1, Who DEF BusyOK, Moves, Pending
    <3> QED
      BY <2>1, <3>1, <3>2, <3>3 DEF BusyOK
  <2>3. VerdictOK'
    BY <1>1, <2>1, Who DEF VerdictOK, Moves, Pending
  <2> QED
    BY <2>2, <2>3
<1>7. CASE SnapshotStep
  <2>1. UNCHANGED <<busy, live, stage, verdict>>
    BY <1>7 DEF SnapshotStep, BeginSnapshot, Load, ReturnSnapshot, vars
  <2> QED
    BY <2>1 DEF BusyOK, VerdictOK
<1> QED
  BY <1>2, <1>3, <1>4, <1>5, <1>6, <1>7 DEF RpcStep

-----------------------------------------------------------------------------
(* The counters. *)

\* The sets that are counted shrink, and nothing else happens.
LEMMA FewerCounted ==
  ASSUME CountsOK, UNCHANGED <<counters, commits>>,
         Outstanding' \subseteq Outstanding, ToldCommitted' \subseteq ToldCommitted,
         dropped' \in Nat,
         Cardinality(busy' \cap Write) + dropped' = Cardinality(busy \cap Write) + dropped,
         IsFiniteSet(busy \cap Write), IsFiniteSet(busy' \cap Write)
  PROVE  CountsOK'
<1>1. /\ IsFiniteSet(Outstanding') /\ Cardinality(Outstanding') \in Nat
      /\ Cardinality(Outstanding) \in Nat
      /\ Cardinality(Outstanding') <= Cardinality(Outstanding)
  BY FS_Subset, FS_CardinalityType DEF CountsOK
<1>2. /\ IsFiniteSet(ToldCommitted') /\ Cardinality(ToldCommitted') \in Nat
      /\ Cardinality(ToldCommitted) \in Nat
      /\ Cardinality(ToldCommitted') <= Cardinality(ToldCommitted)
  BY FS_Subset, FS_CardinalityType DEF CountsOK
<1>3. Cardinality(busy \cap Write) \in Nat /\ Cardinality(busy' \cap Write) \in Nat
  BY FS_CardinalityType
<1>4. Finished' = Finished /\ Finished \in Nat
  BY DEF CountsOK, Finished, Counters
<1> HIDE DEF Finished, Outstanding, ToldCommitted
<1>5. counters["accepted"] \in Nat /\ counters["committed"] \in Nat /\ counters["failed"] \in Nat
      /\ counters["rejected"] \in Nat
  BY DEF CountsOK, Counters
<1> QED
  BY <1>1, <1>2, <1>3, <1>4, <1>5 DEF CountsOK

LEMMA BusyWrites ==
  ASSUME BusyOK
  PROVE  /\ IsFiniteSet(busy \cap Write) /\ Cardinality(busy \cap Write) \in Nat
         /\ \A c \in busy : IF c \in Write
              THEN /\ (busy \ {c}) \cap Write = (busy \cap Write) \ {c}
                   /\ IsFiniteSet((busy \ {c}) \cap Write)
                   /\ Cardinality((busy \ {c}) \cap Write) = Cardinality(busy \cap Write) - 1
              ELSE (busy \ {c}) \cap Write = busy \cap Write
         /\ \A c \in Callers \ busy : IF c \in Write
              THEN Cardinality((busy \cup {c}) \cap Write) = Cardinality(busy \cap Write) + 1
              ELSE (busy \cup {c}) \cap Write = busy \cap Write
<1>1. IsFiniteSet(busy \cap Write) /\ Cardinality(busy \cap Write) \in Nat
  BY FS_Subset, FS_CardinalityType DEF BusyOK
<1>2. ASSUME NEW c \in busy
      PROVE  IF c \in Write
              THEN /\ (busy \ {c}) \cap Write = (busy \cap Write) \ {c}
                   /\ IsFiniteSet((busy \ {c}) \cap Write)
                   /\ Cardinality((busy \ {c}) \cap Write) = Cardinality(busy \cap Write) - 1
              ELSE (busy \ {c}) \cap Write = busy \cap Write
  <2>1. CASE c \in Write
    <3>1. (busy \ {c}) \cap Write = (busy \cap Write) \ {c} /\ c \in busy \cap Write
      BY <1>2, <2>1
    <3> QED
      BY <1>1, <2>1, <3>1, FS_RemoveElement
  <2>2. CASE c \notin Write
    BY <2>2
  <2> QED
    BY <2>1, <2>2
<1>3. ASSUME NEW c \in Callers \ busy
      PROVE  IF c \in Write
              THEN Cardinality((busy \cup {c}) \cap Write) = Cardinality(busy \cap Write) + 1
              ELSE (busy \cup {c}) \cap Write = busy \cap Write
  <2>1. CASE c \in Write
    <3>1. (busy \cup {c}) \cap Write = (busy \cap Write) \cup {c} /\ c \notin busy \cap Write
      BY <1>3, <2>1
    <3> QED
      BY <1>1, <2>1, <3>1, FS_AddElement
  <2>2. CASE c \notin Write
    BY <2>2
  <2> QED
    BY <2>1, <2>2
<1> QED
  BY <1>1, <1>2, <1>3

\* A request is accepted, with what it may come to.
LEMMA DispatchCounts ==
  ASSUME IInv, BusyOK, VerdictOK, CountsOK, NEW c \in Callers, Dispatch(c)
  PROVE  CountsOK'
<1>1. /\ c \in live /\ c \notin busy /\ busy' = busy \cup {c} /\ stage[c] \in Returned
      /\ UNCHANGED <<verdict, commits, dropped>> /\ Count(Admitted(c))
  BY DispatchMoves
<1>2. PICK s \in Pending \cup {"overloaded", "closed"} : stage' = [stage EXCEPT ![c] = s]
  BY DispatchMoves
<1>3. stage \in [Callers -> Stages]
  BY DEF IInv, CallersOK
<1>4. ToldCommitted' = ToldCommitted
  BY <1>1 DEF ToldCommitted
<1>5. /\ IsFiniteSet(busy \cap Write) /\ Cardinality(busy \cap Write) \in Nat
      /\ Cardinality(Outstanding) \in Nat /\ Cardinality(ToldCommitted) \in Nat
  BY BusyWrites, FS_CardinalityType DEF CountsOK
<1>6. /\ counters["accepted"] \in Nat /\ counters["committed"] \in Nat
      /\ counters["failed"] \in Nat /\ counters["rejected"] \in Nat
  BY DEF CountsOK, Counters
<1>7. CASE c \in Write
  <2>1. /\ counters' \in [Counters -> Nat] /\ counters'["accepted"] = counters["accepted"] + 1
        /\ counters'["committed"] = counters["committed"]
        /\ counters'["failed"] = counters["failed"] /\ counters'["rejected"] = counters["rejected"]
    BY <1>1, <1>6, <1>7 DEF Count, Admitted, Counters, CountsOK
  <2>2. Cardinality(busy' \cap Write) = Cardinality(busy \cap Write) + 1
    BY <1>1, <1>7, BusyWrites
  <2>3. c \notin Outstanding /\ Outstanding' \subseteq Outstanding \cup {c}
    BY <1>1, <1>2, <1>3, Who DEF Outstanding, Returned, Pending
  <2>4. /\ IsFiniteSet(Outstanding \cup {c})
        /\ Cardinality(Outstanding \cup {c}) = Cardinality(Outstanding) + 1
    BY <2>3, FS_AddElement DEF CountsOK
  <2>5. /\ IsFiniteSet(Outstanding') /\ Cardinality(Outstanding') \in Nat
        /\ Cardinality(Outstanding') <= Cardinality(Outstanding) + 1
    BY <2>3, <2>4, FS_Subset, FS_CardinalityType
  <2>6. Finished' = Finished /\ Finished \in Nat
    BY <2>1, <1>6 DEF Finished
  <2> HIDE DEF Outstanding, ToldCommitted, Finished
  <2> QED
    BY <1>1, <1>4, <1>5, <1>6, <2>1, <2>2, <2>5, <2>6 DEF CountsOK
<1>8. CASE c \notin Write
  <2>1. UNCHANGED counters
    BY <1>1, <1>8 DEF Count, Admitted, CountsOK, Counters
  <2>2. busy' \cap Write = busy \cap Write
    BY <1>1, <1>8
  <2>3. Outstanding' \subseteq Outstanding
    BY <1>1, <1>2, <1>3, <1>8, Who DEF Outstanding, Pending
  <2> HIDE DEF Outstanding, ToldCommitted
  <2> QED
    BY <1>1, <1>4, <1>5, <2>1, <2>2, <2>3, FewerCounted DEF CountsOK
<1> QED
  BY <1>7, <1>8

\* A request has its outcome, and is counted under it.
LEMMA SettleCounts ==
  ASSUME IInv, BusyOK, VerdictOK, CountsOK, NEW c \in Callers, Settle(c)
  PROVE  CountsOK'
<1>1. /\ c \in busy /\ busy' = busy \ {c} /\ UNCHANGED <<stage, commits, dropped>>
      /\ Count(IF c \in Write THEN Counted(c) ELSE {}) /\ Forget(c)
      /\ stage[c] \in {"served", "overloaded", "closed"}
  BY DEF Settle, vars
<1>2. /\ IsFiniteSet(busy \cap Write) /\ Cardinality(busy \cap Write) \in Nat
      /\ Cardinality(Outstanding) \in Nat /\ Cardinality(ToldCommitted) \in Nat
  BY BusyWrites, FS_CardinalityType DEF CountsOK
<1>3. /\ counters["accepted"] \in Nat /\ counters["committed"] \in Nat
      /\ counters["failed"] \in Nat /\ counters["rejected"] \in Nat
  BY DEF CountsOK, Counters
<1>4. CASE c \in Write
  <2>1. /\ verdict \in [Write -> {"none", "committed", "failed"}]
        /\ verdict' = [verdict EXCEPT ![c] = "none"]
        /\ verdict[c] = "none" <=> stage[c] # "served"
    BY <1>1, <1>4 DEF VerdictOK, Forget
  <2>2. Cardinality(busy' \cap Write) = Cardinality(busy \cap Write) - 1
    BY <1>1, <1>4, BusyWrites
  <2>3. Count(Counted(c))
    BY <1>1, <1>4
  <2>4. CASE verdict[c] = "committed"
    <3>1. Counted(c) = {"committed"}
      BY <1>4, <2>1, <2>4 DEF Counted, Outcome
    <3>2. /\ counters' \in [Counters -> Nat] /\ counters'["accepted"] = counters["accepted"]
          /\ counters'["committed"] = counters["committed"] + 1
          /\ counters'["failed"] = counters["failed"] /\ counters'["rejected"] = counters["rejected"]
      BY <1>3, <2>3, <3>1 DEF Count, Counters, CountsOK
    <3>3. c \in ToldCommitted /\ ToldCommitted' = ToldCommitted \ {c}
      BY <1>4, <2>1, <2>4 DEF ToldCommitted
    <3>4. /\ IsFiniteSet(ToldCommitted')
          /\ Cardinality(ToldCommitted') = Cardinality(ToldCommitted) - 1
      BY <3>3, FS_RemoveElement DEF CountsOK
    <3>5. Outstanding' = Outstanding
      BY <1>1, <1>4, <2>1, <2>4 DEF Outstanding
    <3>6. Finished' = Finished + 1 /\ Finished \in Nat
      BY <1>3, <3>2 DEF Finished
    <3> HIDE DEF Outstanding, ToldCommitted, Finished
    <3> QED
      BY <1>1, <1>2, <1>3, <2>2, <3>2, <3>4, <3>5, <3>6 DEF CountsOK
  <2>5. CASE verdict[c] # "committed"
    <3>1. Counted(c) \in {{"failed"}, {"rejected"}}
      BY <1>1, <1>4, <2>1, <2>5 DEF Counted, Outcome
    <3>2. /\ counters' \in [Counters -> Nat] /\ counters'["accepted"] = counters["accepted"]
          /\ counters'["committed"] = counters["committed"]
          /\ counters'["failed"] + counters'["rejected"] = counters["failed"] + counters["rejected"] + 1
          /\ counters'["failed"] \in Nat /\ counters'["rejected"] \in Nat
      BY <1>3, <2>3, <3>1 DEF Count, Counters, CountsOK
    <3>3. ToldCommitted' = ToldCommitted
      BY <1>4, <2>1, <2>5 DEF ToldCommitted
    <3>4. c \in Outstanding /\ Outstanding' = Outstanding \ {c}
      BY <1>1, <1>4, <2>1, <2>5 DEF Outstanding
    <3>5. /\ IsFiniteSet(Outstanding') /\ Cardinality(Outstanding') = Cardinality(Outstanding) - 1
      BY <3>4, FS_RemoveElement DEF CountsOK
    <3>6. Finished' = Finished + 1 /\ Finished \in Nat
      BY <1>3, <3>2 DEF Finished
    <3> HIDE DEF Outstanding, ToldCommitted, Finished
    <3> QED
      BY <1>1, <1>2, <1>3, <2>2, <3>2, <3>3, <3>5, <3>6 DEF CountsOK
  <2> QED
    BY <2>4, <2>5
<1>5. CASE c \notin Write
  <2>1. UNCHANGED <<counters, verdict>>
    BY <1>1, <1>5 DEF Count, CountsOK, Forget, Counters
  <2>2. busy' \cap Write = busy \cap Write
    BY <1>1, <1>5
  <2>3. Outstanding' = Outstanding /\ ToldCommitted' = ToldCommitted
    BY <1>1, <1>5, <2>1 DEF Outstanding, ToldCommitted
  <2> HIDE DEF Outstanding, ToldCommitted
  <2> QED
    BY <1>1, <1>2, <2>1, <2>2, <2>3, FewerCounted DEF CountsOK
<1> QED
  BY <1>4, <1>5

\* A request loses its handler: it may still commit if it was queued.
LEMMA DropCounts ==
  ASSUME IInv, BusyOK, VerdictOK, CountsOK, NEW c \in Callers, DropRequest(c)
  PROVE  CountsOK'
<1>1. /\ c \in busy /\ busy' = busy \ {c} /\ UNCHANGED <<counters, commits>> /\ Forget(c)
      /\ dropped' = dropped + IF c \in Write THEN 1 ELSE 0
  BY DropMoves
<1>2. PICK s \in Returned \cup {"abandoned"} :
        stage' = [stage EXCEPT ![c] = s] /\ (s = "abandoned" => stage[c] = "queued")
  BY DropMoves
<1>3. stage \in [Callers -> Stages] /\ verdict \in [Write -> {"none", "committed", "failed"}]
  BY DEF IInv, CallersOK, VerdictOK
<1>4. c \in Write /\ stage[c] = "queued" => verdict[c] = "none"
  BY DEF VerdictOK
<1>5. ToldCommitted' \subseteq ToldCommitted
  BY <1>1, <1>3 DEF ToldCommitted, Forget
<1>6. Outstanding' \subseteq Outstanding
  <2>1. ASSUME NEW d \in Write, d \in Outstanding' PROVE d \in Outstanding
    <3>1. CASE d = c
      BY <1>1, <1>2, <1>3, <1>4, <2>1, <3>1, Who DEF Outstanding
    <3>2. CASE d # c
      BY <1>1, <1>2, <1>3, <2>1, <3>2, Who DEF Outstanding, Forget
    <3> QED
      BY <3>1, <3>2
  <2>2. Outstanding' \subseteq Write
    BY DEF Outstanding
  <2> QED
    BY <2>1, <2>2
<1>7. /\ dropped' \in Nat /\ IsFiniteSet(busy \cap Write) /\ IsFiniteSet(busy' \cap Write)
      /\ Cardinality(busy' \cap Write) + dropped' = Cardinality(busy \cap Write) + dropped
  <2>1. dropped \in Nat /\ Cardinality(busy \cap Write) \in Nat /\ IsFiniteSet(busy \cap Write)
    BY BusyWrites DEF CountsOK
  <2>2. CASE c \in Write
    <3>1. /\ IsFiniteSet(busy' \cap Write)
          /\ Cardinality(busy' \cap Write) = Cardinality(busy \cap Write) - 1
      BY <1>1, <2>2, BusyWrites
    <3> QED
      BY <1>1, <2>1, <2>2, <3>1
  <2>3. CASE c \notin Write
    <3>1. busy' \cap Write = busy \cap Write /\ dropped' = dropped
      BY <1>1, <2>1, <2>3
    <3>2. Cardinality(busy' \cap Write) = Cardinality(busy \cap Write)
      BY <3>1
    <3>3. IsFiniteSet(busy' \cap Write)
      BY <2>1, <3>1
    <3> QED
      BY <2>1, <3>1, <3>2, <3>3
  <2> QED
    BY <2>2, <2>3
<1> HIDE DEF Outstanding, ToldCommitted
<1> QED
  BY <1>1, <1>5, <1>6, <1>7, FewerCounted

\* The writer answers: what it committed is committed, whoever hears of it.
LEMMA JudgeCounts ==
  ASSUME IInv, BusyOK, VerdictOK, CountsOK, NEW v \in {"committed", "failed"}, Judge(v)
  PROVE  CountsOK'
<1>1. PICK c \in Write :
        /\ stage[c] \in {"queued", "abandoned"}
        /\ stage' = [stage EXCEPT ![c] = IF stage[c] = "abandoned" THEN "idle" ELSE "served"]
        /\ verdict' = IF stage[c] = "queued" THEN [verdict EXCEPT ![c] = v] ELSE verdict
        /\ commits' = commits + IF v = "committed" THEN 1 ELSE 0
        /\ UNCHANGED <<busy, counters, dropped>>
  BY JudgeMoves
<1>2. stage \in [Callers -> Stages] /\ verdict \in [Write -> {"none", "committed", "failed"}]
  BY DEF IInv, CallersOK, VerdictOK
<1>3. /\ IsFiniteSet(busy \cap Write) /\ Cardinality(busy \cap Write) \in Nat
      /\ Cardinality(Outstanding) \in Nat /\ Cardinality(ToldCommitted) \in Nat
      /\ IsFiniteSet(Outstanding) /\ IsFiniteSet(ToldCommitted)
  BY BusyWrites, FS_CardinalityType DEF CountsOK
<1>4. /\ counters["accepted"] \in Nat /\ counters["committed"] \in Nat
      /\ counters["failed"] \in Nat /\ counters["rejected"] \in Nat /\ Finished' = Finished
  BY <1>1 DEF CountsOK, Counters, Finished
<1>5. c \in Outstanding /\ verdict[c] = "none"
  <2>1. c \in Callers /\ (stage[c] = "queued" => c \in busy)
    BY Who DEF BusyOK, Pending
  <2> QED
    BY <1>1, <1>2, <2>1 DEF VerdictOK, Outstanding
<1>6. /\ \A d \in Write \ {c} : stage'[d] = stage[d] /\ verdict'[d] = verdict[d]
      /\ stage'[c] # "abandoned"
      /\ IF stage[c] = "queued" THEN verdict'[c] = v ELSE verdict'[c] = "none"
      /\ stage[c] = "abandoned" => c \notin busy
  BY <1>1, <1>2, <1>5, Who DEF BusyOK, Pending
<1>7. CASE v = "committed"
  <2>1. Outstanding' = Outstanding \ {c}
    BY <1>1, <1>5, <1>6, <1>7 DEF Outstanding
  <2>2. /\ IsFiniteSet(Outstanding') /\ Cardinality(Outstanding') = Cardinality(Outstanding) - 1
    BY <1>3, <1>5, <2>1, FS_RemoveElement
  <2>3. ToldCommitted' \subseteq ToldCommitted \cup {c}
    BY <1>6 DEF ToldCommitted
  <2>4. c \notin ToldCommitted
    BY <1>5 DEF ToldCommitted
  <2>5. /\ IsFiniteSet(ToldCommitted \cup {c})
        /\ Cardinality(ToldCommitted \cup {c}) = Cardinality(ToldCommitted) + 1
    BY <1>3, <2>4, FS_AddElement
  <2>6. /\ IsFiniteSet(ToldCommitted') /\ Cardinality(ToldCommitted') \in Nat
        /\ Cardinality(ToldCommitted') <= Cardinality(ToldCommitted) + 1
    BY <2>3, <2>5, FS_Subset, FS_CardinalityType
  <2> HIDE DEF Outstanding, ToldCommitted, Finished
  <2> QED
    BY <1>1, <1>3, <1>4, <1>7, <2>2, <2>6 DEF CountsOK
<1>8. CASE v = "failed"
  <2>1. Outstanding' \subseteq Outstanding
    BY <1>1, <1>5, <1>6 DEF Outstanding
  <2>2. ToldCommitted' \subseteq ToldCommitted
    BY <1>5, <1>6, <1>8 DEF ToldCommitted
  <2>3. commits' = commits
    BY <1>1, <1>8 DEF CountsOK
  <2> HIDE DEF Outstanding, ToldCommitted
  <2> QED
    BY <1>1, <1>3, <2>1, <2>2, <2>3, FewerCounted DEF CountsOK
<1> QED
  BY <1>7, <1>8

LEMMA CountsKeep ==
  ASSUME IInv, BusyOK, VerdictOK, CountsOK, RpcStep
  PROVE  CountsOK'
<1>1. CASE Alongside(Runs)
  <2>1. UNCHANGED <<busy, verdict, counters, commits, dropped>> /\ \A c \in Callers : Moves(c)
    BY <1>1, RunsMove DEF Alongside, rpcVars
  <2>2. Outstanding' \subseteq Outstanding /\ ToldCommitted' = ToldCommitted
    BY <2>1, Who DEF Outstanding, ToldCommitted, Moves, Pending
  <2> HIDE DEF Outstanding, ToldCommitted
  <2> QED
    BY <2>1, <2>2, BusyWrites, FewerCounted DEF CountsOK
<1>2. CASE SnapshotStep
  <2>1. UNCHANGED <<stage, busy, verdict, counters, commits, dropped>>
    BY <1>2 DEF SnapshotStep, BeginSnapshot, Load, ReturnSnapshot, vars
  <2>2. Outstanding' = Outstanding /\ ToldCommitted' = ToldCommitted
    BY <2>1 DEF Outstanding, ToldCommitted
  <2> HIDE DEF Outstanding, ToldCommitted
  <2> QED
    BY <2>1, <2>2, BusyWrites, FewerCounted DEF CountsOK
<1> QED
  BY <1>1, <1>2, DispatchCounts, SettleCounts, DropCounts, JudgeCounts DEF RpcStep

-----------------------------------------------------------------------------
(* A snapshot in the making. *)

LEMMA CountersGrow ==
  ASSUME IInv, CountsOK, RpcStep
  PROVE  /\ SnapshotStep => UNCHANGED counters
         /\ ~SnapshotStep => UNCHANGED snapshot
         /\ \A f \in Counters : counters'[f] >= counters[f] /\ counters'[f] \in Nat
<1>1. counters \in [Counters -> Nat]
  BY DEF CountsOK
<1>2. ASSUME NEW fs, Count(fs)
      PROVE  \A f \in Counters : counters'[f] >= counters[f] /\ counters'[f] \in Nat
  BY <1>1, <1>2 DEF Count
<1>3. CASE SnapshotStep
  <2>1. UNCHANGED counters
    BY <1>3 DEF SnapshotStep, BeginSnapshot, Load, ReturnSnapshot
  <2> QED
    BY <1>1, <1>3, <2>1
<1>4. CASE \E c \in Callers : Dispatch(c) \/ Settle(c)
  BY <1>2, <1>3, <1>4 DEF Dispatch, Settle
<1>5. CASE (\E c \in Callers : DropRequest(c)) \/ (\E v \in {"committed", "failed"} : Judge(v))
           \/ Alongside(Runs)
  BY <1>1, <1>3, <1>5 DEF DropRequest, Judge, Alongside, rpcVars
<1> QED
  BY <1>3, <1>4, <1>5 DEF RpcStep

LEMMA SnapshotKeeps == ASSUME IInv, CountsOK, SnapshotOK, RpcStep PROVE SnapshotOK'
<1>1. /\ \A f \in Counters : counters[f] \in Nat
      /\ \A f \in Counters : counters'[f] >= counters[f] /\ counters'[f] \in Nat
  BY CountersGrow DEF CountsOK
<1>2. CASE UNCHANGED snapshot
  BY <1>1, <1>2 DEF SnapshotOK, Loaded, Counters
<1>3. CASE BeginSnapshot
  <2>1. /\ snapshot' = [on |-> TRUE, unread |-> Counters, accepted |-> 0, finished |-> 0,
                        since |-> counters["accepted"]]
        /\ UNCHANGED counters
    BY <1>3 DEF BeginSnapshot, NoSnapshot
  <2> QED
    BY <1>1, <2>1 DEF SnapshotOK, Loaded, Counters
<1>4. ASSUME NEW f \in Counters, Load(f) PROVE SnapshotOK'
  <2>1. /\ f \in snapshot.unread /\ UNCHANGED counters
        /\ snapshot \in [on : BOOLEAN, unread : SUBSET Counters, accepted : Nat, finished : Nat,
                         since : Nat]
    BY <1>4 DEF Load, SnapshotOK
  <2>2. /\ snapshot'.unread = snapshot.unread \ {f} /\ snapshot'.on = snapshot.on
        /\ snapshot'.since = snapshot.since
        /\ snapshot'.accepted = IF f = "accepted" THEN counters[f] ELSE snapshot.accepted
        /\ snapshot'.finished = IF f # "accepted" THEN snapshot.finished + counters[f]
                                ELSE snapshot.finished
        /\ snapshot' \in [on : BOOLEAN, unread : SUBSET Counters, accepted : Nat, finished : Nat,
                          since : Nat]
    <3> DEFINE a == IF f = "accepted" THEN counters[f] ELSE snapshot.accepted
               b == IF f # "accepted" THEN snapshot.finished + counters[f] ELSE snapshot.finished
    <3>1. a \in Nat /\ b \in Nat
      BY <1>1, <2>1
    <3>2. snapshot' = [on |-> snapshot.on, unread |-> snapshot.unread \ {f}, accepted |-> a,
                       finished |-> b, since |-> snapshot.since]
      BY <1>4, <2>1 DEF Load
    <3> QED
      BY <2>1, <3>1, <3>2
  <2>3. \A g \in Counters : Loaded(g)' = IF g = f THEN counters[f] ELSE Loaded(g)
    BY <2>1, <2>2 DEF Loaded
  <2>4. Loaded(f) = 0 /\ \A g \in Counters : Loaded(g) \in Nat
    BY <1>1, <2>1 DEF Loaded
  <2> HIDE DEF Loaded
  <2>5. ASSUME snapshot.on
        PROVE  snapshot'.finished <= Loaded("committed")' + Loaded("failed")' + Loaded("rejected")'
    BY <1>1, <2>1, <2>2, <2>3, <2>4, <2>5 DEF SnapshotOK, Counters
  <2>6. ASSUME snapshot.on
        PROVE  /\ snapshot'.since <= counters'["accepted"]
               /\ "accepted" \notin snapshot'.unread => snapshot'.since <= snapshot'.accepted
    BY <1>1, <2>1, <2>2, <2>6 DEF SnapshotOK, Counters
  <2> QED
    BY <2>2, <2>5, <2>6 DEF SnapshotOK
<1>5. CASE ReturnSnapshot
  BY <1>5 DEF ReturnSnapshot, NoSnapshot, SnapshotOK, Counters
<1> QED
  BY <1>2, <1>3, <1>4, <1>5, CountersGrow DEF SnapshotStep

LEMMA RpcKeeps == ASSUME IInv, RpcOK, RpcStep PROVE RpcOK'
BY BusyKeeps, CountsKeep, SnapshotKeeps DEF RpcOK

-----------------------------------------------------------------------------
(***************************************************************************)
(* The servers.  A request is taken up by the task that serves its         *)
(* connection, or on an open HTTP connection.                              *)
(***************************************************************************)
LEMMA Idles ==
  ASSUME TasksOK, UNCHANGED <<task, exited>>, busy' \cap Uds \subseteq busy
  PROVE  TasksOK'
BY DEF TasksOK

LEMMA ServesTasks ==
  ASSUME IInv, BusyOK, TasksOK, ~exited, exited' = exited, NEW u \in Uds, ServerStep(u)
  PROVE  TasksOK'
<1>1. u \in Callers /\ task \in [Uds -> {"none", "up", "over"}]
  BY Who DEF TasksOK
<1>2. ASSUME NEW result, NEW last, Reply(u, result, last), busy' \subseteq busy, u \notin busy'
      PROVE  TasksOK'
  BY <1>1, <1>2 DEF Reply, TasksOK
<1>3. ASSUME Dispatch(u), task[u] = "up", task' = task PROVE TasksOK'
  <2>1. busy' = busy \cup {u}
    BY <1>1, <1>3, DispatchMoves
  <2> QED
    BY <1>1, <1>3, <2>1 DEF TasksOK
<1>4. CASE TakeLine(u) \/ TakeRest(u)
  <2>1. CASE TakeRest(u) \/ (TakeLine(u) /\ Dispatch(u) /\ UNCHANGED task)
    BY <1>3, <2>1 DEF TakeLine, TakeRest, Idle
  <2>2. ASSUME TakeLine(u), Reply(u, Result(Head(toServer[u]).call, "invalid"), Head(toServer[u]).form = "long"),
               UNCHANGED <<vars, rpcVars, serving>>
        PROVE  TasksOK'
    BY <1>2, <2>2 DEF TakeLine, Idle, rpcVars
  <2> QED
    BY <1>4, <2>1, <2>2 DEF TakeLine
<1>5. CASE Answer(u)
  BY <1>2, <1>5 DEF Answer, Settle
<1>6. CASE SeeEof(u)
  BY <1>1, <1>6 DEF SeeEof, Idle, TasksOK, rpcVars
<1>7. CASE ReleaseHandle(u)
  BY <1>7, Idles DEF ReleaseHandle, Alongside, rpcVars, connVars, serverVars
<1> QED
  BY <1>4, <1>5, <1>6, <1>7 DEF ServerStep

LEMMA HttpTasks ==
  ASSUME IInv, TasksOK, UNCHANGED <<task, exited>>, NEW h \in Http,
         Dispatch(h) \/ Settle(h) \/ DropRequest(h)
  PROVE  TasksOK'
<1>1. h \in Callers /\ h \notin Uds
  BY Who
<1>2. busy' \subseteq busy \cup {h}
  BY <1>1, DispatchMoves, DropMoves DEF Settle
<1> QED
  BY <1>1, <1>2, Idles

LEMMA MainTasks ==
  ASSUME TasksOK, ~exited, MainStep \/ PressCtrlC \/ WriterRuns \/ UdsStep \/ AcceptFails \/ HttpStep
  PROVE  TasksOK'
<1>1. CASE Exit
  BY <1>1 DEF Exit, Hangup, TasksOK
<1>2. CASE EndUds
  BY <1>2 DEF EndUds, Hangup, Backlog, TasksOK, rpcVars
<1>3. ASSUME NEW u \in Uds, Accept(u) PROVE TasksOK'
  BY <1>3 DEF Accept, TasksOK, Alongside, rpcVars, lifeVars
<1>4. CASE BindUdsFails
  BY <1>4 DEF BindUdsFails, TasksOK, Alongside, rpcVars, connVars, serverVars
<1>5. CASE SpawnUds \/ SpawnHttp \/ PressCtrlC \/ BindUds \/ BindHttp \/ HttpHears \/ HttpEnds
  <2>1. UNCHANGED <<rpcVars, connVars, exited>>
    BY <1>5 DEF SpawnUds, SpawnHttp, PressCtrlC, BindUds, BindHttp, HttpHears, HttpEnds
  <2> QED
    BY <2>1, Idles DEF rpcVars, connVars, serverVars
<1>6. CASE ShutDown \/ FinishShutdown \/ WriterRuns
  <2>1. UNCHANGED <<busy, task, exited>>
    BY <1>6 DEF ShutDown, FinishShutdown, WriterRuns, JudgeCall, Judge, Alongside, rpcVars, connVars,
                serverVars, lifeVars
  <2> QED
    BY <2>1, Idles
<1> QED
  BY <1>1, <1>2, <1>3, <1>4, <1>5, <1>6 DEF MainStep, UdsStep, UdsHears, AcceptFails, HttpStep

LEMMA TasksKeep == ASSUME IInv, BusyOK, TasksOK, [ServeNext]_serveVars PROVE TasksOK'
<1>1. CASE UNCHANGED serveVars \/ AtRest
  <2>1. UNCHANGED <<busy, task, exited>>
    BY <1>1 DEF AtRest, serveVars, rpcVars, connVars, serverVars, lifeVars
  <2> QED
    BY <2>1, Idles
<1>2. ASSUME NEW u \in Uds, Connect(u) \/ (ClientStep(u) /\ UNCHANGED lifeVars) PROVE TasksOK'
  <2>1. UNCHANGED <<busy, task, exited>>
    BY <1>2, ClientRpc DEF Connect, rpcVars, serverVars, lifeVars
  <2> QED
    BY <2>1, Idles
<1>3. CASE ~exited /\ ProcessStep
  <2>1. CASE MainStep \/ PressCtrlC \/ WriterRuns \/ UdsStep \/ AcceptFails \/ HttpStep
    BY <1>3, <2>1, MainTasks
  <2>2. ASSUME NEW u \in Uds, ServesLine(u) PROVE TasksOK'
    BY <1>3, <2>2, ServesTasks DEF ServesLine, lifeVars
  <2>3. ASSUME NEW h \in Http, Request(h) \/ Respond200(h) \/ GoAway(h) PROVE TasksOK'
    <3>1. UNCHANGED <<task, exited>> /\ (Dispatch(h) \/ Settle(h) \/ DropRequest(h))
      BY <2>3 DEF Request, Respond200, GoAway, connVars, serverVars, lifeVars
    <3> QED
      BY <3>1, HttpTasks
  <2>4. ASSUME \/ \E h \in Http : Open(h) \/ Close(h)
               \/ \E c \in Callers : Wakes(c) \/ TimerFires(c)
               \/ SnapshotStep /\ UNCHANGED <<connVars, lifeVars>>
        PROVE  TasksOK'
    <3>1. UNCHANGED <<busy, task, exited>>
      BY <2>4 DEF Open, Close, Wakes, TimerFires, Alongside, SnapshotStep, BeginSnapshot, Load,
                  ReturnSnapshot, rpcVars, connVars, serverVars, lifeVars
    <3> QED
      BY <3>1, Idles
  <2> QED
    BY <1>3, <2>1, <2>2, <2>3, <2>4 DEF ProcessStep, HttpServes
<1> QED
  BY <1>1, <1>2, <1>3 DEF ServeNext

LEMMA HandlesStay ==
  ASSUME OwnerOK, UNCHANGED <<http, owner>>, live' \cap Http \subseteq live
  PROVE  OwnerOK'
BY DEF OwnerOK

LEMMA RequestOwner ==
  ASSUME IInv, NEW c \in Callers, Dispatch(c) \/ Settle(c) \/ DropRequest(c)
  PROVE  UNCHANGED <<live, owner>>
BY DispatchMoves, DropMoves DEF Settle, vars

LEMMA MainOwner ==
  ASSUME OwnerOK, MainStep \/ PressCtrlC \/ UdsStep \/ AcceptFails \/ HttpStep
  PROVE  OwnerOK'
<1>1. CASE SpawnUds \/ PressCtrlC \/ BindUds \/ EndUds \/ Exit
  <2>1. UNCHANGED <<live, http, owner>>
    BY <1>1 DEF SpawnUds, PressCtrlC, BindUds, EndUds, Exit, vars
  <2> QED
    BY <2>1, HandlesStay
<1>2. CASE SpawnHttp \/ HttpStep
  <2>1. UNCHANGED <<live, owner>>
    BY <1>2 DEF SpawnHttp, HttpStep, BindHttp, HttpHears, HttpEnds, vars
  <2> QED
    BY <1>2, <2>1 DEF SpawnHttp, HttpStep, BindHttp, HttpHears, HttpEnds, OwnerOK
<1>3. CASE BindUdsFails \/ ShutDown
  BY <1>3 DEF BindUdsFails, Alone, DropGateway, ShutDown, ServersEnded, BeginShutdown, Alongside,
              lifeVars, vars, OwnerOK
<1>4. CASE FinishShutdown
  BY <1>4 DEF FinishShutdown, PushShutdown, Join, Alongside, lifeVars, OwnerOK
<1>5. ASSUME NEW u \in Uds, Accept(u) PROVE OwnerOK'
  <2>1. UNCHANGED <<http, owner>> /\ live' = live \cup {u} /\ u \notin Http
    BY <1>5, Who DEF Accept, Alongside, GetHandle, lifeVars
  <2> QED
    BY <2>1, HandlesStay
<1> QED
  BY <1>1, <1>2, <1>3, <1>4, <1>5 DEF MainStep, UdsStep, UdsHears, AcceptFails

LEMMA OwnerKeepsServing == ASSUME IInv, OwnerOK, [ServeNext]_serveVars PROVE OwnerOK'
<1>1. CASE UNCHANGED serveVars \/ AtRest
  <2>1. UNCHANGED <<live, http, owner>>
    BY <1>1 DEF AtRest, serveVars, vars, lifeVars
  <2> QED
    BY <2>1, HandlesStay
<1>2. ASSUME NEW u \in Uds, Connect(u) \/ (ClientStep(u) /\ UNCHANGED lifeVars) PROVE OwnerOK'
  <2>1. UNCHANGED <<live, http, owner>>
    BY <1>2, ClientRpc DEF Connect, vars, lifeVars
  <2> QED
    BY <2>1, HandlesStay
<1>3. CASE ~exited /\ ProcessStep
  <2>1. CASE MainStep \/ PressCtrlC \/ UdsStep \/ AcceptFails \/ HttpStep
    BY <2>1, MainOwner
  <2>2. CASE WriterRuns
    <3>1. UNCHANGED <<live, owner, http>>
      BY <2>2 DEF WriterRuns, JudgeCall, Judge, AnswerWrite, ReceiveCommand, SeeNoSender, DrainCommand,
                  EndDrain, HandleDeferred, DropReceiver, Alongside, lifeVars
    <3> QED
      BY <3>1, HandlesStay
  <2>3. ASSUME NEW u \in Uds, ServesLine(u) PROVE OwnerOK'
    <3>1. u \in Callers /\ UNCHANGED http
      BY <2>3, Who DEF ServesLine, lifeVars
    <3>2. UNCHANGED owner /\ live' \subseteq live
      BY <2>3, <3>1, RequestOwner DEF ServesLine, ServerStep, TakeLine, TakeRest, SeeEof, Answer,
                                      ReleaseHandle, Alongside, DropHandle, vars
    <3> QED
      BY <3>1, <3>2, HandlesStay
  <2>4. ASSUME NEW h \in Http, Request(h) \/ Respond200(h) \/ GoAway(h) PROVE OwnerOK'
    <3>1. UNCHANGED http /\ (Dispatch(h) \/ Settle(h) \/ DropRequest(h)) /\ h \in Callers
      BY <2>4, Who DEF Request, Respond200, GoAway, lifeVars
    <3> QED
      BY <3>1, RequestOwner, HandlesStay
  <2>5. ASSUME NEW h \in Http, Open(h) \/ Close(h) PROVE OwnerOK'
    BY <2>5 DEF Open, Close, Alongside, GetHandle, DropHandle, lifeVars, OwnerOK
  <2>6. ASSUME NEW c \in Callers, Wakes(c) \/ TimerFires(c) PROVE OwnerOK'
    BY <2>6, HandlesStay DEF Wakes, TimerFires, Alongside, Push, Expire, lifeVars
  <2>7. CASE SnapshotStep /\ UNCHANGED <<connVars, lifeVars>>
    BY <2>7, HandlesStay DEF SnapshotStep, BeginSnapshot, Load, ReturnSnapshot, vars, lifeVars
  <2> QED
    BY <1>3, <2>1, <2>2, <2>3, <2>4, <2>5, <2>6, <2>7 DEF ProcessStep, HttpServes
<1> QED
  BY <1>1, <1>2, <1>3 DEF ServeNext

\* While an HTTP connection is open the gateway is, and its thread listens.
LEMMA OpenIsOpen ==
  ASSUME IInv, OwnerOK, NEW h \in Http, h \in live
  PROVE  loop \notin {"exiting", "stopped"}
<1>1. owner = "open"
  BY DEF OwnerOK
<1> QED
  BY <1>1 DEF IInv, CallersOK, ClosedOnlyByShutdown, Senders

LEMMA NoneClosed ==
  ASSUME IInv, RpcOK, ServersOK, RpcStep
  PROVE  \A h \in Http : stage'[h] # "closed"
<1> SUFFICES ASSUME NEW h \in Http PROVE stage'[h] # "closed"
  OBVIOUS
<1>1. /\ h \in Callers /\ stage[h] # "closed" /\ stage \in [Callers -> Stages] /\ StageAgrees
      /\ BusyOK /\ OwnerOK
  BY Who DEF ServersOK, RpcOK, IInv, CallersOK
<1>2. ASSUME NEW c \in Callers, Dispatch(c) PROVE stage'[h] # "closed"
  <2>1. PICK s \in Pending \cup {"overloaded", "closed"} :
          stage' = [stage EXCEPT ![c] = s] /\ (s = "closed" => loop = "stopped")
    BY <1>2, DispatchMoves
  <2>2. c = h => s # "closed"
    BY <1>1, <1>2, <2>1, DispatchMoves, OpenIsOpen
  <2> QED
    BY <1>1, <2>1, <2>2
<1>3. ASSUME NEW c \in Callers, DropRequest(c) PROVE stage'[h] # "closed"
  BY <1>1, <1>3, DropMoves
<1>4. CASE \E v \in {"committed", "failed"} : Judge(v)
  BY <1>1, <1>4, JudgeMoves, Who
<1>5. CASE Alongside(Runs)
  <2>1. Moves(h)
    BY <1>1, <1>5, RunsMove DEF Alongside
  <2>2. stage[h] \in Pending => loop # "exiting"
    BY <1>1, OpenIsOpen DEF StageAgrees
  <2> QED
    BY <1>1, <2>1, <2>2 DEF Moves, Pending
<1>6. CASE SnapshotStep \/ \E c \in Callers : Settle(c)
  <2>1. UNCHANGED stage
    BY <1>6 DEF SnapshotStep, BeginSnapshot, Load, ReturnSnapshot, Settle, vars
  <2> QED
    BY <1>1, <2>1
<1> QED
  BY <1>2, <1>3, <1>4, <1>5, <1>6 DEF RpcStep

-----------------------------------------------------------------------------
(* The whole invariant, and what it says. *)

ServeInv == IInv /\ RpcOK /\ ServersOK

LEMMA InitServeInv == ServeInit => ServeInv
<1> SUFFICES ASSUME ServeInit PROVE ServeInv
  OBVIOUS
<1>1. Init /\ RpcInit /\ ConnInit /\ Transports /\ exited = FALSE /\ live = {} /\ owner = "open"
  BY DEF ServeInit, RpcInit, Init
<1>2. IInv
  BY <1>1, InitIInv
<1>3. stage = [c \in Callers |-> "idle"]
  BY <1>1 DEF Init
<1>4. BusyOK /\ VerdictOK
  BY <1>1, <1>3, Who, FS_EmptySet DEF RpcInit, BusyOK, VerdictOK, Pending
<1>5. CountsOK
  <2>1. Outstanding = {} /\ ToldCommitted = {} /\ busy \cap Write = {}
    BY <1>1, <1>3, Who DEF RpcInit, Outstanding, ToldCommitted
  <2>2. /\ counters \in [Counters -> Nat] /\ \A f \in Counters : counters[f] = 0
        /\ commits = 0 /\ dropped = 0 /\ IsFiniteSet({}) /\ Cardinality({}) = 0
    BY <1>1, FS_EmptySet DEF RpcInit
  <2> QED
    BY <2>1, <2>2 DEF CountsOK, Finished, Counters
<1>6. SnapshotOK
  BY <1>1 DEF RpcInit, SnapshotOK, NoSnapshot, Counters
<1>7. ServersOK
  BY <1>1, <1>3, Who DEF ConnInit, RpcInit, ServersOK, TasksOK, OwnerOK
<1> QED
  BY <1>2, <1>4, <1>5, <1>6, <1>7 DEF ServeInv, RpcOK

LEMMA NextServeInv == ServeInv /\ [ServeNext]_serveVars => ServeInv'
<1> SUFFICES ASSUME ServeInv, [ServeNext]_serveVars PROVE ServeInv'
  OBVIOUS
<1>1. IInv /\ RpcOK /\ ServersOK /\ BusyOK /\ TasksOK /\ OwnerOK
  BY DEF ServeInv, RpcOK, ServersOK
<1>2. RpcStep
  BY <1>1, ServeRpc
<1>3. IInv' /\ RpcOK'
  BY <1>1, <1>2, RpcKeepsIInv, RpcKeeps
<1>4. ServersOK'
  BY <1>1, <1>2, TasksKeep, OwnerKeepsServing, NoneClosed DEF ServersOK
<1> QED
  BY <1>3, <1>4 DEF ServeInv

(***************************************************************************)
(* The gateway with its servers, its statistics and its clients keeps the  *)
(* invariant: the channel and the thread as they are without them, who     *)
(* waits for an answer, what is counted, and who is served by whom.        *)
(***************************************************************************)
THEOREM ServeInvHolds == ServeSpec => []ServeInv
BY InitServeInv, NextServeInv, PTL DEF ServeSpec

(***************************************************************************)
(* Accepted requests are the counted ones, those being executed and those  *)
(* that lost their handler, and no counter says of a write what did not    *)
(* happen (dispatch_execute, with handlers dropped at its await).          *)
(***************************************************************************)
THEOREM CountersCorrect == ServeSpec => []CountersTrue
<1>1. ServeInv => CountersTrue
  <2> SUFFICES ASSUME ServeInv PROVE CountersTrue
    OBVIOUS
  <2>1. CountsOK
    BY DEF ServeInv, RpcOK
  <2>2. Cardinality(ToldCommitted) \in Nat /\ Cardinality(Outstanding) \in Nat
    BY <2>1, FS_CardinalityType DEF CountsOK
  <2>3. /\ counters["accepted"] \in Nat /\ counters["committed"] \in Nat
        /\ counters["failed"] \in Nat /\ counters["rejected"] \in Nat
    BY <2>1 DEF CountsOK, Counters
  <2> HIDE DEF ToldCommitted, Outstanding
  <2> QED
    BY <2>1, <2>2, <2>3 DEF CountsOK, CountersTrue
<1> QED
  BY <1>1, ServeInvHolds, PTL

(***************************************************************************)
(* A snapshot shows more finished than accepted requests by at most those  *)
(* accepted while it was taken (the relaxed loads of Stats::snapshot).     *)
(***************************************************************************)
THEOREM SnapshotCorrect == ServeSpec => []SnapshotBounds
<1>1. ServeInv => SnapshotBounds
  <2> SUFFICES ASSUME ServeInv, snapshot.on, snapshot.unread = {}
               PROVE  snapshot.finished <=
                        snapshot.accepted + (counters["accepted"] - snapshot.since)
    BY DEF SnapshotBounds
  <2>1. CountsOK /\ SnapshotOK /\ BusyOK
    BY DEF ServeInv, RpcOK
  <2>2. Cardinality(busy \cap Write) \in Nat /\ dropped \in Nat
    BY <2>1, BusyWrites DEF CountsOK
  <2>3. /\ counters["accepted"] \in Nat /\ counters["committed"] \in Nat
        /\ counters["failed"] \in Nat /\ counters["rejected"] \in Nat
    BY <2>1 DEF CountsOK, Counters
  <2>4. /\ snapshot.finished <= Finished /\ snapshot.since <= snapshot.accepted
        /\ snapshot.finished \in Nat /\ snapshot.since \in Nat /\ snapshot.accepted \in Nat
    BY <2>1 DEF SnapshotOK, Loaded, Finished
  <2>5. Finished <= counters["accepted"] /\ Finished \in Nat
    BY <2>1, <2>2, <2>3 DEF CountsOK, Finished
  <2> QED
    BY <2>3, <2>4, <2>5
<1> QED
  BY <1>1, ServeInvHolds, PTL

(***************************************************************************)
(* No HTTP client is told GatewayClosed, and none has a command left when  *)
(* the gateway is closed: shutdown comes after the last connection (main,  *)
(* with_graceful_shutdown).                                                *)
(***************************************************************************)
THEOREM HttpNeverClosedCorrect == ServeSpec => []HttpNeverClosed
<1>1. ServeInv => HttpNeverClosed
  BY DEF ServeInv, RpcOK, BusyOK, ServersOK, OwnerOK, HttpNeverClosed
<1> QED
  BY <1>1, ServeInvHolds, PTL

-----------------------------------------------------------------------------
(***************************************************************************)
(* The conversation of one client: the calls it made, the replies it has,  *)
(* and what is on its way between them, oldest first: toClient, serving,   *)
(* toServer, and the unfinished line.                                      *)
(***************************************************************************)
Whats == {"none", "io", "eof", "dropped", "invalid", "committed", "failed", "overloaded", "closed"}

Results == [of : Nat, what : Whats]
Lines   == [call : Nat, form : Forms \cup {"long", "broken"}]

SessionTypes ==
  /\ link \in [Uds -> {"none", "up", "gone"}] /\ reading \in [Uds -> BOOLEAN]
  /\ calls \in [Uds -> 0..MaxCalls] /\ serving \in [Uds -> 0..MaxCalls]
  /\ toServer \in [Uds -> Seq(Lines)] /\ toClient \in [Uds -> Seq(Results)]
  /\ fragment \in [Uds -> {"none", "part", "whole"}]
  /\ got \in [Uds -> [1..MaxCalls -> Results]]
  /\ fate \in [Uds -> [1..MaxCalls -> {"none", "committed", "failed"}]]

\* The client has no reply to call k or a later one.
NotReplied(u, k) == \A n \in 1..MaxCalls : got[u][n].of < k

\* Nor is any on its way, and none of them has been executed.
Fresh(u, k) ==
  /\ k \in 1..calls[u] /\ serving[u] < k /\ NotReplied(u, k)
  /\ \A r \in ToSet(toClient[u]) : r.of < k
  /\ \A n \in 1..MaxCalls : fate[u][n] # "none" => n < k

\* No call up to n was dropped.
Patient(u, n) == \A m \in 1..n : got[u][m].what # "dropped"

GotOK(u) ==
  /\ \A n \in 1..MaxCalls : got[u][n].of <= n /\ (n > calls[u] => got[u][n] = Pristine)
  /\ \A m, n \in 1..MaxCalls : m < n /\ Replied(u, n) => got[u][m].of < got[u][n].of
  /\ \A n \in 1..MaxCalls : Replied(u, n) /\ Patient(u, n - 1) => got[u][n].of = n
  /\ reading[u] => calls[u] > 0 /\ got[u][calls[u]] = Pristine
  /\ link[u] # "up" => ~reading[u]

ToClientOK(u) ==
  /\ \A i, j \in 1..Len(toClient[u]) : i < j => toClient[u][i].of < toClient[u][j].of
  /\ \A r \in ToSet(toClient[u]) : r.of \in 1..calls[u] /\ NotReplied(u, r.of)

ServingOK(u) ==
  /\ u \in busy <=> serving[u] # 0
  /\ serving[u] <= calls[u]
  /\ serving[u] # 0 => NotReplied(u, serving[u]) /\ \A r \in ToSet(toClient[u]) : r.of < serving[u]

ToServerOK(u) ==
  /\ \A i, j \in 1..Len(toServer[u]) : i < j => toServer[u][i].call < toServer[u][j].call
  /\ \A line \in ToSet(toServer[u]) : Fresh(u, line.call)

\* A line that was cut is that of a dropped call, the last one if it can still
\* be executed.
FragmentOK(u) ==
  /\ fragment[u] # "none" => ~reading[u] /\ ~Patient(u, calls[u])
  /\ fragment[u] = "whole" /\ task[u] # "over" =>
       Fresh(u, calls[u]) /\ \A line \in ToSet(toServer[u]) : line.call < calls[u]

\* Between a client that drops no calls and its server there is at most the
\* call it waits for.
PatientOK(u) ==
  /\ reading[u] /\ Patient(u, calls[u] - 1) =>
       /\ \A r \in ToSet(toClient[u]) : r.of = calls[u]
       /\ serving[u] \in {0, calls[u]}
       /\ \A line \in ToSet(toServer[u]) : line.call = calls[u]
  /\ ~reading[u] /\ Patient(u, calls[u]) =>
       /\ toClient[u] = << >>
       /\ task[u] # "over" => serving[u] = 0 /\ toServer[u] = << >>

\* The truth about a call is what its reply says of it.
Truth(r) == IF r.what \in {"committed", "failed"} THEN r.what ELSE "none"

FateOK(u) ==
  /\ \A n \in 1..MaxCalls : fate[u][n] # "none" => n <= calls[u]
  /\ u \in busy => fate[u][serving[u]] = verdict[u]
  /\ \A n \in 1..MaxCalls : Replied(u, n) => fate[u][got[u][n].of] = Truth(got[u][n])
  /\ \A r \in ToSet(toClient[u]) : fate[u][r.of] = Truth(r)

SessionOK(u) ==
  /\ GotOK(u) /\ ToClientOK(u) /\ ServingOK(u) /\ ToServerOK(u)
  /\ FragmentOK(u) /\ PatientOK(u) /\ FateOK(u)

-----------------------------------------------------------------------------
(* Replies and lines in the order of their calls. *)

LEMMA NothingIsEmpty ==
  ASSUME NEW S, NEW s \in Seq(S), ToSet(s) = {}
  PROVE  s = << >>
<1>1. Len(s) \in Nat /\ DOMAIN s = 1..Len(s) /\ \A i \in 1..Len(s) : s[i] \in ToSet(s)
  BY DEF ToSet
<1>2. Len(s) = 0
  BY <1>1
<1> QED
  BY <1>2

LEMMA RepliesTaken ==
  ASSUME NEW s \in Seq(Results), s # << >>,
         \A i, j \in 1..Len(s) : i < j => s[i].of < s[j].of
  PROVE  /\ \A i, j \in 1..Len(Tail(s)) : i < j => Tail(s)[i].of < Tail(s)[j].of
         /\ \A r \in ToSet(Tail(s)) : Head(s).of < r.of
<1>1. /\ Len(s) \in Nat \ {0} /\ Len(Tail(s)) = Len(s) - 1 /\ Head(s) = s[1]
      /\ \A i \in 1..(Len(s) - 1) : Tail(s)[i] = s[i + 1]
      /\ DOMAIN Tail(s) = 1..(Len(s) - 1)
  OBVIOUS
<1>2. ASSUME NEW i \in 1..Len(Tail(s)), NEW j \in 1..Len(Tail(s)), i < j
      PROVE  Tail(s)[i].of < Tail(s)[j].of
  <2>1. i + 1 \in 1..Len(s) /\ j + 1 \in 1..Len(s) /\ i + 1 < j + 1
    BY <1>1, <1>2
  <2> QED
    BY <1>1, <1>2, <2>1
<1>3. ASSUME NEW i \in 1..(Len(s) - 1) PROVE Head(s).of < Tail(s)[i].of
  <2>1. 1 \in 1..Len(s) /\ i + 1 \in 1..Len(s) /\ 1 < i + 1
    BY <1>1
  <2> QED
    BY <1>1, <2>1
<1> QED
  BY <1>1, <1>2, <1>3 DEF ToSet

LEMMA LinesTaken ==
  ASSUME NEW s \in Seq(Lines), s # << >>,
         \A i, j \in 1..Len(s) : i < j => s[i].call < s[j].call
  PROVE  /\ \A i, j \in 1..Len(Tail(s)) : i < j => Tail(s)[i].call < Tail(s)[j].call
         /\ \A line \in ToSet(Tail(s)) : Head(s).call < line.call
<1>1. /\ Len(s) \in Nat \ {0} /\ Len(Tail(s)) = Len(s) - 1 /\ Head(s) = s[1]
      /\ \A i \in 1..(Len(s) - 1) : Tail(s)[i] = s[i + 1]
      /\ DOMAIN Tail(s) = 1..(Len(s) - 1)
  OBVIOUS
<1>2. ASSUME NEW i \in 1..Len(Tail(s)), NEW j \in 1..Len(Tail(s)), i < j
      PROVE  Tail(s)[i].call < Tail(s)[j].call
  <2>1. i + 1 \in 1..Len(s) /\ j + 1 \in 1..Len(s) /\ i + 1 < j + 1
    BY <1>1, <1>2
  <2> QED
    BY <1>1, <1>2, <2>1
<1>3. ASSUME NEW i \in 1..(Len(s) - 1) PROVE Head(s).call < Tail(s)[i].call
  <2>1. 1 \in 1..Len(s) /\ i + 1 \in 1..Len(s) /\ 1 < i + 1
    BY <1>1
  <2> QED
    BY <1>1, <2>1
<1> QED
  BY <1>1, <1>2, <1>3 DEF ToSet

LEMMA ReplyAdded ==
  ASSUME NEW s \in Seq(Results), NEW e \in Results,
         \A i, j \in 1..Len(s) : i < j => s[i].of < s[j].of,
         \A r \in ToSet(s) : r.of < e.of
  PROVE  \A i, j \in 1..Len(Append(s, e)) : i < j => Append(s, e)[i].of < Append(s, e)[j].of
<1>1. /\ Len(s) \in Nat /\ Len(Append(s, e)) = Len(s) + 1 /\ Append(s, e)[Len(s) + 1] = e
      /\ \A i \in 1..Len(s) : Append(s, e)[i] = s[i] /\ s[i] \in ToSet(s)
  BY DEF ToSet
<1> QED
  BY <1>1

LEMMA LineAdded ==
  ASSUME NEW s \in Seq(Lines), NEW e \in Lines,
         \A i, j \in 1..Len(s) : i < j => s[i].call < s[j].call,
         \A line \in ToSet(s) : line.call < e.call
  PROVE  \A i, j \in 1..Len(Append(s, e)) : i < j => Append(s, e)[i].call < Append(s, e)[j].call
<1>1. /\ Len(s) \in Nat /\ Len(Append(s, e)) = Len(s) + 1 /\ Append(s, e)[Len(s) + 1] = e
      /\ \A i \in 1..Len(s) : Append(s, e)[i] = s[i] /\ s[i] \in ToSet(s)
  BY DEF ToSet
<1> QED
  BY <1>1

-----------------------------------------------------------------------------
(* The other conversations. *)

\* Nothing happens to a conversation but that a connection is made, or that the
\* server's end of it begins or ends.
LEMMA SessionStays ==
  ASSUME NEW u \in Uds, SessionOK(u),
         calls'[u] = calls[u], reading'[u] = reading[u], serving'[u] = serving[u],
         toServer'[u] = toServer[u], toClient'[u] = toClient[u], fragment'[u] = fragment[u],
         got'[u] = got[u], fate'[u] = fate[u],
         link'[u] \in {link[u], "up"},
         task[u] = "over" => task'[u] = "over",
         u \in busy' <=> u \in busy, u \in busy => verdict'[u] = verdict[u]
  PROVE  SessionOK(u)'
<1>1. GotOK(u)'
  BY DEF SessionOK, GotOK, Patient, Replied
<1>2. ToClientOK(u)' /\ ServingOK(u)'
  BY DEF SessionOK, ToClientOK, ServingOK, NotReplied
<1>3. \A k : Fresh(u, k)' <=> Fresh(u, k)
  BY DEF Fresh, NotReplied
<1>4. ToServerOK(u)'
  BY <1>3 DEF SessionOK, ToServerOK, Fresh, NotReplied
<1>5. FragmentOK(u)'
  BY <1>3 DEF SessionOK, FragmentOK, Patient, Fresh, NotReplied
<1>6. PatientOK(u)'
  BY DEF SessionOK, PatientOK, Patient
<1>7. FateOK(u)'
  BY DEF SessionOK, FateOK, Replied, Truth
<1> QED
  BY <1>1, <1>2, <1>4, <1>5, <1>6, <1>7 DEF SessionOK

-----------------------------------------------------------------------------
(* The client's steps. *)

\* What the clients cannot touch.
ServerStays == UNCHANGED <<busy, verdict, fate, task, serving>>

LEMMA NextCallIs ==
  ASSUME SessionTypes, NEW u \in Uds, NextCall(u)
  PROVE  /\ link[u] = "up" /\ ~reading[u] /\ calls[u] \in 0..MaxCalls
         /\ calls[u] + 1 \in 1..MaxCalls
         /\ calls' \in [Uds -> 0..MaxCalls] /\ calls'[u] = calls[u] + 1
         /\ \A w \in Uds \ {u} : calls'[w] = calls[w]
BY ConnectionAssumption DEF SessionTypes, NextCall

LEMMA SendLineKeeps ==
  ASSUME SessionTypes, NEW u \in Uds, SessionOK(u), SendLine(u), ServerStays
  PROVE  SessionTypes' /\ SessionOK(u)'
<1>0. PICK k : k = calls[u] + 1
  OBVIOUS
<1>1. /\ link[u] = "up" /\ ~reading[u] /\ calls[u] \in 0..MaxCalls /\ k \in 1..MaxCalls
      /\ calls' \in [Uds -> 0..MaxCalls] /\ calls'[u] = k
  BY <1>0, NextCallIs DEF SendLine
<1>2. PICK line \in Lines : line.call = k /\ toServer' = [toServer EXCEPT ![u] = Append(@, line)]
  <2>1. PICK form \in Forms : \E s \in Merged(u, form) :
          toServer' = [toServer EXCEPT ![u] = Append(@, [call |-> k, form |-> s])]
    BY <1>0, <1>1 DEF SendLine
  <2>2. PICK sent \in Merged(u, form) :
          toServer' = [toServer EXCEPT ![u] = Append(@, [call |-> k, form |-> sent])]
    BY <2>1
  <2>3. [call |-> k, form |-> sent] \in Lines
    BY <1>1, <2>1, <2>2 DEF Lines, Merged
  <2> QED
    BY <2>2, <2>3
<1>3. /\ fragment' = [fragment EXCEPT ![u] = "none"] /\ reading' = [reading EXCEPT ![u] = TRUE]
      /\ UNCHANGED <<link, got, toClient>> /\ ServerStays /\ task[u] # "over"
  BY DEF SendLine
<1>4. /\ toServer[u] \in Seq(Lines) /\ toServer'[u] = Append(toServer[u], line)
      /\ fragment'[u] = "none" /\ reading'[u] = TRUE
      /\ ToSet(toServer'[u]) = ToSet(toServer[u]) \cup {line}
  BY <1>2, <1>3, AppendedOnce DEF SessionTypes
<1>5. /\ serving[u] \in 0..MaxCalls /\ got[u] \in [1..MaxCalls -> Results]
      /\ toClient[u] \in Seq(Results) /\ fate[u] \in [1..MaxCalls -> {"none", "committed", "failed"}]
      /\ k = calls[u] + 1
  BY <1>0 DEF SessionTypes
<1>6. SessionTypes'
  BY <1>1, <1>2, <1>3, AppendedOnce DEF SessionTypes, ServerStays
<1>7. /\ \A n \in 1..MaxCalls : got[u][n].of < k
      /\ \A n \in 1..MaxCalls : n >= k => got[u][n] = Pristine
  <2>1. ASSUME NEW n \in 1..MaxCalls PROVE got[u][n].of < k /\ (n >= k => got[u][n] = Pristine)
    <3>1. got[u][n].of \in Nat /\ got[u][n].of <= n /\ (n > calls[u] => got[u][n] = Pristine)
      BY <1>5 DEF SessionOK, GotOK, Results
    <3>2. Pristine.of = 0
      BY DEF Pristine, Result
    <3> QED
      BY <1>1, <1>5, <3>1, <3>2
  <2> QED
    BY <2>1
<1>8. GotOK(u)'
  <2>1. \A n \in 1..MaxCalls : n > k => got[u][n] = Pristine
    BY <1>1, <1>7
  <2>2. k > 0 /\ got[u][k] = Pristine
    BY <1>1, <1>7
  <2>3. GotOK(u)
    BY DEF SessionOK
  <2> QED
    BY <1>1, <1>3, <2>1, <2>2, <2>3 DEF GotOK, Patient, Replied
<1>9. ToClientOK(u)' /\ ServingOK(u)'
  BY <1>1, <1>3, <1>5 DEF SessionOK, ToClientOK, ServingOK, NotReplied, ServerStays
<1>10. \A j \in Nat : Fresh(u, j) => Fresh(u, j)' /\ j < k
  BY <1>1, <1>3, <1>5 DEF Fresh, NotReplied, ServerStays
<1>11. Fresh(u, k)'
  <2>1. serving[u] < k /\ \A r \in ToSet(toClient[u]) : r.of < k
    BY <1>1, <1>5 DEF SessionOK, ToClientOK, ServingOK
  <2>2. \A n \in 1..MaxCalls : fate[u][n] # "none" => n < k
    BY <1>1, <1>5 DEF SessionOK, FateOK
  <2> QED
    BY <1>1, <1>3, <1>7, <2>1, <2>2 DEF Fresh, NotReplied, ServerStays
<1>12. ToServerOK(u)'
  <2>1. \A l \in ToSet(toServer[u]) : l.call \in Nat /\ Fresh(u, l.call)
    BY <1>1 DEF SessionOK, ToServerOK, Fresh
  <2>2. \A i, j \in 1..Len(toServer'[u]) : i < j => toServer'[u][i].call < toServer'[u][j].call
    BY <1>2, <1>4, <1>10, <2>1, LineAdded DEF SessionOK, ToServerOK
  <2>3. \A l \in ToSet(toServer'[u]) : Fresh(u, l.call)'
    <3>1. Fresh(u, line.call)'
      BY <1>2, <1>11 DEF Fresh, NotReplied
    <3>2. \A l \in ToSet(toServer[u]) : Fresh(u, l.call)'
      BY <1>10, <2>1
    <3> QED
      BY <1>4, <3>1, <3>2
  <2> QED
    BY <2>2, <2>3 DEF ToServerOK, Fresh, NotReplied
<1>13. FragmentOK(u)'
  BY <1>4 DEF FragmentOK
<1>14. PatientOK(u)'
  <2>1. ASSUME Patient(u, k - 1)'
        PROVE  toClient[u] = << >> /\ serving[u] = 0 /\ toServer[u] = << >>
    <3>1. Patient(u, calls[u])
      <4>1. k - 1 = calls[u]
        BY <1>1, <1>5
      <4> QED
        BY <1>3, <2>1, <4>1 DEF Patient
    <3> QED
      BY <1>1, <1>3, <3>1 DEF SessionOK, PatientOK
  <2>2. ASSUME Patient(u, k - 1)'
        PROVE  /\ \A r \in ToSet(toClient'[u]) : r.of = k
               /\ serving'[u] \in {0, k}
               /\ \A l \in ToSet(toServer'[u]) : l.call = k
    <3>1. ToSet(toClient'[u]) = {} /\ ToSet(toServer'[u]) = {line} /\ serving'[u] = 0
      BY <1>3, <1>4, <2>1, <2>2, EmptyHasNothing DEF ServerStays
    <3> QED
      BY <1>2, <3>1
  <2> QED
    BY <1>1, <1>4, <2>2 DEF PatientOK, Patient
<1>15. FateOK(u)'
  BY <1>1, <1>3, <1>5 DEF SessionOK, FateOK, Replied, Truth, ServerStays
<1> QED
  BY <1>6, <1>8, <1>9, <1>12, <1>13, <1>14, <1>15 DEF SessionOK

\* What a call returns, and what that says of the ones before it.
LEMMA Returns ==
  ASSUME SessionTypes, NEW u \in Uds, NEW k \in 1..MaxCalls, NEW result \in Results,
         Return(u, k, result)
  PROVE  /\ got' \in [Uds -> [1..MaxCalls -> Results]]
         /\ got'[u][k] = result
         /\ \A n \in 1..MaxCalls : n # k => got'[u][n] = got[u][n]
         /\ \A w \in Uds \ {u} : got'[w] = got[w]
         /\ \A j \in Nat : j < k => (Patient(u, j)' <=> Patient(u, j))
<1>1. /\ got \in [Uds -> [1..MaxCalls -> Results]] /\ got' = [got EXCEPT ![u][k] = result]
      /\ k \in Nat
  BY ConnectionAssumption DEF SessionTypes, Return
<1>2. /\ got'[u][k] = result /\ got' \in [Uds -> [1..MaxCalls -> Results]]
      /\ \A n \in 1..MaxCalls : n # k => got'[u][n] = got[u][n]
      /\ \A w \in Uds \ {u} : got'[w] = got[w]
  BY <1>1
<1>3. ASSUME NEW j \in Nat, j < k PROVE Patient(u, j)' <=> Patient(u, j)
  <2>1. \A m \in 1..j : m \in 1..MaxCalls /\ m # k
    BY <1>1, <1>3, ConnectionAssumption
  <2> QED
    BY <1>2, <2>1 DEF Patient
<1> QED
  BY <1>2, <1>3

LEMMA NoLineKeeps ==
  ASSUME SessionTypes, NEW u \in Uds, SessionOK(u), SendFails(u) \/ CutLine(u), ServerStays
  PROVE  SessionTypes' /\ SessionOK(u)'
<1>0. PICK k : k = calls[u] + 1
  OBVIOUS
<1>1. /\ link[u] = "up" /\ ~reading[u] /\ calls[u] \in 0..MaxCalls /\ k \in 1..MaxCalls
      /\ calls' \in [Uds -> 0..MaxCalls] /\ calls'[u] = k /\ k = calls[u] + 1
  BY <1>0, NextCallIs DEF SendFails, CutLine
<1>2. PICK what \in {"io", "dropped"} :
        /\ Return(u, k, Result(0, what))
        /\ what = "io" => task[u] = "over" /\ fragment' = fragment
        /\ what = "dropped" => fragment' \in [Uds -> {"none", "part", "whole"}]
  <2>1. CASE SendFails(u)
    BY <1>1, <2>1 DEF SendFails, wireVars
  <2>2. CASE CutLine(u)
    <3>1. Return(u, k, Result(0, "dropped"))
      BY <1>1, <2>2 DEF CutLine
    <3>2. fragment' \in [Uds -> {"none", "part", "whole"}]
      BY <2>2 DEF CutLine, SessionTypes
    <3> QED
      BY <3>1, <3>2
  <2> QED
    BY <2>1, <2>2
<1>3. UNCHANGED <<link, reading, toServer, toClient>> /\ ServerStays
  BY DEF SendFails, CutLine, wireVars
<1>4. /\ got' \in [Uds -> [1..MaxCalls -> Results]] /\ got'[u][k].of = 0 /\ got'[u][k].what = what
      /\ \A n \in 1..MaxCalls : n # k => got'[u][n] = got[u][n]
      /\ \A j \in Nat : j < k => (Patient(u, j)' <=> Patient(u, j))
  <2>1. Result(0, what) \in Results /\ Result(0, what).of = 0 /\ Result(0, what).what = what
    BY <1>2 DEF Result, Results, Whats
  <2> QED
    BY <1>1, <1>2, <2>1, Returns
<1>5. /\ serving[u] \in 0..MaxCalls /\ got[u] \in [1..MaxCalls -> Results]
      /\ toClient[u] \in Seq(Results) /\ toServer[u] \in Seq(Lines)
      /\ fate[u] \in [1..MaxCalls -> {"none", "committed", "failed"}]
  BY DEF SessionTypes
<1>6. SessionTypes'
  BY <1>1, <1>2, <1>3, <1>4 DEF SessionTypes, ServerStays
<1>7. ASSUME NEW n \in 1..MaxCalls
      PROVE  /\ got'[u][n].of \in Nat /\ got'[u][n].of <= n /\ got'[u][n].of <= got[u][n].of
             /\ n > k => got'[u][n] = Pristine
             /\ got'[u][n].of # 0 => n < k /\ n \in 1..calls[u] /\ got'[u][n] = got[u][n]
  <2>1. /\ got[u][n].of \in Nat /\ got[u][n].of <= n /\ (n > calls[u] => got[u][n] = Pristine)
        /\ Pristine.of = 0
    BY <1>5 DEF SessionOK, GotOK, Results, Pristine, Result
  <2>2. CASE n = k
    BY <1>1, <1>4, <2>1, <2>2
  <2>3. CASE n # k
    <3>1. got'[u][n] = got[u][n]
      BY <1>4, <2>3
    <3>2. n > calls[u] <=> n > k
      BY <1>1, <2>3
    <3> QED
      BY <1>1, <2>1, <2>3, <3>1, <3>2
  <2> QED
    BY <2>2, <2>3
<1>8. GotOK(u)'
  <2>1. ASSUME NEW m \in 1..MaxCalls, NEW n \in 1..MaxCalls, m < n, got'[u][n].of # 0
        PROVE  got'[u][m].of < got'[u][n].of
    <3>1. m < k /\ n < k /\ got'[u][n] = got[u][n] /\ got'[u][m] = got[u][m]
      BY <1>1, <1>4, <1>7, <2>1
    <3> QED
      BY <2>1, <3>1 DEF SessionOK, GotOK, Replied
  <2>2. ASSUME NEW n \in 1..MaxCalls, got'[u][n].of # 0, Patient(u, n - 1)'
        PROVE  got'[u][n].of = n
    <3>1. n < k /\ n - 1 \in Nat /\ n - 1 < k /\ got'[u][n] = got[u][n]
      BY <1>1, <1>7, <2>2
    <3>2. Patient(u, n - 1)
      BY <1>4, <2>2, <3>1
    <3> QED
      BY <2>2, <3>1, <3>2 DEF SessionOK, GotOK, Replied
  <2>3. \A n \in 1..MaxCalls : Replied(u, n)' /\ Patient(u, n - 1)' => got'[u][n].of = n
    BY <2>2 DEF Replied
  <2> QED
    BY <1>1, <1>3, <1>7, <2>1, <2>3 DEF GotOK, Replied, Patient
<1>9. \A j \in Nat : NotReplied(u, j) => NotReplied(u, j)'
  <2> SUFFICES ASSUME NEW j \in Nat, NotReplied(u, j), NEW n \in 1..MaxCalls
               PROVE  got'[u][n].of < j
    BY DEF NotReplied
  <2>1. got[u][n].of < j /\ got[u][n].of \in Nat
    BY <1>5 DEF NotReplied, Results
  <2> QED
    BY <1>7, <2>1
<1>10. ToClientOK(u)'
  <2>1. \A r \in ToSet(toClient[u]) : r.of \in 1..k /\ r.of \in Nat /\ NotReplied(u, r.of)
    BY <1>1 DEF SessionOK, ToClientOK
  <2>2. \A r \in ToSet(toClient[u]) : NotReplied(u, r.of)'
    BY <1>9, <2>1
  <2> QED
    BY <1>1, <1>3, <2>1, <2>2 DEF SessionOK, ToClientOK, NotReplied
<1>11. ServingOK(u)'
  <2>1. PICK j : j = serving[u]
    OBVIOUS
  <2>2. j # 0 => NotReplied(u, j)'
    BY <1>5, <1>9, <2>1 DEF SessionOK, ServingOK
  <2> QED
    BY <1>1, <1>3, <1>5, <2>1, <2>2 DEF SessionOK, ServingOK, NotReplied, ServerStays
<1>12. \A j \in Nat : Fresh(u, j) => Fresh(u, j)' /\ j < k
  <2> SUFFICES ASSUME NEW j \in Nat, Fresh(u, j) PROVE Fresh(u, j)' /\ j < k
    OBVIOUS
  <2>1. NotReplied(u, j)' /\ j \in 1..calls[u]
    BY <1>9 DEF Fresh
  <2>2. j < k /\ j \in 1..k
    BY <1>1, <2>1
  <2> QED
    BY <1>1, <1>3, <2>1, <2>2 DEF Fresh, NotReplied, ServerStays
<1>13. \A line \in ToSet(toServer[u]) : line.call \in Nat /\ line.call < k /\ Fresh(u, line.call)'
  BY <1>1, <1>12 DEF SessionOK, ToServerOK, Fresh
<1>14. ToServerOK(u)'
  BY <1>3, <1>13 DEF SessionOK, ToServerOK, Fresh, NotReplied
<1>15. Fresh(u, k)'
  <2>1. serving[u] < k /\ \A r \in ToSet(toClient[u]) : r.of < k
    BY <1>1, <1>5 DEF SessionOK, ToClientOK, ServingOK
  <2>2. \A n \in 1..MaxCalls : fate[u][n] # "none" => n < k
    BY <1>1, <1>5 DEF SessionOK, FateOK
  <2>3. \A n \in 1..MaxCalls : got'[u][n].of < k
    <3> SUFFICES ASSUME NEW n \in 1..MaxCalls PROVE got'[u][n].of < k
      OBVIOUS
    <3> QED
      BY <1>1, <1>7
  <2> QED
    BY <1>1, <1>3, <2>1, <2>2, <2>3 DEF Fresh, NotReplied, ServerStays
<1>16. Patient(u, k)' => what = "io" /\ Patient(u, calls[u])
  <2>1. Patient(u, k)' => what = "io" /\ Patient(u, calls[u])'
    BY <1>1, <1>2, <1>4 DEF Patient
  <2>2. Patient(u, k)' => \A m \in 1..calls[u] : got[u][m].what # "dropped"
    <3> SUFFICES ASSUME Patient(u, k)', NEW m \in 1..calls[u] PROVE got[u][m].what # "dropped"
      OBVIOUS
    <3>1. m \in 1..k /\ m \in 1..MaxCalls /\ m # k
      BY <1>1, ConnectionAssumption
    <3> QED
      BY <1>1, <1>4, <3>1 DEF Patient
  <2> QED
    BY <1>1, <1>2, <1>4, <2>2 DEF Patient
<1>17. FragmentOK(u)'
  <2>1. fragment'[u] # "none" => ~Patient(u, k)'
    BY <1>2, <1>16 DEF SessionOK, FragmentOK
  <2>2. ASSUME fragment'[u] = "whole", task'[u] # "over"
        PROVE  Fresh(u, k)' /\ \A line \in ToSet(toServer'[u]) : line.call < k
    BY <1>3, <1>13, <1>15
  <2> QED
    BY <1>1, <1>3, <2>1, <2>2 DEF FragmentOK, Patient, Fresh, NotReplied
<1>18. PatientOK(u)'
  <2>1. ASSUME Patient(u, k)' PROVE toClient'[u] = << >> /\ task'[u] = "over"
    BY <1>1, <1>2, <1>3, <1>16, <2>1 DEF SessionOK, PatientOK, ServerStays
  <2> QED
    BY <1>1, <1>3, <2>1 DEF PatientOK, Patient
<1>19. FateOK(u)'
  <2>1. \A n \in 1..MaxCalls : Replied(u, n)' => Replied(u, n) /\ got'[u][n] = got[u][n]
    BY <1>7 DEF Replied
  <2>2. FateOK(u)
    BY DEF SessionOK
  <2>3. \A n \in 1..MaxCalls : fate[u][n] # "none" => n <= k
    BY <1>1, <2>2 DEF FateOK
  <2> QED
    BY <1>1, <1>3, <2>1, <2>2, <2>3 DEF FateOK, Replied, Truth, ServerStays
<1> QED
  BY <1>6, <1>8, <1>10, <1>11, <1>14, <1>17, <1>18, <1>19 DEF SessionOK

LEMMA ReadLostKeeps ==
  ASSUME SessionTypes, NEW u \in Uds, SessionOK(u), ReadEof(u) \/ CancelRead(u), ServerStays
  PROVE  SessionTypes' /\ SessionOK(u)'
<1>0. PICK k : k = calls[u]
  OBVIOUS
<1>1. /\ reading[u] /\ k = calls[u] /\ k \in 1..MaxCalls /\ got[u][k] = Pristine
      /\ Pristine.of = 0
  BY <1>0, ConnectionAssumption
     DEF ReadEof, CancelRead, StopsReading, SessionOK, GotOK, SessionTypes, Pristine, Result
<1>2. PICK what \in {"eof", "io", "dropped"} :
        /\ Return(u, k, Result(0, what)) /\ StopsReading(u, Result(0, what))
        /\ what # "dropped" => toClient[u] = << >> /\ task[u] = "over"
  BY <1>1 DEF ReadEof, CancelRead, StopsReading
<1>3. /\ UNCHANGED <<link, calls, toServer, toClient, fragment>> /\ ServerStays
      /\ reading' = [reading EXCEPT ![u] = FALSE] /\ reading'[u] = FALSE
  BY <1>2 DEF ReadEof, CancelRead, StopsReading, SessionTypes
<1>4. /\ got' \in [Uds -> [1..MaxCalls -> Results]] /\ got'[u][k].of = 0 /\ got'[u][k].what = what
      /\ \A n \in 1..MaxCalls : n # k => got'[u][n] = got[u][n]
      /\ \A j \in Nat : j < k => (Patient(u, j)' <=> Patient(u, j))
  <2>1. Result(0, what) \in Results /\ Result(0, what).of = 0 /\ Result(0, what).what = what
    BY <1>2 DEF Result, Results, Whats
  <2> QED
    BY <1>1, <1>2, <2>1, Returns
<1>5. SessionTypes'
  BY <1>3, <1>4 DEF SessionTypes, ServerStays
<1>6. \A n \in 1..MaxCalls : got'[u][n].of = got[u][n].of /\ (got'[u][n].of # 0 => n # k)
  BY <1>1, <1>4
<1>7. GotOK(u)'
  <2>1. ASSUME NEW n \in 1..MaxCalls, got'[u][n].of # 0, Patient(u, n - 1)'
        PROVE  got'[u][n].of = n
    <3>1. n \in Nat /\ n - 1 \in Nat /\ n < k
      BY <1>1, <1>6, <2>1, ConnectionAssumption DEF SessionOK, GotOK
    <3>2. Patient(u, n - 1)
      BY <1>1, <1>4, <2>1, <3>1, ConnectionAssumption
    <3> QED
      BY <1>6, <2>1, <3>2 DEF SessionOK, GotOK, Replied
  <2>2. \A n \in 1..MaxCalls : Replied(u, n)' /\ Patient(u, n - 1)' => got'[u][n].of = n
    BY <2>1 DEF Replied
  <2>3. \A n \in 1..MaxCalls : got'[u][n].of <= n /\ (n > calls[u] => got'[u][n] = Pristine)
    BY <1>1, <1>4, <1>6 DEF SessionOK, GotOK
  <2>4. \A m, n \in 1..MaxCalls : m < n /\ got'[u][n].of # 0 => got'[u][m].of < got'[u][n].of
    BY <1>6 DEF SessionOK, GotOK, Replied
  <2> QED
    BY <1>3, <2>2, <2>3, <2>4 DEF GotOK, Replied, Patient
<1>8. ToClientOK(u)' /\ ServingOK(u)'
  BY <1>3, <1>6 DEF SessionOK, ToClientOK, ServingOK, NotReplied, ServerStays
<1>9. ToServerOK(u)'
  BY <1>3, <1>6 DEF SessionOK, ToServerOK, Fresh, NotReplied, ServerStays
<1>10. FragmentOK(u)'
  BY <1>1, <1>3 DEF SessionOK, FragmentOK
<1>11. PatientOK(u)'
  <2>1. Patient(u, k)' => what # "dropped"
    BY <1>1, <1>4, ConnectionAssumption DEF Patient
  <2> QED
    BY <1>1, <1>2, <1>3, <2>1 DEF PatientOK, Patient, ServerStays
<1>12. FateOK(u)'
  BY <1>3, <1>4, <1>6 DEF SessionOK, FateOK, Replied, Truth, ServerStays
<1> QED
  BY <1>5, <1>7, <1>8, <1>9, <1>10, <1>11, <1>12 DEF SessionOK

LEMMA DisconnectKeeps ==
  ASSUME SessionTypes, NEW u \in Uds, SessionOK(u), Disconnect(u), ServerStays
  PROVE  SessionTypes' /\ SessionOK(u)'
<1>1. /\ ~reading[u] /\ link' = [link EXCEPT ![u] = "gone"]
      /\ toClient' = [toClient EXCEPT ![u] = << >>] /\ toClient'[u] = << >>
      /\ UNCHANGED <<calls, reading, got, toServer, fragment>> /\ ServerStays
  BY DEF Disconnect, SessionTypes
<1>2. << >> \in Seq(Results) /\ ToSet(toClient'[u]) = {} /\ Len(toClient'[u]) = 0
  BY <1>1, EmptyHasNothing
<1>3. SessionTypes'
  BY <1>1, <1>2 DEF SessionTypes, ServerStays
<1>4. GotOK(u)'
  BY <1>1 DEF SessionOK, GotOK, Patient, Replied
<1>5. ToClientOK(u)' /\ ServingOK(u)'
  BY <1>1, <1>2 DEF SessionOK, ToClientOK, ServingOK, NotReplied, ServerStays
<1>6. \A j : Fresh(u, j) => Fresh(u, j)'
  BY <1>1, <1>2 DEF Fresh, NotReplied, ServerStays
<1>7. ToServerOK(u)'
  BY <1>1, <1>6 DEF SessionOK, ToServerOK, Fresh, NotReplied
<1>8. FragmentOK(u)'
  BY <1>1, <1>6 DEF SessionOK, FragmentOK, Patient, Fresh, NotReplied, ServerStays
<1>9. PatientOK(u)'
  BY <1>1 DEF SessionOK, PatientOK, Patient, ServerStays
<1>10. FateOK(u)'
  BY <1>1, <1>2 DEF SessionOK, FateOK, Replied, Truth, ServerStays
<1> QED
  BY <1>3, <1>4, <1>5, <1>7, <1>8, <1>9, <1>10 DEF SessionOK

LEMMA ReadReplyKeeps ==
  ASSUME SessionTypes, NEW u \in Uds, SessionOK(u), ReadReply(u), ServerStays
  PROVE  SessionTypes' /\ SessionOK(u)'
<1>0. PICK k, reply : k = calls[u] /\ reply = Head(toClient[u])
  OBVIOUS
<1>1. /\ reading[u] /\ k = calls[u] /\ k \in 1..MaxCalls /\ got[u][k] = Pristine
      /\ Pristine.of = 0 /\ toClient[u] \in Seq(Results) /\ toClient[u] # << >>
  BY <1>0, ConnectionAssumption
     DEF ReadReply, StopsReading, SessionOK, GotOK, SessionTypes, Pristine, Result
<1>2. /\ reply \in Results /\ Tail(toClient[u]) \in Seq(Results)
      /\ ToSet(toClient[u]) = ToSet(Tail(toClient[u])) \cup {reply}
      /\ \A r \in ToSet(Tail(toClient[u])) : reply.of < r.of
      /\ \A i, j \in 1..Len(Tail(toClient[u])) :
           i < j => Tail(toClient[u])[i].of < Tail(toClient[u])[j].of
  BY <1>0, <1>1, HeadTaken, RepliesTaken DEF SessionOK, ToClientOK
<1>3. /\ UNCHANGED <<link, calls, toServer, fragment>> /\ ServerStays
      /\ reading' = [reading EXCEPT ![u] = FALSE] /\ reading'[u] = FALSE
      /\ toClient' = [toClient EXCEPT ![u] = Tail(@)] /\ toClient'[u] = Tail(toClient[u])
  BY DEF ReadReply, StopsReading, SessionTypes
<1>4. /\ got' \in [Uds -> [1..MaxCalls -> Results]] /\ got'[u][k] = reply
      /\ \A n \in 1..MaxCalls : n # k => got'[u][n] = got[u][n]
      /\ \A j \in Nat : j < k => (Patient(u, j)' <=> Patient(u, j))
  <2>1. Return(u, k, reply)
    BY <1>0 DEF ReadReply, StopsReading
  <2> QED
    BY <1>1, <1>2, <2>1, Returns
<1>5. SessionTypes'
  BY <1>2, <1>3, <1>4 DEF SessionTypes, ServerStays
<1>6. /\ reply.of \in 1..k /\ \A n \in 1..MaxCalls : got[u][n].of < reply.of
      /\ \A n \in 1..MaxCalls : n > k => got[u][n] = Pristine
  BY <1>1, <1>2 DEF SessionOK, ToClientOK, NotReplied, GotOK
<1>7. \A n \in 1..MaxCalls :
        /\ got'[u][n].of <= n /\ got'[u][n].of <= reply.of
        /\ n > k => got'[u][n] = Pristine
  <2> SUFFICES ASSUME NEW n \in 1..MaxCalls
               PROVE  /\ got'[u][n].of <= n /\ got'[u][n].of <= reply.of
                      /\ n > k => got'[u][n] = Pristine
    OBVIOUS
  <2>1. /\ got[u][n] \in Results /\ got[u][n].of <= n /\ got[u][n].of < reply.of
        /\ k \in Nat /\ reply.of \in Nat /\ reply.of <= k
    BY <1>1, <1>6, ConnectionAssumption DEF SessionOK, GotOK, SessionTypes
  <2>2. got[u][n].of \in Nat
    BY <2>1 DEF Results
  <2>3. CASE n = k
    BY <1>4, <2>1, <2>3
  <2>4. CASE n # k
    BY <1>4, <1>6, <2>1, <2>2, <2>4
  <2> QED
    BY <2>3, <2>4
<1>8. Patient(u, k - 1) => \A r \in ToSet(toClient[u]) : r.of = k
  BY <1>1 DEF SessionOK, PatientOK
<1>9. GotOK(u)'
  <2>1. ASSUME NEW m \in 1..MaxCalls, NEW n \in 1..MaxCalls, m < n, got'[u][n].of # 0
        PROVE  got'[u][m].of < got'[u][n].of
    <3>1. n <= k /\ m # k
      BY <1>1, <1>7, <2>1, ConnectionAssumption
    <3>2. CASE n = k
      BY <1>4, <1>6, <2>1, <3>1, <3>2
    <3>3. CASE n # k
      BY <1>4, <2>1, <3>1, <3>3 DEF SessionOK, GotOK, Replied
    <3> QED
      BY <3>2, <3>3
  <2>2. ASSUME NEW n \in 1..MaxCalls, got'[u][n].of # 0, Patient(u, n - 1)'
        PROVE  got'[u][n].of = n
    <3>1. n \in Nat /\ n - 1 \in Nat /\ n <= k /\ n - 1 < k /\ k \in Nat
      BY <1>1, <1>7, <2>1, <2>2, ConnectionAssumption
    <3>2. Patient(u, n - 1)
      BY <1>4, <2>2, <3>1
    <3>3. CASE n = k
      BY <1>2, <1>4, <1>8, <3>2, <3>3
    <3>4. CASE n # k
      BY <1>4, <2>2, <3>2, <3>4 DEF SessionOK, GotOK, Replied
    <3> QED
      BY <3>3, <3>4
  <2>3. \A n \in 1..MaxCalls : Replied(u, n)' /\ Patient(u, n - 1)' => got'[u][n].of = n
    BY <2>2 DEF Replied
  <2> QED
    BY <1>1, <1>3, <1>7, <2>1, <2>3 DEF GotOK, Replied, Patient
<1>10. ASSUME NEW j \in Nat, NotReplied(u, j), reply.of < j PROVE NotReplied(u, j)'
  BY <1>4, <1>6, <1>10 DEF NotReplied
<1>11. ToClientOK(u)'
  <2>1. \A r \in ToSet(Tail(toClient[u])) : r.of \in 1..k /\ r.of \in Nat /\ NotReplied(u, r.of)
    BY <1>1, <1>2 DEF SessionOK, ToClientOK
  <2>2. \A r \in ToSet(Tail(toClient[u])) : NotReplied(u, r.of)'
    BY <1>2, <1>10, <2>1
  <2> QED
    BY <1>1, <1>2, <1>3, <2>1, <2>2 DEF ToClientOK, NotReplied
<1>12. ServingOK(u)'
  <2>1. PICK j : j = serving[u]
    OBVIOUS
  <2>2. j \in Nat /\ (j # 0 => NotReplied(u, j) /\ reply.of < j)
    BY <1>2, <2>1, ConnectionAssumption DEF SessionOK, ServingOK, SessionTypes
  <2>3. j # 0 => NotReplied(u, j)'
    BY <1>10, <2>2
  <2> QED
    BY <1>1, <1>2, <1>3, <2>1, <2>3 DEF SessionOK, ServingOK, NotReplied, ServerStays
<1>13. ASSUME NEW j \in Nat, Fresh(u, j) PROVE Fresh(u, j)' /\ reply.of < j
  <2>1. reply.of < j
    BY <1>2, <1>13 DEF Fresh
  <2>2. NotReplied(u, j)'
    BY <1>10, <1>13, <2>1 DEF Fresh
  <2> QED
    BY <1>2, <1>3, <1>13, <2>1, <2>2 DEF Fresh, NotReplied, ServerStays
<1>14. \A line \in ToSet(toServer[u]) : reply.of < line.call /\ Fresh(u, line.call)'
  BY <1>13 DEF SessionOK, ToServerOK, Fresh
<1>15. ToServerOK(u)'
  BY <1>3, <1>14 DEF SessionOK, ToServerOK, Fresh, NotReplied
<1>16. FragmentOK(u)'
  BY <1>1, <1>3 DEF SessionOK, FragmentOK
<1>17. PatientOK(u)'
  <2>1. ASSUME Patient(u, k)'
        PROVE  toClient'[u] = << >> /\ serving[u] = 0 /\ toServer[u] = << >>
    <3>1. Patient(u, k - 1)
      <4>1. k - 1 \in Nat /\ k - 1 < k /\ k \in Nat
        BY <1>1, ConnectionAssumption
      <4>2. Patient(u, k - 1)'
        BY <2>1, <4>1 DEF Patient
      <4> QED
        BY <1>4, <4>1, <4>2
    <3>2. reply.of = k /\ \A r \in ToSet(Tail(toClient[u])) : r.of = k
      BY <1>2, <1>8, <3>1
    <3>3. ToSet(Tail(toClient[u])) = {}
      BY <1>1, <1>2, <3>2, ConnectionAssumption
    <3>4. serving[u] = 0
      <4>1. serving[u] \in {0, k}
        BY <1>1, <3>1 DEF SessionOK, PatientOK
      <4>2. serving[u] # 0 => reply.of < serving[u]
        BY <1>2 DEF SessionOK, ServingOK
      <4> QED
        BY <1>1, <3>2, <4>1, <4>2, ConnectionAssumption
    <3>5. ToSet(toServer[u]) = {}
      <4>1. \A line \in ToSet(toServer[u]) : line.call = k
        BY <1>1, <3>1 DEF SessionOK, PatientOK
      <4> QED
        BY <1>1, <1>14, <3>2, <4>1, ConnectionAssumption
    <3> QED
      BY <1>2, <1>3, <3>3, <3>4, <3>5, NothingIsEmpty DEF SessionTypes
  <2> QED
    BY <1>1, <1>3, <2>1 DEF PatientOK, Patient, ServerStays
<1>18. FateOK(u)'
  <2>1. \A r \in ToSet(toClient[u]) : fate[u][r.of] = Truth(r)
    BY DEF SessionOK, FateOK
  <2>2. ASSUME NEW n \in 1..MaxCalls, got'[u][n].of # 0
        PROVE  fate[u][got'[u][n].of] = Truth(got'[u][n])
    <3>1. CASE n = k
      BY <1>2, <1>4, <2>1, <3>1
    <3>2. CASE n # k
      BY <1>4, <2>2, <3>2 DEF SessionOK, FateOK, Replied
    <3> QED
      BY <3>1, <3>2
  <2>3. \A r \in ToSet(toClient'[u]) : fate[u][r.of] = Truth(r)
    BY <1>2, <1>3, <2>1
  <2> QED
    BY <1>3, <2>2, <2>3 DEF SessionOK, FateOK, Replied, Truth, ServerStays
<1> QED
  BY <1>5, <1>9, <1>11, <1>12, <1>15, <1>16, <1>17, <1>18 DEF SessionOK

-----------------------------------------------------------------------------
(* The server's steps. *)

\* A task takes up call k, which is before all that stays on its way.
LEMMA ServesCall ==
  ASSUME SessionTypes, NEW u \in Uds, SessionOK(u), NEW k \in Nat, Fresh(u, k),
         u \in busy', verdict'[u] = "none",
         serving' = [serving EXCEPT ![u] = k],
         toServer' \in [Uds -> Seq(Lines)], ToSet(toServer'[u]) \subseteq ToSet(toServer[u]),
         \A i, j \in 1..Len(toServer'[u]) : i < j => toServer'[u][i].call < toServer'[u][j].call,
         \A line \in ToSet(toServer'[u]) : k < line.call,
         fragment' \in [Uds -> {"none", "part", "whole"}], fragment'[u] \in {fragment[u], "none"},
         fragment'[u] = "whole" /\ task[u] # "over" => k < calls[u],
         UNCHANGED <<link, calls, reading, got, toClient, fate, task>>,
         reading[u] /\ Patient(u, calls[u] - 1) => k = calls[u],
         ~reading[u] => ~Patient(u, calls[u])
  PROVE  SessionTypes' /\ SessionOK(u)'
<1>1. /\ k \in 1..calls[u] /\ k \in 1..MaxCalls /\ k # 0 /\ serving'[u] = k
      /\ calls[u] \in 0..MaxCalls
  BY ConnectionAssumption DEF Fresh, SessionTypes
<1>2. SessionTypes'
  <2>1. serving' \in [Uds -> 0..MaxCalls]
    <3>1. k \in 0..MaxCalls
      BY <1>1, ConnectionAssumption
    <3> QED
      BY <3>1 DEF SessionTypes
  <2> QED
    BY <2>1 DEF SessionTypes
<1>3. GotOK(u)' /\ ToClientOK(u)'
  BY DEF SessionOK, GotOK, ToClientOK, NotReplied, Patient, Replied
<1>4. ServingOK(u)'
  <2>1. k <= calls[u] /\ NotReplied(u, k) /\ \A r \in ToSet(toClient[u]) : r.of < k
    BY <1>1 DEF Fresh
  <2> QED
    BY <1>1, <2>1 DEF ServingOK, NotReplied
<1>5. \A j \in Nat : Fresh(u, j) /\ k < j => Fresh(u, j)'
  BY <1>1 DEF Fresh, NotReplied
<1>6. ToServerOK(u)'
  <2>1. \A line \in ToSet(toServer'[u]) : line.call \in Nat /\ Fresh(u, line.call) /\ k < line.call
    BY DEF SessionOK, ToServerOK, Fresh
  <2>2. \A line \in ToSet(toServer'[u]) : Fresh(u, line.call)'
    BY <1>5, <2>1
  <2> QED
    BY <2>2 DEF ToServerOK, Fresh, NotReplied
<1>7. FragmentOK(u)'
  <2>1. fragment'[u] # "none" => ~reading[u] /\ ~Patient(u, calls[u])
    BY DEF SessionOK, FragmentOK
  <2>2. ASSUME fragment'[u] = "whole", task[u] # "over"
        PROVE  /\ Fresh(u, calls[u]) /\ k < calls[u]
               /\ \A line \in ToSet(toServer'[u]) : line.call < calls[u]
    BY <2>2 DEF SessionOK, FragmentOK
  <2>3. PICK j \in Nat : j = calls[u]
    BY <1>1
  <2>4. fragment'[u] = "whole" /\ task[u] # "over" => Fresh(u, j)'
    BY <1>5, <2>2, <2>3
  <2> QED
    BY <2>1, <2>2, <2>3, <2>4 DEF FragmentOK, Patient, Fresh, NotReplied
<1>8. PatientOK(u)'
  <2>1. ASSUME reading[u], Patient(u, calls[u] - 1)
        PROVE  /\ \A r \in ToSet(toClient[u]) : r.of = calls[u]
               /\ \A line \in ToSet(toServer'[u]) : line.call = calls[u]
               /\ k = calls[u]
    BY <2>1 DEF SessionOK, PatientOK
  <2> QED
    BY <1>1, <2>1 DEF PatientOK, Patient
<1>9. FateOK(u)'
  <2>1. fate[u][k] = "none"
    <3>1. fate[u][k] # "none" => k < k
      BY <1>1 DEF Fresh
    <3> QED
      BY <3>1
  <2> QED
    BY <1>1, <2>1 DEF SessionOK, FateOK, Replied, Truth
<1> QED
  BY <1>2, <1>3, <1>4, <1>6, <1>7, <1>8, <1>9 DEF SessionOK

\* A reply is written, unless the client is gone; the task may end with it.
LEMMA RepliesToCall ==
  ASSUME SessionTypes, NEW u \in Uds, SessionOK(u), NEW r \in Results, r.of \in 1..calls[u],
         u \notin busy', serving' = [serving EXCEPT ![u] = 0],
         NEW last, Reply(u, r, last),
         NotReplied(u, r.of), \A q \in ToSet(toClient[u]) : q.of < r.of,
         fate[u][r.of] = Truth(r),
         toServer' \in [Uds -> Seq(Lines)], ToSet(toServer'[u]) \subseteq ToSet(toServer[u]),
         \A i, j \in 1..Len(toServer'[u]) : i < j => toServer'[u][i].call < toServer'[u][j].call,
         \A line \in ToSet(toServer'[u]) : r.of < line.call,
         UNCHANGED <<link, calls, reading, got, fragment, fate>>,
         fragment[u] = "whole" => r.of < calls[u], task[u] # "over",
         reading[u] /\ Patient(u, calls[u] - 1) => r.of = calls[u],
         ~reading[u] => ~Patient(u, calls[u])
  PROVE  SessionTypes' /\ SessionOK(u)'
<1>1. /\ serving'[u] = 0 /\ calls[u] \in 0..MaxCalls /\ toClient[u] \in Seq(Results)
      /\ r.of \in Nat /\ r.of # 0
  BY ConnectionAssumption DEF SessionTypes
<1>2. /\ toClient'[u] = IF link[u] = "up" THEN Append(toClient[u], r) ELSE toClient[u]
      /\ toClient' \in [Uds -> Seq(Results)]
      /\ ToSet(toClient'[u]) \subseteq ToSet(toClient[u]) \cup {r}
  BY <1>1, AppendedOnce DEF Reply, SessionTypes
<1>3. SessionTypes'
  <2>1. serving' \in [Uds -> 0..MaxCalls]
    <3>1. 0 \in 0..MaxCalls
      BY ConnectionAssumption
    <3> QED
      BY <3>1 DEF SessionTypes
  <2> QED
    BY <1>2, <2>1 DEF SessionTypes
<1>4. GotOK(u)'
  BY DEF SessionOK, GotOK, Patient, Replied
<1>5. ToClientOK(u)'
  <2>1. \A i, j \in 1..Len(toClient'[u]) : i < j => toClient'[u][i].of < toClient'[u][j].of
    BY <1>1, <1>2, ReplyAdded DEF SessionOK, ToClientOK
  <2>2. \A q \in ToSet(toClient'[u]) : q.of \in 1..calls[u] /\ NotReplied(u, q.of)
    BY <1>2 DEF SessionOK, ToClientOK
  <2> QED
    BY <2>1, <2>2 DEF ToClientOK, NotReplied
<1>6. ServingOK(u)'
  BY <1>1 DEF ServingOK
<1>7. \A j \in Nat : Fresh(u, j) /\ r.of < j => Fresh(u, j)'
  BY <1>1, <1>2 DEF Fresh, NotReplied
<1>8. ToServerOK(u)'
  <2>1. \A line \in ToSet(toServer'[u]) :
          line.call \in Nat /\ Fresh(u, line.call) /\ r.of < line.call
    BY DEF SessionOK, ToServerOK, Fresh
  <2>2. \A line \in ToSet(toServer'[u]) : Fresh(u, line.call)'
    BY <1>7, <2>1
  <2> QED
    BY <2>2 DEF ToServerOK, Fresh, NotReplied
<1>9. FragmentOK(u)'
  <2>1. fragment[u] # "none" => ~reading[u] /\ ~Patient(u, calls[u])
    BY DEF SessionOK, FragmentOK
  <2>2. ASSUME fragment[u] = "whole"
        PROVE  /\ Fresh(u, calls[u]) /\ r.of < calls[u]
               /\ \A line \in ToSet(toServer'[u]) : line.call < calls[u]
    BY <2>2 DEF SessionOK, FragmentOK
  <2>3. PICK j \in Nat : j = calls[u]
    BY <1>1
  <2>4. fragment[u] = "whole" => Fresh(u, j)'
    BY <1>7, <2>2, <2>3
  <2> QED
    BY <2>1, <2>2, <2>3, <2>4 DEF FragmentOK, Patient, Fresh, NotReplied
<1>10. PatientOK(u)'
  <2>1. ASSUME reading[u], Patient(u, calls[u] - 1)
        PROVE  /\ \A q \in ToSet(toClient'[u]) : q.of = calls[u]
               /\ \A line \in ToSet(toServer'[u]) : line.call = calls[u]
    BY <1>2, <2>1 DEF SessionOK, PatientOK
  <2> QED
    BY <1>1, <2>1 DEF PatientOK, Patient
<1>11. FateOK(u)'
  BY <1>2 DEF SessionOK, FateOK, Replied, Truth
<1> QED
  BY <1>3, <1>4, <1>5, <1>6, <1>8, <1>9, <1>10, <1>11 DEF SessionOK

LEMMA TakeLineKeeps ==
  ASSUME IInv, BusyOK, VerdictOK, SessionTypes, NEW u \in Uds, SessionOK(u), TakeLine(u)
  PROVE  SessionTypes' /\ SessionOK(u)'
<1>0. PICK line, k : line = Head(toServer[u]) /\ k = line.call
  OBVIOUS
<1>1. /\ toServer[u] \in Seq(Lines) /\ toServer[u] # << >> /\ task[u] = "up" /\ u \notin busy
      /\ toServer' = [toServer EXCEPT ![u] = Tail(@)] /\ toServer'[u] = Tail(toServer[u])
      /\ UNCHANGED <<link, calls, reading, got, fragment, fate>>
  BY DEF TakeLine, Idle, SessionTypes, clientVars
<1>2. /\ line \in Lines /\ Tail(toServer[u]) \in Seq(Lines)
      /\ ToSet(toServer[u]) = ToSet(Tail(toServer[u])) \cup {line}
      /\ \A l \in ToSet(Tail(toServer[u])) : k < l.call
      /\ \A i, j \in 1..Len(Tail(toServer[u])) :
           i < j => Tail(toServer[u])[i].call < Tail(toServer[u])[j].call
  BY <1>0, <1>1, HeadTaken, LinesTaken DEF SessionOK, ToServerOK
<1>3. /\ toServer' \in [Uds -> Seq(Lines)] /\ serving[u] = 0
      /\ serving \in [Uds -> 0..MaxCalls] /\ calls[u] \in 0..MaxCalls
  BY <1>1, <1>2 DEF SessionTypes, SessionOK, ServingOK
<1>4. Fresh(u, k) /\ k \in Nat /\ k \in 1..calls[u] /\ k \in 1..MaxCalls
  BY <1>0, <1>2, <1>3, ConnectionAssumption DEF SessionOK, ToServerOK, Fresh, Lines
<1>5. /\ reading[u] /\ Patient(u, calls[u] - 1) => k = calls[u]
      /\ ~reading[u] => ~Patient(u, calls[u])
  BY <1>0, <1>1, <1>2 DEF SessionOK, PatientOK
<1>6. fragment[u] = "whole" => k < calls[u]
  BY <1>0, <1>1, <1>2 DEF SessionOK, FragmentOK
<1>7. CASE Dispatch(u) /\ serving' = [serving EXCEPT ![u] = k] /\ UNCHANGED <<task, toClient>>
  <2>1. u \in Write /\ u \in Callers
    BY RpcAssumption, Who
  <2>2. u \in busy' /\ verdict'[u] = "none"
    BY <1>1, <1>7, <2>1, DispatchMoves DEF VerdictOK
  <2>3. fragment' \in [Uds -> {"none", "part", "whole"}] /\ fragment'[u] = fragment[u]
    BY <1>1 DEF SessionTypes
  <2> QED
    BY <1>1, <1>2, <1>3, <1>4, <1>5, <1>6, <1>7, <2>2, <2>3, ServesCall
<1>8. CASE Reply(u, Result(k, "invalid"), line.form = "long") /\ UNCHANGED <<vars, rpcVars, serving>>
  <2>1. PICK r : r = Result(k, "invalid")
    OBVIOUS
  <2>2. r \in Results /\ r.of = k /\ Truth(r) = "none"
    BY <1>4, <2>1 DEF Result, Results, Whats, Truth
  <2>3. u \notin busy' /\ serving' = [serving EXCEPT ![u] = 0]
    BY <1>1, <1>3, <1>8 DEF rpcVars
  <2>4. /\ NotReplied(u, k) /\ \A q \in ToSet(toClient[u]) : q.of < k
        /\ fate[u][k] = "none"
    <3>1. fate[u][k] # "none" => k < k
      BY <1>4 DEF Fresh
    <3> QED
      BY <1>4, <3>1 DEF Fresh
  <2>5. Reply(u, r, line.form = "long") /\ task[u] # "over"
    BY <1>1, <1>8, <2>1
  <2> QED
    BY <1>1, <1>2, <1>3, <1>4, <1>5, <1>6, <2>2, <2>3, <2>4, <2>5, RepliesToCall
<1> QED
  BY <1>0, <1>7, <1>8 DEF TakeLine

LEMMA TakeRestKeeps ==
  ASSUME IInv, BusyOK, VerdictOK, SessionTypes, NEW u \in Uds, SessionOK(u), TakeRest(u)
  PROVE  SessionTypes' /\ SessionOK(u)'
<1>0. PICK k : k = calls[u]
  OBVIOUS
<1>1. /\ toServer[u] = << >> /\ fragment[u] = "whole" /\ task[u] = "up" /\ u \notin busy
      /\ Dispatch(u) /\ serving' = [serving EXCEPT ![u] = k]
      /\ fragment' = [fragment EXCEPT ![u] = "none"]
      /\ UNCHANGED <<link, calls, reading, got, task, toServer, toClient, fate>>
  BY <1>0 DEF TakeRest, Idle, clientVars
<1>2. ~reading[u] /\ ~Patient(u, calls[u]) /\ Fresh(u, k) /\ k \in Nat
  BY <1>0, <1>1, ConnectionAssumption DEF SessionOK, FragmentOK, SessionTypes
<1>3. u \in Write /\ u \in Callers
  BY RpcAssumption, Who
<1>4. u \in busy' /\ verdict'[u] = "none"
  BY <1>1, <1>3, DispatchMoves DEF VerdictOK
<1>5. /\ toServer' \in [Uds -> Seq(Lines)] /\ ToSet(toServer'[u]) = {} /\ Len(toServer'[u]) = 0
      /\ fragment' \in [Uds -> {"none", "part", "whole"}] /\ fragment'[u] = "none"
      /\ ToSet(toServer[u]) = {}
  BY <1>1, EmptyHasNothing DEF SessionTypes
<1>6. /\ \A i, j \in 1..Len(toServer'[u]) : i < j => toServer'[u][i].call < toServer'[u][j].call
      /\ \A line \in ToSet(toServer'[u]) : k < line.call
      /\ ToSet(toServer'[u]) \subseteq ToSet(toServer[u])
  BY <1>5
<1> QED
  BY <1>1, <1>2, <1>4, <1>5, <1>6, ServesCall

LEMMA AnswerIsTrue ==
  ASSUME VerdictOK, NEW u \in Uds, u \in busy, stage[u] \in {"served", "overloaded", "closed"}
  PROVE  /\ Outcome(u) \in Whats /\ Result(serving[u], Outcome(u)).what = Outcome(u)
         /\ Truth(Result(serving[u], Outcome(u))) = verdict[u]
<1>1. u \in Write /\ verdict[u] \in {"none", "committed", "failed"}
      /\ (verdict[u] # "none" <=> stage[u] = "served")
  BY RpcAssumption DEF VerdictOK
<1>2. CASE stage[u] = "served"
  BY <1>1, <1>2 DEF Outcome, Truth, Whats, Result
<1>3. CASE stage[u] # "served"
  BY <1>1, <1>3 DEF Outcome, Truth, Whats, Result
<1> QED
  BY <1>2, <1>3

LEMMA AnswerCallKeeps ==
  ASSUME IInv, BusyOK, VerdictOK, TasksOK, ~exited,
         SessionTypes, NEW u \in Uds, SessionOK(u), Answer(u)
  PROVE  SessionTypes' /\ SessionOK(u)'
<1>0. PICK k, r : k = serving[u] /\ r = Result(serving[u], Outcome(u))
  OBVIOUS
<1>1. /\ u \in busy /\ busy' = busy \ {u} /\ Reply(u, r, FALSE)
      /\ stage[u] \in {"served", "overloaded", "closed"}
      /\ serving' = [serving EXCEPT ![u] = 0] /\ task[u] = "up"
      /\ UNCHANGED <<link, calls, reading, got, toServer, fragment, fate>>
  BY <1>0 DEF Answer, Settle, clientVars, TasksOK
<1>2. /\ k \in Nat /\ k # 0 /\ k \in 1..calls[u] /\ NotReplied(u, k)
      /\ \A q \in ToSet(toClient[u]) : q.of < k
      /\ fate[u][k] = verdict[u]
  BY <1>0, <1>1, ConnectionAssumption DEF SessionOK, ServingOK, FateOK, SessionTypes
<1>3. r \in Results /\ r.of = k /\ Truth(r) = verdict[u]
  BY <1>0, <1>1, <1>2, AnswerIsTrue DEF Result, Results
<1>4. /\ toServer'[u] = toServer[u] /\ toServer' \in [Uds -> Seq(Lines)]
      /\ \A line \in ToSet(toServer[u]) : k < line.call
      /\ \A i, j \in 1..Len(toServer[u]) : i < j => toServer[u][i].call < toServer[u][j].call
  BY <1>0, <1>1 DEF SessionTypes, SessionOK, ToServerOK, Fresh
<1>5. /\ reading[u] /\ Patient(u, calls[u] - 1) => k = calls[u]
      /\ ~reading[u] => ~Patient(u, calls[u])
  BY <1>0, <1>1, <1>2 DEF SessionOK, PatientOK
<1>6. fragment[u] = "whole" => k < calls[u]
  BY <1>0, <1>1 DEF SessionOK, FragmentOK, Fresh
<1> QED
  BY <1>1, <1>2, <1>3, <1>4, <1>5, <1>6, RepliesToCall

\* The writer answers the call its task awaits.
LEMMA JudgeCallKeeps ==
  ASSUME IInv, BusyOK, VerdictOK, SessionTypes, \A u \in Uds : SessionOK(u), JudgeCall
  PROVE  SessionTypes' /\ \A u \in Uds : SessionOK(u)'
<1>1. PICK v \in {"committed", "failed"} :
        /\ Judge(v)
        /\ fate' = IF Head(batch) \in Uds
                     THEN [fate EXCEPT ![Head(batch)][serving[Head(batch)]] = v] ELSE fate
  BY DEF JudgeCall
<1>2. PICK c \in Write :
        /\ stage[c] \in {"queued", "abandoned"} /\ c = Head(batch)
        /\ verdict' = IF stage[c] = "queued" THEN [verdict EXCEPT ![c] = v] ELSE verdict
        /\ UNCHANGED busy
  BY <1>1, JudgeMoves
<1>3. UNCHANGED <<link, calls, reading, got, task, serving, toServer, fragment, toClient>>
  BY DEF JudgeCall, clientVars, serverVars, wireVars
<1>4. verdict \in [Write -> {"none", "committed", "failed"}] /\ Uds \subseteq Write
  BY RpcAssumption DEF VerdictOK
<1>5. ASSUME c \in Uds
      PROVE  /\ stage[c] = "queued" /\ c \in busy /\ verdict'[c] = v
             /\ serving[c] \in 1..MaxCalls
             /\ \A n \in 1..MaxCalls : fate'[c][n] = IF n = serving[c] THEN v ELSE fate[c][n]
             /\ fate' \in [Uds -> [1..MaxCalls -> {"none", "committed", "failed"}]]
  <2>1. stage[c] = "queued" /\ c \in busy
    BY <1>2, <1>5, Who DEF BusyOK, Pending
  <2>2. serving[c] \in 1..MaxCalls
    BY <1>5, <2>1, ConnectionAssumption DEF SessionOK, ServingOK, SessionTypes
  <2>3. fate' = [fate EXCEPT ![c][serving[c]] = v]
    BY <1>1, <1>2, <1>5
  <2>4. verdict'[c] = v
    BY <1>2, <1>4, <2>1
  <2> QED
    BY <1>5, <2>1, <2>2, <2>3, <2>4 DEF SessionTypes
<1>6. SessionTypes'
  BY <1>1, <1>2, <1>3, <1>5 DEF SessionTypes
<1>7. ASSUME NEW w \in Uds, w # c PROVE SessionOK(w)'
  <2>1. fate'[w] = fate[w] /\ verdict'[w] = verdict[w]
    BY <1>1, <1>2, <1>4, <1>7 DEF SessionTypes
  <2> QED
    BY <1>2, <1>3, <1>7, <2>1, SessionStays
<1>8. ASSUME c \in Uds PROVE SessionOK(c)'
  <2>1. SessionOK(c)
    BY <1>8
  <2>2. PICK k : k = serving[c]
    OBVIOUS
  <2>3. /\ k \in 1..MaxCalls /\ k <= calls[c] /\ NotReplied(c, k)
        /\ \A r \in ToSet(toClient[c]) : r.of < k
        /\ \A n \in 1..MaxCalls : fate'[c][n] = IF n = k THEN v ELSE fate[c][n]
    BY <1>5, <1>8, <2>1, <2>2, ConnectionAssumption DEF SessionOK, ServingOK
  <2>4. GotOK(c)' /\ ToClientOK(c)' /\ ServingOK(c)' /\ PatientOK(c)'
    BY <1>2, <1>3, <2>1 DEF SessionOK, GotOK, ToClientOK, ServingOK, PatientOK, NotReplied, Patient,
                            Replied
  <2>5. \A j \in Nat : Fresh(c, j) => Fresh(c, j)'
    BY <1>3, <2>2, <2>3 DEF Fresh, NotReplied
  <2>6. ToServerOK(c)'
    <3>1. \A line \in ToSet(toServer[c]) : line.call \in Nat /\ Fresh(c, line.call)
      BY <2>1 DEF SessionOK, ToServerOK, Fresh
    <3>2. \A line \in ToSet(toServer[c]) : Fresh(c, line.call)'
      BY <2>5, <3>1
    <3> QED
      BY <1>3, <2>1, <3>2 DEF SessionOK, ToServerOK, Fresh, NotReplied
  <2>7. FragmentOK(c)'
    <3>1. PICK j \in Nat : j = calls[c]
      BY <1>8, ConnectionAssumption DEF SessionTypes
    <3>2. fragment[c] = "whole" /\ task[c] # "over" => Fresh(c, j)'
      BY <2>1, <2>5, <3>1 DEF SessionOK, FragmentOK
    <3> QED
      BY <1>3, <2>1, <3>1, <3>2 DEF SessionOK, FragmentOK, Patient, Fresh, NotReplied
  <2>8. FateOK(c)'
    <3>1. \A n \in 1..MaxCalls : got[c][n].of # k
      BY <2>3, ConnectionAssumption DEF NotReplied
    <3>2. \A r \in ToSet(toClient[c]) : r.of # k
      BY <2>3, ConnectionAssumption
    <3>3. \A r \in ToSet(toClient[c]) : fate'[c][r.of] = Truth(r)
      <4>1. \A r \in ToSet(toClient[c]) : r.of \in 1..MaxCalls /\ fate[c][r.of] = Truth(r)
        BY <1>8, <2>1, ConnectionAssumption DEF SessionOK, ToClientOK, FateOK, SessionTypes
      <4> QED
        BY <2>3, <3>2, <4>1
    <3>4. \A n \in 1..MaxCalls : got[c][n].of # 0 => fate'[c][got[c][n].of] = Truth(got[c][n])
      <4> SUFFICES ASSUME NEW n \in 1..MaxCalls, got[c][n].of # 0
                   PROVE  fate'[c][got[c][n].of] = Truth(got[c][n])
        OBVIOUS
      <4>1. got[c][n].of <= n /\ got[c][n] \in Results
        BY <1>8, <2>1 DEF SessionOK, GotOK, SessionTypes
      <4>2. got[c][n].of \in 1..MaxCalls
        BY <4>1, ConnectionAssumption DEF Results
      <4> QED
        BY <2>1, <2>3, <3>1, <4>2 DEF SessionOK, FateOK, Replied
    <3> QED
      BY <1>2, <1>3, <1>5, <1>8, <2>1, <2>2, <2>3, <3>3, <3>4 DEF SessionOK, FateOK, Replied, Truth
  <2> QED
    BY <2>4, <2>6, <2>7, <2>8 DEF SessionOK
<1> QED
  BY <1>6, <1>7, <1>8

-----------------------------------------------------------------------------
(* All conversations. *)

\* Nothing happens to the conversations of the other clients.
OthersStay(u) ==
  \A w \in Uds \ {u} :
    /\ calls'[w] = calls[w] /\ reading'[w] = reading[w] /\ serving'[w] = serving[w]
    /\ toServer'[w] = toServer[w] /\ toClient'[w] = toClient[w] /\ fragment'[w] = fragment[w]
    /\ got'[w] = got[w] /\ fate'[w] = fate[w] /\ link'[w] = link[w]
    /\ task[w] = "over" => task'[w] = "over"
    /\ w \in busy' <=> w \in busy
    /\ w \in busy => verdict'[w] = verdict[w]

SessionsOK == SessionTypes /\ \A u \in Uds : SessionOK(u)

LEMMA OneSession ==
  ASSUME SessionsOK, SessionTypes', NEW u \in Uds, SessionOK(u)', OthersStay(u)
  PROVE  SessionsOK'
<1>1. ASSUME NEW w \in Uds, w # u PROVE SessionOK(w)'
  BY <1>1, SessionStays DEF SessionsOK, OthersStay
<1> QED
  BY <1>1 DEF SessionsOK

LEMMA NoSession ==
  ASSUME SessionsOK, UNCHANGED <<calls, reading, got, serving, wireVars, fate>>,
         link' = link \/ \E u \in Uds : link' = [link EXCEPT ![u] = "up"],
         \A u \in Uds : /\ task[u] = "over" => task'[u] = "over"
                        /\ u \in busy' <=> u \in busy
                        /\ u \in busy => verdict'[u] = verdict[u]
  PROVE  SessionsOK'
<1>1. SessionTypes'
  BY DEF SessionsOK, SessionTypes, wireVars
<1>2. ASSUME NEW u \in Uds PROVE SessionOK(u)'
  <2>1. link'[u] \in {link[u], "up"}
    BY DEF SessionsOK, SessionTypes
  <2> QED
    BY <2>1, SessionStays DEF SessionsOK, wireVars
<1> QED
  BY <1>1, <1>2 DEF SessionsOK

LEMMA ClientSessions ==
  ASSUME SessionsOK, NEW u \in Uds, ClientStep(u)
  PROVE  SessionsOK'
<1>1. ServerStays /\ SessionTypes /\ SessionOK(u)
  BY ClientRpc DEF SessionsOK, ServerStays, rpcVars
<1>2. SessionTypes' /\ SessionOK(u)'
  BY <1>1, SendLineKeeps, NoLineKeeps, ReadReplyKeeps, ReadLostKeeps, DisconnectKeeps DEF ClientStep
<1>3. ASSUME NEW w \in Uds, w # u
      PROVE  /\ calls'[w] = calls[w] /\ reading'[w] = reading[w] /\ link'[w] = link[w]
             /\ toServer'[w] = toServer[w] /\ toClient'[w] = toClient[w]
             /\ fragment'[w] = fragment[w] /\ got'[w] = got[w]
  <2>1. CASE SendLine(u)
    BY <1>1, <1>3, <2>1 DEF SendLine, NextCall, SessionTypes
  <2>2. CASE SendFails(u) \/ CutLine(u)
    BY <1>1, <1>3, <2>2 DEF SendFails, CutLine, NextCall, Return, SessionTypes, wireVars
  <2>3. CASE ReadReply(u) \/ ReadEof(u) \/ CancelRead(u)
    BY <1>1, <1>3, <2>3 DEF ReadReply, ReadEof, CancelRead, StopsReading, Return, SessionTypes
  <2>4. CASE Disconnect(u)
    BY <1>1, <1>3, <2>4 DEF Disconnect, SessionTypes
  <2> QED
    BY <2>1, <2>2, <2>3, <2>4 DEF ClientStep
<1>4. OthersStay(u)
  BY <1>1, <1>3 DEF OthersStay, ServerStays
<1> QED
  BY <1>2, <1>4, OneSession

LEMMA ServerSessions ==
  ASSUME ServeInv, SessionsOK, ~exited, NEW u \in Uds, ServerStep(u)
  PROVE  SessionsOK'
<1>1. /\ IInv /\ BusyOK /\ VerdictOK /\ TasksOK /\ SessionTypes /\ SessionOK(u) /\ u \in Callers
      /\ task \in [Uds -> {"none", "up", "over"}]
      /\ verdict \in [Write -> {"none", "committed", "failed"}]
  BY Who DEF ServeInv, RpcOK, ServersOK, SessionsOK, VerdictOK, TasksOK
<1>2. CASE TakeLine(u) \/ TakeRest(u) \/ Answer(u)
  <2>1. SessionTypes' /\ SessionOK(u)'
    BY <1>1, <1>2, TakeLineKeeps, TakeRestKeeps, AnswerCallKeeps
  <2>2. UNCHANGED <<link, calls, reading, got, fate>>
    BY <1>2 DEF TakeLine, TakeRest, Answer, clientVars
  <2>3. \A w \in Uds \ {u} :
          /\ w \in busy' <=> w \in busy
          /\ verdict'[w] = verdict[w]
    <3>1. CASE Dispatch(u)
      BY <1>1, <3>1, DispatchMoves
    <3>2. CASE Settle(u)
      BY <1>1, <3>2 DEF Settle, Forget
    <3>3. CASE UNCHANGED rpcVars
      BY <3>3 DEF rpcVars
    <3> QED
      BY <1>2, <3>1, <3>2, <3>3 DEF TakeLine, TakeRest, Answer
  <2>4. \A w \in Uds \ {u} :
          /\ serving'[w] = serving[w] /\ toServer'[w] = toServer[w]
          /\ toClient'[w] = toClient[w] /\ fragment'[w] = fragment[w] /\ task'[w] = task[w]
    BY <1>1, <1>2 DEF TakeLine, TakeRest, Answer, Reply, SessionTypes
  <2>5. OthersStay(u)
    BY <2>2, <2>3, <2>4 DEF OthersStay
  <2> QED
    BY <2>1, <2>5, OneSession
<1>3. CASE SeeEof(u) \/ ReleaseHandle(u)
  <2>1. /\ UNCHANGED <<rpcVars, calls, reading, got, serving, wireVars, fate, link>>
        /\ \A w \in Uds : task[w] = "over" => task'[w] = "over"
    BY <1>1, <1>3 DEF SeeEof, ReleaseHandle, Alongside, clientVars, serverVars, connVars
  <2> QED
    BY <2>1, NoSession DEF rpcVars
<1> QED
  BY <1>2, <1>3 DEF ServerStep

LEMMA MainSessions ==
  ASSUME ServeInv, SessionsOK, MainStep \/ PressCtrlC \/ UdsStep \/ AcceptFails \/ HttpStep
  PROVE  SessionsOK'
<1>1. task \in [Uds -> {"none", "up", "over"}]
  BY DEF ServeInv, ServersOK, TasksOK
<1>2. /\ UNCHANGED <<rpcVars, clientVars, wireVars, serving, fate>>
      /\ \A u \in Uds : task[u] = "over" => task'[u] = "over"
  <2>1. CASE SpawnUds \/ SpawnHttp \/ PressCtrlC \/ BindUds \/ BindHttp \/ HttpHears \/ HttpEnds
    BY <2>1 DEF SpawnUds, SpawnHttp, PressCtrlC, BindUds, BindHttp, HttpHears, HttpEnds, connVars,
                serverVars
  <2>2. CASE ShutDown \/ FinishShutdown \/ BindUdsFails
    BY <2>2 DEF ShutDown, FinishShutdown, BindUdsFails, Alongside, connVars, serverVars
  <2>3. CASE Exit \/ EndUds
    BY <1>1, <2>3 DEF Exit, EndUds, Hangup
  <2>4. ASSUME NEW u \in Uds, Accept(u)
        PROVE  /\ UNCHANGED <<rpcVars, clientVars, wireVars, serving, fate>>
               /\ \A w \in Uds : task[w] = "over" => task'[w] = "over"
    BY <1>1, <2>4 DEF Accept, Backlog, Alongside
  <2> QED
    BY <2>1, <2>2, <2>3, <2>4 DEF MainStep, UdsStep, UdsHears, AcceptFails, HttpStep
<1> QED
  BY <1>2, NoSession DEF rpcVars, clientVars

LEMMA HttpSessions ==
  ASSUME ServeInv, SessionsOK, UNCHANGED connVars, NEW h \in Http,
         Dispatch(h) \/ Settle(h) \/ DropRequest(h)
  PROVE  SessionsOK'
<1>1. h \in Callers /\ h \notin Uds /\ Uds \subseteq Write /\ IInv
      /\ verdict \in [Write -> {"none", "committed", "failed"}]
  BY Who, RpcAssumption DEF ServeInv, RpcOK, VerdictOK
<1>2. \A u \in Uds : (u \in busy' <=> u \in busy) /\ verdict'[u] = verdict[u]
  <2>1. CASE Dispatch(h)
    BY <1>1, <2>1, DispatchMoves
  <2>2. CASE Settle(h)
    BY <1>1, <2>2 DEF Settle, Forget
  <2>3. CASE DropRequest(h)
    BY <1>1, <2>3 DEF DropRequest, Forget
  <2> QED
    BY <2>1, <2>2, <2>3
<1> QED
  BY <1>2, NoSession DEF connVars, clientVars, serverVars

LEMMA SessionsKeep == ASSUME ServeInv, SessionsOK, [ServeNext]_serveVars PROVE SessionsOK'
<1>1. ASSUME UNCHANGED <<rpcVars, connVars>> PROVE SessionsOK'
  BY <1>1, NoSession DEF rpcVars, connVars, clientVars, serverVars
<1>2. CASE UNCHANGED serveVars \/ AtRest
  BY <1>1, <1>2 DEF AtRest, serveVars
<1>3. ASSUME NEW u \in Uds, Connect(u) PROVE SessionsOK'
  BY <1>3, NoSession DEF Connect, rpcVars, serverVars
<1>4. ASSUME NEW u \in Uds, ClientStep(u) PROVE SessionsOK'
  BY <1>4, ClientSessions
<1>5. CASE ~exited /\ ProcessStep
  <2>1. CASE WriterRuns
    <3>1. CASE JudgeCall
      BY <3>1, JudgeCallKeeps DEF ServeInv, RpcOK, SessionsOK
    <3>2. CASE ~JudgeCall
      BY <1>1, <2>1, <3>2 DEF WriterRuns, Alongside
    <3> QED
      BY <3>1, <3>2
  <2>2. ASSUME NEW u \in Uds, ServesLine(u) PROVE SessionsOK'
    BY <1>5, <2>2, ServerSessions DEF ServesLine
  <2>3. ASSUME NEW h \in Http, Request(h) \/ Respond200(h) \/ GoAway(h) PROVE SessionsOK'
    <3>1. UNCHANGED connVars /\ (Dispatch(h) \/ Settle(h) \/ DropRequest(h))
      BY <2>3 DEF Request, Respond200, GoAway
    <3> QED
      BY <3>1, HttpSessions
  <2>4. ASSUME \/ \E h \in Http : Open(h) \/ Close(h)
               \/ \E c \in Callers : Wakes(c) \/ TimerFires(c)
        PROVE  SessionsOK'
    BY <1>1, <2>4 DEF Open, Close, Wakes, TimerFires, Alongside
  <2>5. CASE SnapshotStep /\ UNCHANGED <<connVars, lifeVars>>
    <3>1. UNCHANGED <<busy, verdict, connVars>>
      BY <2>5 DEF SnapshotStep, BeginSnapshot, Load, ReturnSnapshot
    <3> QED
      BY <3>1, NoSession DEF connVars, clientVars, serverVars
  <2> QED
    BY <1>5, <2>1, <2>2, <2>3, <2>4, <2>5, MainSessions DEF ProcessStep, HttpServes
<1> QED
  BY <1>2, <1>3, <1>4, <1>5 DEF ServeNext

LEMMA InitSessions == ServeInit => SessionsOK
<1> SUFFICES ASSUME ServeInit PROVE SessionsOK
  OBVIOUS
<1>1. ConnInit /\ busy = {} /\ MaxCalls \in Nat
  BY ConnectionAssumption DEF ServeInit, RpcInit
<1>2. Pristine \in Results /\ Pristine.of = 0 /\ Pristine.what = "none" /\ << >> \in Seq(Results)
      /\ << >> \in Seq(Lines) /\ ToSet(<< >>) = {} /\ Len(<< >>) = 0
  BY EmptyHasNothing DEF Pristine, Result, Results, Whats
<1>3. SessionTypes
  BY <1>1, <1>2 DEF ConnInit, SessionTypes
<1>4. ASSUME NEW u \in Uds PROVE SessionOK(u)
  <2>1. /\ link[u] = "none" /\ task[u] = "none" /\ calls[u] = 0 /\ ~reading[u]
        /\ toServer[u] = << >> /\ fragment[u] = "none" /\ serving[u] = 0 /\ toClient[u] = << >>
        /\ \A n \in 1..MaxCalls : got[u][n] = Pristine /\ fate[u][n] = "none"
    BY <1>1 DEF ConnInit
  <2>2. GotOK(u)
    BY <1>1, <1>2, <2>1 DEF GotOK, Replied
  <2>3. ToClientOK(u) /\ ServingOK(u) /\ ToServerOK(u) /\ FragmentOK(u)
    BY <1>1, <1>2, <2>1 DEF ToClientOK, ServingOK, ToServerOK, FragmentOK
  <2>4. PatientOK(u) /\ FateOK(u)
    BY <1>1, <1>2, <2>1 DEF PatientOK, FateOK, Replied
  <2> QED
    BY <2>2, <2>3, <2>4 DEF SessionOK
<1> QED
  BY <1>3, <1>4 DEF SessionsOK

(***************************************************************************)
(* The conversation of every client keeps its order and its truth, with    *)
(* dropped calls, cut lines, a shutdown and connections that end.          *)
(***************************************************************************)
THEOREM SessionsHold == ServeSpec => []SessionsOK
BY ServeInvHolds, InitSessions, SessionsKeep, PTL DEF ServeSpec

(***************************************************************************)
(* Replies come in the order of the calls, none twice and none before its  *)
(* call, and a client that never dropped a call gets its own (send_line    *)
(* and handle_connection).                                                 *)
(***************************************************************************)
THEOREM RepliesInOrderCorrect == ServeSpec => []RepliesInOrder
<1>1. SessionsOK => RepliesInOrder
  <2> SUFFICES ASSUME SessionsOK, NEW u \in Uds, NEW n \in 1..MaxCalls, Replied(u, n)
               PROVE  /\ got[u][n].of <= n
                      /\ \A m \in 1..n-1 : Replied(u, m) => got[u][m].of < got[u][n].of
                      /\ (\A m \in 1..n-1 : got[u][m].what # "dropped") => got[u][n].of = n
    BY DEF RepliesInOrder
  <2>1. GotOK(u) /\ \A m \in 1..n-1 : m \in 1..MaxCalls /\ m < n
    BY ConnectionAssumption DEF SessionsOK, SessionOK
  <2> QED
    BY <2>1 DEF GotOK, Patient
<1> QED
  BY <1>1, SessionsHold, PTL

(***************************************************************************)
(* A reply tells the truth about the write it answers, whatever call it is *)
(* handed to (dispatch_execute, handle_connection).                        *)
(***************************************************************************)
THEOREM RepliesTrueCorrect == ServeSpec => []RepliesTrue
<1>1. SessionsOK => RepliesTrue
  <2> SUFFICES ASSUME SessionsOK, NEW u \in Uds,
                      NEW r \in {got[u][n] : n \in 1..MaxCalls} \cup ToSet(toClient[u]), r.of # 0
               PROVE  fate[u][r.of] = IF r.what \in {"committed", "failed"} THEN r.what ELSE "none"
    BY DEF RepliesTrue
  <2> QED
    BY DEF SessionsOK, SessionOK, FateOK, Replied, Truth
<1> QED
  BY <1>1, SessionsHold, PTL
=============================================================================
