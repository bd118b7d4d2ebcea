------------------------------ MODULE InProcess ------------------------------
(***************************************************************************)
(* InProcessGateway and GatewayHandle of src/src/inprocess.rs around the   *)
(* loop of the writer thread: tasks that hold a handle and call execute or *)
(* checkpoint again and again, the owner who shuts the gateway down or     *)
(* drops it, and the bounded channel between them and the thread.          *)
(*                                                                         *)
(* The channel is tokio's mpsc: a send takes a free slot or waits in order *)
(* of arrival; a slot freed by the receiver is granted to the first who    *)
(* waits, and used when that task runs again.  A task runs from one await  *)
(* to the next in one step.                                                *)
(***************************************************************************)
EXTENDS WriterLoop, SequencesExt

CONSTANTS
  Capacity,       \* GatewayConfig::queue_capacity
  Overflow,       \* the overflow policy of each handle, see Policies
  SingleThreaded  \* do all tasks share one thread (a current_thread runtime)?

\* The code gives every handle a copy of GatewayConfig::overflow; nothing here
\* depends on the copies being equal.
Policies == {"wait", "reject", "timeout"}
Callers  == Write \cup Ask

ASSUME InProcessAssumption ==
  /\ Write \cap Ask = {} /\ Single \subseteq Write
  /\ Shutdown \notin Callers
  /\ Batching \in BOOLEAN /\ MaxBatch \in Nat
  /\ Capacity \in Nat \ {0}
  /\ Overflow \in [Write -> Policies]
  /\ SingleThreaded \in BOOLEAN

VARIABLES
  stage,    \* where each caller's call is, or how its last one ended
  live,     \* the callers that hold a GatewayHandle
  owner,    \* what became of the InProcessGateway
  permits,  \* Sender::capacity: the slots nobody has
  waiters,  \* the sends that wait for a slot, in order of arrival
  granted   \* the sends that got a slot and have not run since

channelVars == <<permits, waiters, granted>>
vars == <<loopVars, stage, live, owner, channelVars>>

Returned == {"idle", "served", "overloaded", "closed"}
Pending  == {"sending", "queued"}
\* "abandoned": the caller is gone, its command is not.
Stages   == Returned \cup Pending \cup {"abandoned"}
\* "closing": shutdown waits for a slot; "joining": it waits for the thread.
Owners   == {"open", "closing", "joining", "down", "dropped"}

Init ==
  /\ LoopInit
  /\ stage = [c \in Callers |-> "idle"]
  /\ live = {}
  /\ owner = "open"
  /\ permits = Capacity /\ waiters = << >> /\ granted = {}

-----------------------------------------------------------------------------
(* The channel. *)

\* Mutants: the owner's Sender alone counts; the thread keeps one itself.
SendersOwnerOnly == IF owner \in {"open", "closing", "joining"} THEN {Shutdown} ELSE {}
SendersKept == live \cup {Shutdown}

\* The owner keeps its Sender until shutdown returns or the gateway is dropped.
Senders ==
  live \cup (IF owner \in {"open", "closing", "joining"} THEN {Shutdown} ELSE {})

\* A slot is given back: to the first who waits, if any.
Freed(ws, gs) ==
  IF ws # << >>
    THEN waiters' = Tail(ws) /\ granted' = gs \cup {Head(ws)} /\ UNCHANGED permits
    ELSE waiters' = ws /\ granted' = gs /\ permits' = permits + 1

Put(c) == queue' = Append(queue, c) /\ UNCHANGED <<loop, batch, deferred>>

PutInFreeSlot(c) ==
  /\ permits > 0 /\ permits' = permits - 1
  /\ Put(c)
  /\ UNCHANGED <<waiters, granted>>

PutInGrantedSlot(c) ==
  /\ c \in granted /\ granted' = granted \ {c}
  /\ Put(c)
  /\ UNCHANGED <<permits, waiters>>

WaitForSlot(c) ==
  /\ permits = 0
  /\ waiters' = Append(waiters, c)
  /\ UNCHANGED <<loopVars, permits, granted>>

\* Mutant: the slot of a send dropped after it was granted is lost.
WithdrawLeaks(c) ==
  /\ waiters' = Remove(waiters, c)
  /\ granted' = granted \ {c}
  /\ UNCHANGED <<loopVars, permits>>

\* Mutant: a send that leaves the line gives back a slot it never had.
WithdrawTwice(c) ==
  /\ Freed(Remove(waiters, c), granted \ {c})
  /\ UNCHANGED loopVars

\* Mutant: the send goes on without its caller, as a task of its own would.
WithdrawNot(c) == UNCHANGED <<loopVars, channelVars>>

\* The future of a send is dropped: it leaves the line, or hands its slot on.
Withdraw(c) ==
  /\ IF c \in granted
       THEN Freed(waiters, granted \ {c})
       ELSE /\ \E i \in DOMAIN waiters : waiters[i] = c /\ waiters' = RemoveAt(waiters, i)
            /\ UNCHANGED <<permits, granted>>
  /\ UNCHANGED loopVars

-----------------------------------------------------------------------------
(* The callers. *)

\* A thread that blocks in join runs no task.
TasksRun == SingleThreaded => owner # "joining"

\* checkpoint always waits.
Refuses(c) == c \in Write /\ Overflow[c] = "reject"

TimesOut(c) == c \in Write /\ Overflow[c] = "timeout"

Becomes(c, s) == stage' = [stage EXCEPT ![c] = s]

\* execute or checkpoint up to its first await, or to its early return.
Call(c) ==
  /\ TasksRun /\ c \in live /\ stage[c] \in Returned
  /\ \/ loop = "stopped" /\ Becomes(c, "closed") /\ UNCHANGED <<loopVars, channelVars>>
     \/ loop # "stopped" /\ PutInFreeSlot(c) /\ Becomes(c, "queued")
     \/ loop # "stopped" /\ ~Refuses(c) /\ WaitForSlot(c) /\ Becomes(c, "sending")
     \/ /\ loop # "stopped" /\ Refuses(c) /\ permits = 0
        /\ Becomes(c, "overloaded") /\ UNCHANGED <<loopVars, channelVars>>
  /\ UNCHANGED <<live, owner>>

\* The task runs again after its send was granted a slot.
Push(c) ==
  /\ TasksRun /\ c \in Callers
  /\ PutInGrantedSlot(c) /\ Becomes(c, "queued")
  /\ UNCHANGED <<live, owner>>

\* Mutant: the timeout covers the wait for the reply too.
ExpireAnyTime(c) ==
  /\ TasksRun /\ TimesOut(c) /\ Becomes(c, "overloaded")
  /\ \/ stage[c] = "sending" /\ Withdraw(c)
     \/ stage[c] = "queued" /\ UNCHANGED <<loopVars, channelVars>>
  /\ UNCHANGED <<live, owner>>

\* WaitTimeout expires.  The send may have been granted a slot since it was
\* last polled.
Expire(c) ==
  /\ TasksRun /\ TimesOut(c)
  /\ stage[c] = "sending" /\ Withdraw(c) /\ Becomes(c, "overloaded")
  /\ UNCHANGED <<live, owner>>

\* The future of a call is dropped.  What is in the queue stays there.
Cancel(c) ==
  /\ TasksRun
  /\ \/ stage[c] = "sending" /\ Withdraw(c) /\ Becomes(c, "idle")
     \/ stage[c] = "queued" /\ Becomes(c, "abandoned") /\ UNCHANGED <<loopVars, channelVars>>
  /\ UNCHANGED <<live, owner>>

\* InProcessGateway::handle, or the clone of another handle.
GetHandle(c) ==
  /\ TasksRun /\ c \notin live
  /\ owner = "open" \/ live # {}
  /\ live' = live \cup {c}
  /\ UNCHANGED <<loopVars, stage, owner, channelVars>>

DropHandle(c) ==
  /\ TasksRun /\ c \in live /\ stage[c] \notin Pending
  /\ live' = live \ {c}
  /\ UNCHANGED <<loopVars, stage, owner, channelVars>>

-----------------------------------------------------------------------------
(* The owner. *)

\* Mutant: shutdown does not wait for a slot.
BeginShutdownTry ==
  /\ owner = "open" /\ owner' = "joining"
  /\ \/ PutInFreeSlot(Shutdown)
     \/ permits = 0 /\ UNCHANGED <<loopVars, channelVars>>
  /\ UNCHANGED <<stage, live>>

\* shutdown up to its await, or to the join when a slot is free.
BeginShutdown ==
  /\ owner = "open"
  /\ \/ PutInFreeSlot(Shutdown) /\ owner' = "joining"
     \/ WaitForSlot(Shutdown) /\ owner' = "closing"
  /\ UNCHANGED <<stage, live>>

PushShutdown ==
  /\ owner = "closing" /\ owner' = "joining"
  /\ PutInGrantedSlot(Shutdown)
  /\ UNCHANGED <<stage, live>>

\* The future of shutdown is dropped while it waits, and the gateway with it.
CancelShutdown ==
  /\ owner = "closing" /\ owner' = "dropped"
  /\ Withdraw(Shutdown)
  /\ UNCHANGED <<stage, live>>

\* Mutant: shutdown returns when its command is sent.
JoinNot ==
  /\ owner = "joining" /\ owner' = "down"
  /\ UNCHANGED <<loopVars, stage, live, channelVars>>

Join ==
  /\ owner = "joining" /\ loop = "stopped"
  /\ owner' = "down"
  /\ UNCHANGED <<loopVars, stage, live, channelVars>>

DropGateway ==
  /\ owner = "open" /\ owner' = "dropped"
  /\ UNCHANGED <<loopVars, stage, live, channelVars>>

-----------------------------------------------------------------------------
(* The writer thread. *)

Answered(c) == Becomes(c, IF stage[c] = "abandoned" THEN "idle" ELSE "served")

\* A checkpoint is answered when it is taken, a write later, Shutdown never.
AnsweredIfAsk(c) == IF c \in Ask THEN Answered(c) ELSE UNCHANGED stage

ReceiveCommand ==
  /\ Receive /\ Freed(waiters, granted)
  /\ AnsweredIfAsk(Head(queue))
  /\ UNCHANGED <<live, owner>>

SeeNoSender ==
  /\ Senders = {} /\ ReceiveNone
  /\ UNCHANGED <<stage, live, owner, channelVars>>

DrainCommand ==
  /\ DrainOne /\ Freed(waiters, granted)
  /\ UNCHANGED <<stage, live, owner>>

EndDrain == DrainEnds /\ UNCHANGED <<stage, live, owner, channelVars>>

AnswerWrite ==
  /\ Respond /\ Answered(Head(batch))
  /\ UNCHANGED <<live, owner, channelVars>>

HandleDeferred ==
  /\ TakeDeferred /\ AnsweredIfAsk(deferred[1])
  /\ UNCHANGED <<live, owner, channelVars>>

\* Mutant: the receiver outlives the thread, and the queue with it.
ClosedStageNot(c) == IF stage[c] = "abandoned" THEN "idle" ELSE stage[c]

\* The receiver is dropped: every send and every reply still awaited fails.
ClosedStage(c) ==
  IF stage[c] \in Pending THEN "closed" ELSE IF stage[c] = "abandoned" THEN "idle" ELSE stage[c]

DropReceiver ==
  /\ Leave
  /\ stage' = [c \in Callers |-> ClosedStage(c)]
  /\ permits' = Capacity /\ waiters' = << >> /\ granted' = {}
  /\ UNCHANGED <<live, owner>>

WriterStep ==
  \/ ReceiveCommand \/ SeeNoSender \/ DrainCommand \/ EndDrain
  \/ AnswerWrite \/ HandleDeferred \/ DropReceiver

CallerStep(c) ==
  \/ Call(c) \/ Push(c) \/ Expire(c) \/ Cancel(c)
  \/ GetHandle(c) \/ DropHandle(c)

OwnerStep == BeginShutdown \/ PushShutdown \/ CancelShutdown \/ Join \/ DropGateway

\* Nobody is left.
Gone == loop = "stopped" /\ owner # "joining" /\ live = {} /\ UNCHANGED vars

Next == WriterStep \/ (\E c \in Callers : CallerStep(c)) \/ OwnerStep \/ Gone

Spec == Init /\ [][Next]_vars

\* The thread is scheduled, a task that was woken runs, and join returns.
Fairness ==
  /\ WF_vars(WriterStep)
  /\ \A c \in Callers : WF_vars(Push(c))
  /\ WF_vars(PushShutdown) /\ WF_vars(Join)

FairSpec == Spec /\ Fairness
=============================================================================
