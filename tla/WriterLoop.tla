----------------------------- MODULE WriterLoop -----------------------------
(***************************************************************************)
(* The loop of Writer::run seen from the channel: which commands the       *)
(* writer holds, and in which order it is done with them.  What it does to *)
(* SQLite, and the answer it gives, are left open.  Writer implements this *)
(* module, and InProcess puts callers around it.                           *)
(***************************************************************************)
EXTENDS Naturals, Sequences

CONSTANTS
  Write, Single,  \* write requests, and those with one operation
  Ask,            \* checkpoint calls
  Shutdown,       \* Command::Shutdown
  Batching,       \* is GatewayConfig::batch set?
  MaxBatch        \* BatchConfig::max_size

Commands == Write \cup Ask \cup {Shutdown}

VARIABLES queue, loop, batch, deferred

loopVars == <<queue, loop, batch, deferred>>

LoopInit == queue = << >> /\ loop = "recv" /\ batch = << >> /\ deferred = << >>

\* The match on a command; a checkpoint is answered in its arm.
Take(c) ==
  \/ /\ c \in Write /\ batch' = <<c>>
     /\ loop' = IF Batching /\ c \in Single THEN "drain" ELSE "serve"
  \/ c \in Ask /\ batch' = << >> /\ loop' = "recv"
  \/ c = Shutdown /\ batch' = << >> /\ loop' = "exiting"

Receive ==
  /\ loop = "recv" /\ queue # << >>
  /\ Take(Head(queue))
  /\ queue' = Tail(queue)
  /\ UNCHANGED deferred

\* blocking_recv returns None once nobody can send any more.
ReceiveNone ==
  /\ loop = "recv" /\ queue = << >>
  /\ loop' = "exiting"
  /\ UNCHANGED <<queue, batch, deferred>>

\* try_recv in the drain: one more single-operation request joins the batch,
\* any other command is set aside and ends the drain.
DrainOne ==
  /\ loop = "drain" /\ Len(batch) < MaxBatch /\ queue # << >>
  /\ queue' = Tail(queue)
  /\ IF Head(queue) \in Single
       THEN batch' = Append(batch, Head(queue)) /\ UNCHANGED <<loop, deferred>>
       ELSE deferred' = <<Head(queue)>> /\ loop' = "serve" /\ UNCHANGED batch

DrainEnds ==
  /\ loop = "drain" /\ (Len(batch) >= MaxBatch \/ queue = << >>)
  /\ loop' = "serve"
  /\ UNCHANGED <<queue, batch, deferred>>

\* The first request in hand is answered.
Respond ==
  /\ loop = "serve" /\ batch # << >>
  /\ batch' = Tail(batch)
  /\ loop' = IF Len(batch) > 1 THEN "serve"
             ELSE IF deferred # << >> THEN "deferred" ELSE "recv"
  /\ UNCHANGED <<queue, deferred>>

TakeDeferred ==
  /\ loop = "deferred"
  /\ Take(deferred[1])
  /\ deferred' = << >>
  /\ UNCHANGED queue

\* The thread ends and drops its receiver with everything in it.
Leave ==
  /\ loop = "exiting"
  /\ loop' = "stopped" /\ queue' = << >>
  /\ UNCHANGED <<batch, deferred>>

LoopStep ==
  \/ Receive \/ ReceiveNone \/ DrainOne \/ DrainEnds
  \/ Respond \/ TakeDeferred \/ Leave

\* The other end of the channel, and the restart of a process that died.
Enqueue ==
  /\ loop # "stopped"
  /\ \E c \in Commands : queue' = Append(queue, c)
  /\ UNCHANGED <<loop, batch, deferred>>

Restart == queue' = << >> /\ loop' = "recv" /\ batch' = << >> /\ deferred' = << >>

LoopSpec == LoopInit /\ [][LoopStep \/ Enqueue \/ Restart]_loopVars
=============================================================================
