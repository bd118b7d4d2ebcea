------------------------------- MODULE Writer -------------------------------
(***************************************************************************)
(* The writer actor of src/src/writer.rs: one thread that owns the only    *)
(* SQLite connection, takes commands from a bounded channel, runs every    *)
(* request as a transaction (apply, apply_inner) or a group of             *)
(* one-operation requests as savepoints of one transaction (apply_batch,   *)
(* apply_savepoint), and answers each caller on a channel of its own.      *)
(*                                                                         *)
(* The steps are those another party can tell apart: callers enqueue       *)
(* between any two of them, the process may crash between any two of them, *)
(* and SQLite may refuse the statement each of them stands for.            *)
(***************************************************************************)
EXTENDS Database

CONSTANTS
  Ask,         \* checkpoint calls (Command::Checkpoint)
  Shutdown,    \* the command Command::Shutdown
  Capacity,    \* GatewayConfig::queue_capacity
  Batching,    \* is GatewayConfig::batch set?
  MaxBatch,    \* BatchConfig::max_size
  LatencyCap,  \* LATENCY_BUF_CAP
  Faults,      \* what SQLite may do to a statement, see FaultKinds
  MaxCrashes   \* bound: how often the process may die and be started again

(***************************************************************************)
(* error:    a statement fails and SQLite undoes that statement            *)
(* abort:    a statement fails and SQLite rolls back the whole transaction *)
(*           (ON CONFLICT ROLLBACK, RAISE(ROLLBACK), a full disk, ...)     *)
(* deferred: a statement succeeds and leaves a deferred constraint         *)
(*           violated, so that COMMIT will fail                            *)
(* begin:    BEGIN IMMEDIATE fails (another process holds the lock)        *)
(* commit:   COMMIT fails for a reason that is no statement's fault        *)
(***************************************************************************)
FaultKinds == {"error", "abort", "deferred", "begin", "commit"}

Calls    == Req \cup Ask
Commands == Calls \cup {Shutdown}

ASSUME WriterAssumption ==
  /\ Req \cap Ask = {}
  /\ Shutdown \notin Calls
  /\ Capacity \in Nat \ {0}
  /\ Batching \in BOOLEAN
  /\ MaxBatch \in Nat
  /\ LatencyCap \in Nat \ {0}
  /\ Faults \subseteq FaultKinds
  /\ MaxCrashes \in Nat

VARIABLES
  queue,     \* the bounded mpsc channel
  senders,   \* does any Sender of the channel still exist?
  pc,        \* where the writer thread is
  batch,     \* the requests in hand: one, or the collected batch
  idx,       \* the next operation, batch item or answer (1-based)
  results,   \* the responses made for batch so far
  deferred,  \* deferred_cmd: at most one command popped during a drain
  tx,        \* "begun" while the outer transaction is open, else "auto"
  violated,  \* does the open transaction violate a deferred constraint?
  work,      \* the database as the connection sees it
  disk,      \* the database as the last commit left it
  latency,   \* the length of the latency ring
  reply,     \* the answer each call got
  sent,      \* history: every command that entered the queue, in order
  offenders, \* history: requests that left a deferred constraint violated
  crashes    \* how often the process has died

channel == <<queue, senders, sent>>
task    == <<batch, idx, results, deferred>>
sqlite  == <<tx, violated, work, disk>>
vars    == <<queue, senders, pc, batch, idx, results, deferred, tx, violated,
             work, disk, latency, reply, sent, offenders, crashes>>

PCs == {"recv", "drain", "apply", "begin", "exec", "commit", "batchBegin",
        "item", "answer", "deferred", "exiting", "stopped"}

Replies == [status : Statuses, id : Calls, seq : Nat, why : Causes]

Init ==
  /\ queue = << >> /\ senders = TRUE /\ sent = << >>
  /\ pc = "recv"
  /\ batch = << >> /\ idx = 1 /\ results = << >> /\ deferred = << >>
  /\ tx = "auto" /\ violated = FALSE /\ work = EmptyDb /\ disk = EmptyDb
  /\ latency = 0
  /\ reply = [c \in Calls |-> Mute(c, "none")]
  /\ offenders = {} /\ crashes = 0

-----------------------------------------------------------------------------
(***************************************************************************)
(* The other end of the channel.                                           *)
(***************************************************************************)
Sent == {sent[i] : i \in 1 .. Len(sent)}

Unanswered(c) == reply[c].status = "none"

\* Sender::send completes: there was room, or the receiver is gone and the
\* caller gets GatewayClosed.
Send(c) ==
  /\ senders /\ c \notin Sent /\ (c \in Calls => Unanswered(c))
  /\ IF pc # "stopped"
       THEN /\ Len(queue) < Capacity
            /\ queue' = Append(queue, c)
            /\ sent' = Append(sent, c)
            /\ UNCHANGED reply
       ELSE /\ c \in Calls
            /\ reply' = [reply EXCEPT ![c] = Mute(c, "closed")]
            /\ UNCHANGED <<queue, sent>>
  /\ UNCHANGED <<senders, pc, task, sqlite, latency, offenders, crashes>>

\* The last Sender is dropped.
Hangup ==
  /\ senders
  /\ senders' = FALSE
  /\ UNCHANGED <<queue, sent, pc, task, sqlite, latency, reply, offenders, crashes>>

-----------------------------------------------------------------------------
(***************************************************************************)
(* Writer::run: receive, drain, defer.                                     *)
(***************************************************************************)
Batchable(c) == c \in Req /\ OpCount[BodyOf[c]] = 1

\* The match on a command that was just received or had been deferred; the
\* answer to a checkpoint is made and sent in the same match arm.
Take(c) ==
  \/ /\ c \in Req
     /\ batch' = <<c>> /\ idx' = 1 /\ results' = << >>
     /\ pc' = IF Batching /\ Batchable(c) THEN "drain" ELSE "apply"
     /\ UNCHANGED reply
  \/ /\ c \in Ask
     /\ pc' = "recv"
     /\ \E answer \in {Mute(c, "done")} \cup
                      (IF "error" \in Faults THEN {Failed(c, "error")} ELSE {}) :
           reply' = [reply EXCEPT ![c] = answer]
     /\ batch' = << >> /\ idx' = 1 /\ results' = << >>
  \/ /\ c = Shutdown
     /\ pc' = "exiting"
     /\ batch' = << >> /\ idx' = 1 /\ results' = << >>
     /\ UNCHANGED reply

Receive ==
  /\ pc = "recv" /\ queue # << >>
  /\ Take(Head(queue))
  /\ queue' = Tail(queue)
  /\ UNCHANGED <<senders, sent, deferred, sqlite, latency, offenders, crashes>>

\* blocking_recv returns None: nothing is queued and nobody can send.
ReceiveNone ==
  /\ pc = "recv" /\ queue = << >> /\ ~senders
  /\ pc' = "exiting"
  /\ UNCHANGED <<channel, task, sqlite, latency, reply, offenders, crashes>>

\* Mutants of SetAside: the command stays in the queue, goes back to its
\* end, or is dropped.
SetAsidePeeked(c)   == deferred' = <<c>> /\ UNCHANGED queue
SetAsideRequeued(c) == queue' = Append(Tail(queue), c) /\ UNCHANGED deferred
SetAsideDropped(c)  == queue' = Tail(queue) /\ UNCHANGED deferred

\* A popped command that cannot join the batch waits until after it.
SetAside(c) == queue' = Tail(queue) /\ deferred' = <<c>>

\* One turn of the while loop around try_recv.
Drain ==
  /\ pc = "drain"
  /\ IF Len(batch) < MaxBatch /\ queue # << >>
       THEN IF Batchable(Head(queue))
              THEN /\ batch' = Append(batch, Head(queue))
                   /\ queue' = Tail(queue)
                   /\ UNCHANGED <<pc, deferred>>
              ELSE /\ SetAside(Head(queue))
                   /\ pc' = IF Len(batch) = 1 THEN "apply" ELSE "batchBegin"
                   /\ UNCHANGED batch
       ELSE /\ pc' = IF Len(batch) = 1 THEN "apply" ELSE "batchBegin"
            /\ UNCHANGED <<queue, batch, deferred>>
  /\ UNCHANGED <<senders, sent, idx, results, sqlite, latency, reply, offenders, crashes>>

\* The command set aside by the drain, after the batch has been answered.
TakeDeferred ==
  /\ pc = "deferred"
  /\ Take(deferred[1])
  /\ deferred' = << >>
  /\ UNCHANGED <<channel, sqlite, latency, offenders, crashes>>

-----------------------------------------------------------------------------
(***************************************************************************)
(* Writer::apply and apply_inner: one request, one transaction.            *)
(***************************************************************************)
Current == batch[1]

\* The transaction is over and the connection sees what is on disk.
Close == tx' = "auto" /\ violated' = FALSE

\* Mutants of RollBack: nothing is undone; the drop commits instead.
RollBackForgotten == Close /\ UNCHANGED <<work, disk>>
RollBackCommits   == Close /\ disk' = work /\ UNCHANGED work

\* rusqlite rolls a Transaction back when it is dropped uncommitted.
RollBack == Close /\ work' = disk /\ UNCHANGED disk

Answering(answers) == pc' = "answer" /\ results' = answers /\ idx' = 1

\* Validation and the idempotency lookup, before any transaction is open.
Apply ==
  /\ pc = "apply"
  /\ \/ \E answer \in EarlyAnswers(work, Current) : Answering(<<answer>>)
     \/ /\ Deduplicated(Current) /\ "error" \in Faults
        /\ BodyOf[Current] \notin Rejected
        /\ Answering(<<Failed(Current, "error")>>)
     \/ /\ EarlyAnswers(work, Current) = {}
        /\ pc' = "begin" /\ UNCHANGED <<results, idx>>
  /\ UNCHANGED <<channel, batch, deferred, sqlite, latency, reply, offenders, crashes>>

Begin ==
  /\ pc = "begin"
  /\ \/ /\ tx' = "begun" /\ pc' = "exec"
        /\ UNCHANGED <<idx, results>>
     \/ /\ "begin" \in Faults
        /\ Answering(<<Failed(Current, "begin")>>)
        /\ UNCHANGED tx
  /\ UNCHANGED <<channel, batch, deferred, violated, work, disk, latency, reply,
                 offenders, crashes>>

\* An early return out of apply_inner drops the transaction.
StatementFails ==
  /\ {"error", "abort"} \cap Faults # {}
  /\ RollBack
  /\ Answering(<<Failed(Current, "error")>>)
  /\ UNCHANGED offenders

\* The next operation of the request.
Exec ==
  /\ pc = "exec" /\ idx <= OpCount[BodyOf[Current]]
  /\ \/ /\ work' = Executed(work, Current, idx)
        /\ idx' = idx + 1
        /\ \/ UNCHANGED <<violated, offenders>>
           \/ /\ "deferred" \in Faults
              /\ violated' = TRUE
              /\ offenders' = offenders \cup {Current}
        /\ UNCHANGED <<pc, results, tx, disk>>
     \/ StatementFails
  /\ UNCHANGED <<channel, batch, deferred, latency, reply, crashes>>

\* After the last operation: commit_seq and the idempotency record.
Record ==
  /\ pc = "exec" /\ idx > OpCount[BodyOf[Current]]
  /\ \/ /\ work' = Recorded(work, Current)
        /\ pc' = "commit"
        /\ UNCHANGED <<idx, results, tx, violated, disk, offenders>>
     \/ /\ TrackCommits \/ Deduplicated(Current)
        /\ StatementFails
  /\ UNCHANGED <<channel, batch, deferred, latency, reply, crashes>>

\* Mutant of Measured: one entry too many.
MeasuredOverfull == IF latency > LatencyCap THEN latency ELSE latency + 1

\* push_latency: a full ring first loses its oldest entry.
Measured == IF latency >= LatencyCap THEN latency ELSE latency + 1

Commit ==
  /\ pc = "commit"
  /\ \/ /\ ~violated
        /\ Close /\ disk' = work /\ UNCHANGED work
        /\ Answering(<<Committed(Current, LastSeq(work))>>)
        /\ latency' = Measured
     \/ /\ violated \/ "commit" \in Faults
        /\ RollBack
        /\ Answering(<<Failed(Current, "commit")>>)
        /\ UNCHANGED latency
  /\ UNCHANGED <<channel, batch, deferred, reply, offenders, crashes>>

-----------------------------------------------------------------------------
(***************************************************************************)
(* Writer::apply_batch and apply_savepoint.                                *)
(***************************************************************************)
Item == batch[idx]

BatchBegin ==
  /\ pc = "batchBegin"
  /\ \/ /\ tx' = "begun" /\ pc' = "item" /\ results' = << >> /\ UNCHANGED idx
     \/ /\ "begin" \in Faults
        /\ Answering([i \in 1 .. Len(batch) |-> Failed(batch[i], "begin")])
        /\ UNCHANGED tx
  /\ UNCHANGED <<channel, batch, deferred, violated, work, disk, latency, reply,
                 offenders, crashes>>

\* What RELEASE makes of a savepoint's work.  While the outer transaction is
\* open it only joins it; once SQLite has rolled that transaction back, the
\* savepoint is a transaction of its own and its release is a commit.
Released(after) ==
  work' = after /\ disk' = IF tx = "begun" THEN disk ELSE after

\* apply_savepoint succeeds.
SavepointSucceeds ==
  /\ Released(Recorded(Executed(work, Item, 1), Item))
  /\ \/ UNCHANGED <<violated, offenders>>
     \/ /\ "deferred" \in Faults /\ tx = "begun"
        /\ violated' = TRUE
        /\ offenders' = offenders \cup {Item}
  /\ results' = Append(results, Committed(Item, LastSeq(work')))
  /\ UNCHANGED tx

\* Mutant of SavepointFails: the savepoint is released, not rolled back.
SavepointKept ==
  /\ "error" \in Faults \/ (tx = "auto" /\ "deferred" \in Faults)
  /\ Released(Executed(work, Item, 1))
  /\ results' = Append(results, Failed(Item, "error"))
  /\ UNCHANGED <<tx, violated, offenders>>

\* sp_fail after a statement that SQLite undid: ROLLBACK TO and RELEASE put
\* the work back to what it was.  Without an outer transaction a violated
\* deferred constraint shows at the RELEASE, and ends here too.
SavepointFails ==
  /\ "error" \in Faults \/ (tx = "auto" /\ "deferred" \in Faults)
  /\ results' = Append(results, Failed(Item, "error"))
  /\ UNCHANGED <<sqlite, offenders>>

\* A statement for which SQLite rolled everything back.  The ROLLBACK TO of
\* sp_fail then fails, the error is ignored, and the batch goes on.
SavepointAborts ==
  /\ "abort" \in Faults
  /\ RollBack
  /\ results' = Append(results, Failed(Item, "error"))
  /\ UNCHANGED offenders

\* Mutant of ItemAnswers: the lookup does not see the open transaction.
ItemAnswersStale == EarlyAnswers(disk, Item)

\* Validation and the idempotency lookup inside the transaction: what
\* earlier items of the batch recorded counts.
ItemAnswers == EarlyAnswers(work, Item)

BatchItem ==
  /\ pc = "item" /\ idx <= Len(batch)
  /\ \/ \E answer \in ItemAnswers :
           /\ results' = Append(results, answer)
           /\ UNCHANGED <<sqlite, offenders>>
     \/ /\ ItemAnswers = {}
        /\ SavepointSucceeds \/ SavepointFails \/ SavepointAborts
  /\ idx' = idx + 1
  /\ UNCHANGED <<channel, pc, batch, deferred, latency, reply, crashes>>

\* Mutant of Overridden: the responses are sent as they were made.
OverriddenNot(res) == res

\* Committed responses are overridden when the outer COMMIT fails; the others
\* already carry their own error.
Overridden(res) == IF res.status = "committed" THEN Failed(res.id, "commit") ELSE res

BatchCommit ==
  /\ pc = "item" /\ idx > Len(batch)
  /\ \/ /\ tx = "begun" /\ ~violated
        /\ Close /\ disk' = work /\ UNCHANGED work
        /\ Answering(results)
        /\ latency' = Measured
     \/ /\ tx = "auto" \/ violated \/ "commit" \in Faults
        /\ RollBack
        /\ Answering([i \in 1 .. Len(results) |-> Overridden(results[i])])
        /\ UNCHANGED latency
  /\ UNCHANGED <<channel, batch, deferred, reply, offenders, crashes>>

-----------------------------------------------------------------------------
(***************************************************************************)
(* Answering, leaving, dying.                                              *)
(***************************************************************************)
\* Mutants: the rest of the batch, or the deferred command, is forgotten.
MoreToAnswerUndeferred == idx < Len(batch) /\ deferred = << >>
AfterAnswersReceive == "recv"

MoreToAnswer == idx < Len(batch)
AfterAnswers == IF deferred # << >> THEN "deferred" ELSE "recv"

\* respond_to.send for one request of the batch; then the deferred command,
\* then the next turn of the loop.
Answer ==
  /\ pc = "answer"
  /\ reply' = [reply EXCEPT ![batch[idx]] = results[idx]]
  /\ IF MoreToAnswer
       THEN idx' = idx + 1 /\ UNCHANGED <<pc, batch, results>>
       ELSE /\ idx' = 1 /\ batch' = << >> /\ results' = << >>
            /\ pc' = AfterAnswers
  /\ UNCHANGED <<channel, deferred, sqlite, latency, offenders, crashes>>

\* The shutdown checkpoint, whose result is ignored, and the end of the
\* thread: the receiver is dropped with everything still queued, and every
\* caller who has no answer yet gets GatewayClosed.
Exit ==
  /\ pc = "exiting"
  /\ pc' = "stopped"
  /\ reply' = [c \in Calls |->
                 IF c \in Sent /\ Unanswered(c) THEN Mute(c, "closed")
                                               ELSE reply[c]]
  /\ queue' = << >>
  /\ UNCHANGED <<senders, sent, task, sqlite, latency, offenders, crashes>>

\* The process dies, with the queue and whatever was not committed, and is
\* started again on the same file: SQLite recovers the last commit, and the
\* migrations find their tables there.
Crash ==
  /\ crashes < MaxCrashes
  /\ crashes' = crashes + 1
  /\ queue' = << >> /\ senders' = TRUE /\ pc' = "recv"
  /\ batch' = << >> /\ idx' = 1 /\ results' = << >> /\ deferred' = << >>
  /\ RollBack
  /\ latency' = 0
  /\ reply' = [c \in Calls |->
                 IF c \in Sent /\ Unanswered(c) THEN Mute(c, "lost") ELSE reply[c]]
  /\ UNCHANGED <<sent, offenders>>

\* The thread has returned: the only state in which nothing need happen.
Stopped == pc = "stopped" /\ UNCHANGED vars

WriterStep ==
  \/ Receive \/ ReceiveNone \/ Drain \/ TakeDeferred
  \/ Apply \/ Begin \/ Exec \/ Record \/ Commit
  \/ BatchBegin \/ BatchItem \/ BatchCommit
  \/ Answer \/ Exit

Next ==
  \/ \E c \in Commands : Send(c)
  \/ Hangup \/ WriterStep \/ Crash \/ Stopped

Spec == Init /\ [][Next]_vars

\* The operating system runs the thread: it takes its next step whenever
\* there is one.  Nothing is assumed of the callers.
FairSpec == Spec /\ WF_vars(WriterStep)
=============================================================================
