------------------------ MODULE WriterRefinementProofs ------------------------
(***************************************************************************)
(* Proof that the writer implements the loop that the in-process gateway   *)
(* is modelled around, and the log of writes and verdicts that a gateway   *)
(* promises: for every set of requests and every number of crashes.        *)
(***************************************************************************)
EXTENDS WriterRefinement, WriterHistoryProofs, SequenceTheorems

-----------------------------------------------------------------------------
(***************************************************************************)
(* The loop.                                                               *)
(***************************************************************************)

LEMMA InitLoop == Init => Loop!LoopInit
BY DEF Init, Loop!LoopInit

-----------------------------------------------------------------------------
(* The two ends of the channel. *)

LEMMA SendLoop ==
  ASSUME NEW c \in Commands, Send(c)
  PROVE  Loop!Enqueue \/ UNCHANGED Loop!loopVars
<1>1. UNCHANGED <<pc, batch, idx, deferred>>
  BY DEF Send, task
<1>2. CASE pc # "stopped"
  <2>1. queue' = Append(queue, c)
    BY <1>2 DEF Send
  <2> QED
    BY <1>1, <1>2, <2>1 DEF Loop!Enqueue, Loop!Commands, Commands, Calls
<1>3. CASE pc = "stopped"
  BY <1>1, <1>3 DEF Send, Loop!loopVars
<1> QED
  BY <1>2, <1>3

LEMMA TakeLoop ==
  ASSUME NEW c, Take(c)
  PROVE  Loop!Take(c)
<1>1. CASE /\ c \in Req /\ batch' = <<c>>
           /\ pc' = IF Batching /\ Batchable(c) THEN "drain" ELSE "apply"
  BY <1>1 DEF Loop!Take
<1>2. CASE c \in Ask /\ pc' = "recv" /\ batch' = << >>
  BY <1>2 DEF Loop!Take
<1>3. CASE c = Shutdown /\ pc' = "exiting" /\ batch' = << >>
  BY <1>3 DEF Loop!Take
<1> QED
  BY <1>1, <1>2, <1>3 DEF Take

LEMMA ReceiveLoop == ASSUME Receive PROVE Loop!Receive
<1>1. pc = "recv" /\ queue # << >> /\ Loop!Take(Head(queue)) /\ queue' = Tail(queue) /\ deferred' = deferred
  BY TakeLoop DEF Receive
<1> QED
  BY <1>1 DEF Loop!Receive

LEMMA ReceiveNoneLoop == ASSUME ReceiveNone PROVE Loop!ReceiveNone
BY DEF ReceiveNone, Loop!ReceiveNone, channel, task

LEMMA DeferredLoop == ASSUME TakeDeferred PROVE Loop!TakeDeferred
<1>1. pc = "deferred" /\ Loop!Take(deferred[1]) /\ deferred' = << >> /\ queue' = queue
  BY TakeLoop DEF TakeDeferred, channel
<1> QED
  BY <1>1 DEF Loop!TakeDeferred

LEMMA DrainLoop ==
  ASSUME Inv, Drain
  PROVE  Loop!DrainOne \/ Loop!DrainEnds \/ UNCHANGED Loop!loopVars
<1>1. /\ pc = "drain" /\ pc' \in {"drain", "apply", "batchBegin"}
      /\ queue \in Seq(Commands) /\ batch \in Seq(Req) /\ Len(batch) \in Nat
  BY DEF Drain, Inv, TypeOK, ChannelOK, TaskOK
<1>2. CASE /\ Len(batch) < MaxBatch /\ queue # << >> /\ Batchable(Head(queue))
           /\ batch' = Append(batch, Head(queue)) /\ queue' = Tail(queue)
           /\ pc' = pc /\ deferred' = deferred
  BY <1>1, <1>2 DEF Loop!DrainOne, Batchable
<1>3. CASE /\ Len(batch) < MaxBatch /\ queue # << >> /\ ~Batchable(Head(queue))
           /\ queue' = Tail(queue) /\ deferred' = <<Head(queue)>>
           /\ pc' \in {"apply", "batchBegin"} /\ batch' = batch
  BY <1>1, <1>3 DEF Loop!DrainOne
<1>4. CASE /\ ~(Len(batch) < MaxBatch /\ queue # << >>)
           /\ pc' \in {"apply", "batchBegin"} /\ UNCHANGED <<queue, batch, deferred>>
  BY <1>1, <1>4, WriterAssumption DEF Loop!DrainEnds
<1> QED
  BY <1>1, <1>2, <1>3, <1>4 DEF Drain, SetAside

-----------------------------------------------------------------------------
(* What goes on inside a batch is invisible, the first answer included. *)

Working == {"apply", "begin", "exec", "commit", "batchBegin", "item"}

LEMMA HiddenWork ==
  ASSUME Inv, pc \in Working, pc' \in Working \cup {"answer"},
         UNCHANGED <<queue, batch, deferred>>, pc' = "answer" => idx' = 1
  PROVE  UNCHANGED Loop!loopVars
<1>1. batch \in Seq(Req)
  BY DEF Inv, TypeOK, TaskOK
<1>2. SubSeq(batch, 1, Len(batch)) = batch
  BY <1>1, SubSeqFull
<1> QED
  BY <1>2 DEF Loop!loopVars, Working

LEMMA WorkLoop ==
  ASSUME Inv,
         Apply \/ Begin \/ Exec \/ Record \/ Commit \/ BatchBegin \/ BatchItem \/ BatchCommit
  PROVE  UNCHANGED Loop!loopVars
<1>1. /\ pc \in Working /\ pc' \in Working \cup {"answer"}
      /\ UNCHANGED <<queue, batch, deferred>> /\ (pc' = "answer" => idx' = 1)
  BY DEF Working, channel, Apply, Begin, Exec, Record, Commit, BatchBegin, BatchItem, BatchCommit,
         Answering, StatementFails
<1> QED
  BY <1>1, HiddenWork

LEMMA EmptySeqHasNoLength == ASSUME NEW s, Len(s) # 0 PROVE s # << >>
OBVIOUS

LEMMA AnswerLoop == ASSUME Inv, Answer PROVE Loop!Respond
<1> DEFINE left == SubSeq(batch, idx, Len(batch))
<1>1. /\ pc = "answer" /\ batch \in Seq(Req) /\ idx \in 1 .. Len(batch) /\ Len(batch) \in Nat
      /\ queue' = queue /\ deferred' = deferred
  BY DEF Inv, TypeOK, TaskOK, InHand, Answer, channel
<1>2. /\ Len(left) = Len(batch) - idx + 1 /\ left # << >>
      /\ Tail(left) = SubSeq(batch, idx + 1, Len(batch))
  <2>1. Tail(left) = SubSeq(batch, idx + 1, Len(batch))
    BY <1>1, HeadTailOfSubSeq
  <2>2. left \in Seq(Req) /\ Len(left) = Len(batch) - idx + 1
    BY <1>1
  <2> HIDE DEF left
  <2>3. Len(left) # 0
    BY <1>1, <2>2
  <2>4. left # << >>
    BY <2>3, EmptySeqHasNoLength
  <2> QED
    BY <2>1, <2>2, <2>4
<1>3. CASE idx < Len(batch)
  <2>1. idx' = idx + 1 /\ pc' = "answer" /\ batch' = batch
    BY <1>1, <1>3 DEF Answer, MoreToAnswer
  <2>2. Len(left) > 1
    BY <1>1, <1>2, <1>3
  <2> HIDE DEF left
  <2>3. SubSeq(batch', idx', Len(batch')) = Tail(left)
    BY <1>2, <2>1
  <2> QED
    BY <1>1, <1>2, <2>1, <2>2, <2>3 DEF Loop!Respond, left
<1>4. CASE ~(idx < Len(batch))
  <2>1. /\ batch' = << >> /\ pc' \in {"deferred", "recv"}
        /\ pc' = IF deferred # << >> THEN "deferred" ELSE "recv"
    BY <1>4 DEF Answer, MoreToAnswer, AfterAnswers
  <2>2. ~(Len(left) > 1) /\ Tail(left) = << >>
    BY <1>1, <1>2, <1>4, SubSeqEmpty
  <2> HIDE DEF left
  <2> QED
    BY <1>1, <1>2, <2>1, <2>2 DEF Loop!Respond, left
<1> QED
  BY <1>3, <1>4

LEMMA ExitLoop == ASSUME Exit PROVE Loop!Leave
BY DEF Exit, Loop!Leave, task

LEMMA CrashLoop == ASSUME Crash PROVE Loop!Restart
BY DEF Crash, Loop!Restart

-----------------------------------------------------------------------------
LEMMA StepLoop ==
  Inv /\ [Next]_vars
    => [Loop!LoopStep \/ Loop!Enqueue \/ Loop!Restart]_(Loop!loopVars)
<1> SUFFICES ASSUME Inv, [Next]_vars
             PROVE  \/ Loop!LoopStep \/ Loop!Enqueue \/ Loop!Restart
                    \/ UNCHANGED Loop!loopVars
  OBVIOUS
<1>1. CASE \E c \in Commands : Send(c)
  BY <1>1, SendLoop
<1>2. CASE Hangup
  BY <1>2 DEF Hangup, task, Loop!loopVars
<1>3. CASE Receive \/ ReceiveNone \/ Drain \/ TakeDeferred
  BY <1>3, ReceiveLoop, ReceiveNoneLoop, DrainLoop, DeferredLoop DEF Loop!LoopStep
<1>4. CASE Apply \/ Begin \/ Exec \/ Record \/ Commit \/ BatchBegin \/ BatchItem \/ BatchCommit
  BY <1>4, WorkLoop
<1>5. CASE Answer \/ Exit
  BY <1>5, AnswerLoop, ExitLoop DEF Loop!LoopStep
<1>6. CASE Crash
  BY <1>6, CrashLoop
<1>7. CASE UNCHANGED vars
  BY <1>7 DEF vars, Loop!loopVars
<1> QED
  BY <1>1, <1>2, <1>3, <1>4, <1>5, <1>6, <1>7 DEF Next, WriterStep, Stopped

(***************************************************************************)
(* The writer takes commands off its channel and is done with them in the  *)
(* way the loop says, whatever SQLite does to them (Writer::run).          *)
(***************************************************************************)
THEOREM WriterImplementsLoop == Spec => ImplementsLoop
<1>1. Spec => []Inv
  BY InvInit, InvStep, PTL DEF Spec
<1> QED
  BY <1>1, InitLoop, StepLoop, PTL DEF Spec, ImplementsLoop, Loop!LoopSpec

-----------------------------------------------------------------------------
(***************************************************************************)
(* Why the durable log only grows: LogGrows is inductive.                  *)
(***************************************************************************)
LEMMA CountersType ==
  ASSUME Inv
  PROVE  /\ disk.counter \in Nat /\ work.counter \in Nat
         /\ disk.commits \subseteq Commits /\ work.commits \subseteq Commits
BY DEF Inv, TypeOK, DatabaseOK, Databases

\* When a step leaves both databases one, nothing is pending.
LEMMA ProlongsAtRest ==
  ASSUME Inv', work' = disk'
  PROVE  Prolongs'
<1>1. work'.counter \in Nat /\ idx' \in Nat \ {0}
  BY DEF Inv, TypeOK, TaskOK, DatabaseOK, Databases
<1>2. Numbered' \in Nat
  BY <1>1 DEF Numbered
<1>3. PICK n \in Nat : n = Numbered'
  BY <1>2
<1>4. work'.counter <= work'.counter /\ work'.counter <= work'.counter + n
  BY <1>1
<1> QED
  BY <1>3, <1>4 DEF Prolongs

\* Where the transaction is over, they are one.
LEMMA ProlongsSettled == ASSUME Inv', TxOK', tx' = "auto" PROVE Prolongs'
<1>1. work' = disk'
  BY DEF TxOK
<1> QED
  BY <1>1, ProlongsAtRest

\* The statements of a request in the transaction.
LEMMA RecordedNumbers ==
  ASSUME NEW d \in Databases, NEW r \in Req
  PROVE  /\ Recorded(d, r).counter \in d.counter .. d.counter + 1
         /\ d.commits \subseteq Recorded(d, r).commits
         /\ \A c \in Recorded(d, r).commits \ d.commits :
              c.req = r /\ c.seq = d.counter + 1
<1> DEFINE t == IF TrackCommits THEN Tracked(d, r) ELSE d
<1>1. d.counter \in Nat
  BY DEF Databases
<1>2. /\ t.counter \in d.counter .. d.counter + 1 /\ d.commits \subseteq t.commits
      /\ \A c \in t.commits \ d.commits : c.req = r /\ c.seq = d.counter + 1
  BY <1>1 DEF Tracked, Databases
<1>3. t \in Databases
  BY TrackedType
<1> HIDE DEF t
<1>4. Remembered(t, r).counter = t.counter /\ Remembered(t, r).commits = t.commits
  BY <1>3 DEF Remembered, Databases
<1>5. Recorded(d, r) = Remembered(t, r)
  BY DEF Recorded, t
<1> QED
  BY <1>2, <1>4, <1>5

\* One more request of the batch is done with, and may have a number.
LEMMA ProlongsOneMore ==
  ASSUME Inv, Prolongs, UNCHANGED <<disk, batch>>, NEW r, NEW i \in 1 .. Len(batch),
         r = batch[i], NEW m \in Nat, Numbered = m, Numbered' = m + 1,
         work'.counter \in work.counter .. work.counter + 1,
         work.commits \subseteq work'.commits,
         \A c \in work'.commits \ work.commits : c.req = r /\ c.seq = work.counter + 1
  PROVE  Prolongs'
<1>1. disk.counter \in Nat /\ work.counter \in Nat
  BY CountersType
<1>2. disk.counter <= work'.counter /\ work'.counter <= disk.counter + (m + 1)
  BY <1>1 DEF Prolongs
<1>3. ASSUME NEW c \in work'.commits \ disk.commits
      PROVE  c.seq > disk.counter /\ \E k \in 1 .. Len(batch) : c.req = batch[k]
  <2>1. CASE c \in work.commits
    BY <1>3, <2>1 DEF Prolongs
  <2>2. CASE c \notin work.commits
    BY <1>1, <1>3, <2>2 DEF Prolongs
  <2> QED
    BY <2>1, <2>2
<1> QED
  BY <1>2, <1>3 DEF Prolongs

LEMMA ProlongsFrame ==
  ASSUME Prolongs, UNCHANGED <<batch, idx, pc, work, disk>>
  PROVE  Prolongs'
BY DEF Prolongs, Numbered

LEMMA ProlongsBegin == ASSUME Whole, Begin, Inv', TxOK' PROVE Prolongs'
<1>1. CASE tx' = "begun" /\ pc' = "exec"
  <2>1. work' = disk'
    BY <1>1, CountersType DEF Begin, Whole, Truthful, TxOK
  <2> QED
    BY <2>1, ProlongsAtRest
<1>2. CASE UNCHANGED tx
  <2>1. tx' = "auto"
    BY <1>2 DEF Begin, Whole, Truthful, TxOK
  <2> QED
    BY <2>1, ProlongsSettled
<1> QED
  BY <1>1, <1>2 DEF Begin

LEMMA ProlongsExec == ASSUME Whole, Prolongs, Exec, Inv', TxOK' PROVE Prolongs'
<1>1. CASE StatementFails
  BY <1>1, ProlongsSettled DEF StatementFails, RollBack, Close
<1>2. CASE work' = Executed(work, Current, idx) /\ UNCHANGED <<pc, tx, disk>>
  <2>1. pc = "exec" /\ pc' = "exec" /\ batch' = batch /\ disk' = disk
    BY <1>2 DEF Exec
  <2>2. work'.counter = work.counter /\ work'.commits = work.commits
    BY <1>2 DEF Executed, Whole, Strong, Inv, TypeOK, DatabaseOK, Databases
  <2> QED
    BY <2>1, <2>2 DEF Prolongs, Numbered
<1> QED
  BY <1>1, <1>2 DEF Exec

LEMMA ProlongsRecord == ASSUME Whole, Prolongs, Record, Inv', TxOK' PROVE Prolongs'
<1>1. CASE StatementFails
  BY <1>1, ProlongsSettled DEF StatementFails, RollBack, Close
<1>2. CASE work' = Recorded(work, Current) /\ pc' = "commit" /\ UNCHANGED <<tx, disk>>
  <2>1. pc = "exec" /\ batch' = batch /\ disk' = disk
    BY <1>2 DEF Record
  <2>2. Inv /\ work \in Databases /\ Current \in Req /\ 1 \in 1 .. Len(batch)
    <3>1. Inv /\ work \in Databases /\ Len(batch) = 1
      BY <2>1 DEF Whole, Strong, Inv, TypeOK, DatabaseOK, InHand
    <3> QED
      BY <2>1, <3>1, CurrentType
  <2>3. Numbered = 0 /\ Numbered' = 0 + 1
    BY <1>2, <2>1 DEF Numbered
  <2> QED
    BY <1>2, <2>1, <2>2, <2>3, RecordedNumbers, ProlongsOneMore DEF Current
<1> QED
  BY <1>1, <1>2 DEF Record

LEMMA ProlongsBatchBegin == ASSUME Whole, BatchBegin, Inv', TxOK' PROVE Prolongs'
<1>1. work' = work /\ disk' = disk /\ work = disk
  BY DEF BatchBegin, Whole, Truthful, TxOK
<1> QED
  BY <1>1, ProlongsAtRest

LEMMA ProlongsBatchItem == ASSUME Whole, Prolongs, BatchItem, Inv', TxOK' PROVE Prolongs'
<1>1. /\ pc = "item" /\ pc' = "item" /\ idx <= Len(batch) /\ idx' = idx + 1 /\ batch' = batch
      /\ Inv
  BY DEF BatchItem, Whole, Strong
<1>2. /\ batch \in Seq(Req) /\ idx \in 1 .. Len(batch) /\ work \in Databases
  BY <1>1 DEF Inv, TypeOK, TaskOK, DatabaseOK
<1>3. Item \in Req /\ Item = batch[idx]
  BY <1>2 DEF Item
<1>4. idx - 1 \in Nat /\ Numbered = idx - 1 /\ Numbered' = (idx - 1) + 1
  BY <1>1, <1>2 DEF Numbered
<1>5. CASE UNCHANGED sqlite
  BY <1>1, <1>2, <1>3, <1>4, <1>5, CountersType, ProlongsOneMore DEF sqlite
<1>6. CASE SavepointAborts
  BY <1>6, ProlongsSettled DEF SavepointAborts, RollBack, Close
<1>7. CASE SavepointSucceeds
  <2>1. CASE tx = "auto"
    BY <1>7, <2>1, ProlongsSettled DEF SavepointSucceeds
  <2>2. CASE tx # "auto"
    <3> DEFINE done == Executed(work, Item, 1)
    <3>1. tx = "begun" /\ work' = Recorded(done, Item) /\ disk' = disk
      BY <1>1, <1>7, <2>2 DEF SavepointSucceeds, Released, Inv, TypeOK, DatabaseOK
    <3>2. done \in Databases
      BY <1>2, <1>3, ExecutedType
    <3>3. done.counter = work.counter /\ done.commits = work.commits
      BY <1>2 DEF Executed, Databases
    <3> HIDE DEF done
    <3>4. /\ work'.counter \in work.counter .. work.counter + 1
          /\ work.commits \subseteq work'.commits
          /\ \A c \in work'.commits \ work.commits : c.req = Item /\ c.seq = work.counter + 1
      BY <1>3, <3>1, <3>2, <3>3, RecordedNumbers
    <3> QED
      BY <1>1, <1>2, <1>3, <1>4, <3>1, <3>4, ProlongsOneMore
  <2> QED
    BY <2>1, <2>2
<1> QED
  BY <1>5, <1>6, <1>7 DEF BatchItem, SavepointFails

\* The steps that begin no transaction and leave none open.
LEMMA ProlongsElsewhere ==
  ASSUME Whole, Inv', TxOK',
         \/ Receive \/ ReceiveNone \/ Drain \/ TakeDeferred \/ Apply \/ Commit
         \/ BatchCommit \/ Answer \/ Exit \/ Crash
  PROVE  Prolongs'
<1>1. tx' = "auto"
  <2>1. CASE Commit \/ BatchCommit \/ Crash
    BY <2>1 DEF Commit, BatchCommit, Crash, Close, RollBack
  <2>2. CASE Receive \/ ReceiveNone \/ Drain \/ TakeDeferred \/ Apply \/ Answer \/ Exit
    BY <2>2 DEF Receive, ReceiveNone, Drain, TakeDeferred, Apply, Answer, Exit, sqlite,
                Whole, Truthful, TxOK
  <2> QED
    BY <2>1, <2>2
<1> QED
  BY <1>1, ProlongsSettled

LEMMA ProlongsStep == Whole /\ Prolongs /\ [Next]_vars /\ Inv' /\ TxOK' => Prolongs'
<1> SUFFICES ASSUME Whole, Prolongs, [Next]_vars, Inv', TxOK'
             PROVE  Prolongs'
  OBVIOUS
<1>1. CASE (\E c \in Commands : Send(c)) \/ Hangup \/ Stopped \/ UNCHANGED vars
  BY <1>1, ProlongsFrame DEF Send, Hangup, Stopped, vars, task, sqlite
<1>2. CASE WriterStep
  BY <1>2, ProlongsBegin, ProlongsExec, ProlongsRecord, ProlongsBatchBegin, ProlongsBatchItem,
     ProlongsElsewhere DEF WriterStep
<1>3. CASE Crash
  BY <1>3, ProlongsElsewhere
<1> QED
  BY <1>1, <1>2, <1>3 DEF Next

\* Only a commit is answered with a number.
Plain(a) == a.status = "failed" => a.seq = NoSeq

LEMMA FailedIsPlain == ASSUME NEW id, NEW why PROVE Plain(Failed(id, why))
BY DEF Plain, Failed

LEMMA CommittedIsPlain == ASSUME NEW id, NEW seq PROVE Plain(Committed(id, seq))
BY DEF Plain, Committed

LEMMA EarlyIsPlain ==
  ASSUME NEW d, NEW r, NEW a \in EarlyAnswers(d, r)
  PROVE  Plain(a)
BY FailedIsPlain, CommittedIsPlain DEF EarlyAnswers

LEMMA OnePlain ==
  ASSUME NEW a, Plain(a), Answering(<<a>>)
  PROVE  Unnumbered'
<1>1. Len(results') = 1 /\ results'[1] = a
  BY DEF Answering
<1> QED
  BY <1>1 DEF Unnumbered, Plain

LEMMA OneMorePlain ==
  ASSUME Inv, Unnumbered, NEW a, Plain(a), results' = Append(results, a)
  PROVE  Unnumbered'
<1>1. results \in Seq(Replies)
  BY DEF Inv, TypeOK, TaskOK
<1>2. /\ Len(results') = Len(results) + 1 /\ results'[Len(results) + 1] = a
      /\ \A i \in 1 .. Len(results) : results'[i] = results[i]
  BY <1>1
<1> QED
  BY <1>1, <1>2 DEF Unnumbered, Plain

LEMMA UnnumberedSingle ==
  ASSUME Unnumbered, Apply \/ Begin \/ Exec \/ Record \/ Commit
  PROVE  Unnumbered'
<1>1. UNCHANGED results \/ \E a : Plain(a) /\ Answering(<<a>>)
  BY FailedIsPlain, CommittedIsPlain, EarlyIsPlain
     DEF Apply, Begin, Exec, Record, Commit, StatementFails
<1> QED
  BY <1>1, OnePlain DEF Unnumbered

LEMMA UnnumberedBatch ==
  ASSUME Inv, Unnumbered, BatchBegin \/ BatchItem \/ BatchCommit
  PROVE  Unnumbered'
<1>1. CASE BatchBegin
  <2>1. CASE results' = << >>
    BY <2>1 DEF Unnumbered
  <2>2. CASE results' = [i \in 1 .. Len(batch) |-> Failed(batch[i], "begin")]
    <3>1. Len(batch) \in Nat
      BY DEF Inv, TypeOK, TaskOK
    <3>2. Len(results') = Len(batch)
      BY <2>2, <3>1
    <3> QED
      BY <2>2, <3>2, FailedIsPlain DEF Unnumbered, Plain
  <2> QED
    BY <1>1, <2>1, <2>2 DEF BatchBegin, Answering
<1>2. CASE BatchItem
  <2>1. \E a : Plain(a) /\ results' = Append(results, a)
    BY <1>2, FailedIsPlain, CommittedIsPlain, EarlyIsPlain
       DEF BatchItem, ItemAnswers, SavepointSucceeds, SavepointFails, SavepointAborts
  <2> QED
    BY <2>1, OneMorePlain
<1>3. CASE BatchCommit
  <2>1. CASE results' = results
    BY <2>1 DEF Unnumbered
  <2>2. CASE results' = [i \in 1 .. Len(results) |-> Overridden(results[i])]
    <3>1. Len(results) \in Nat
      BY DEF Inv, TypeOK, TaskOK
    <3>2. Len(results') = Len(results)
      BY <2>2, <3>1
    <3>3. ASSUME NEW i \in 1 .. Len(results) PROVE Plain(Overridden(results[i]))
      BY FailedIsPlain DEF Overridden, Unnumbered, Plain
    <3> QED
      BY <2>2, <3>2, <3>3 DEF Unnumbered, Plain
  <2> QED
    BY <1>3, <2>1, <2>2 DEF BatchCommit, Answering
<1> QED
  BY <1>1, <1>2, <1>3

LEMMA UnnumberedElsewhere ==
  ASSUME Unnumbered,
         \/ (\E c \in Commands : Send(c)) \/ Hangup \/ Stopped \/ UNCHANGED vars
         \/ Receive \/ ReceiveNone \/ Drain \/ TakeDeferred \/ Answer \/ Exit \/ Crash
  PROVE  Unnumbered'
<1>1. UNCHANGED results \/ results' = << >>
  BY DEF Send, Hangup, Stopped, vars, task, Receive, ReceiveNone, Drain, TakeDeferred, Take,
         Answer, Exit, Crash
<1> QED
  BY <1>1 DEF Unnumbered

LEMMA UnnumberedStep == Inv /\ Unnumbered /\ [Next]_vars => Unnumbered'
BY UnnumberedSingle, UnnumberedBatch, UnnumberedElsewhere DEF Next, WriterStep

Kept == Whole /\ LogGrows

LEMMA KeptInit == Init => Kept
<1>1. Init => Whole
  BY InvInit, SoundInit, OrderlyInit, TruthfulInit DEF Whole, Strong
<1>2. ASSUME Init PROVE Prolongs
  <2>1. Numbered = 0 /\ work = disk /\ work.counter = 0
    BY <1>2 DEF Init, Numbered, EmptyDb
  <2>2. work.counter <= disk.counter + 0 /\ disk.counter <= work.counter
    BY <2>1
  <2> QED
    BY <2>1, <2>2 DEF Prolongs
<1>3. Init => Unnumbered
  BY DEF Init, Unnumbered
<1> QED
  BY <1>1, <1>2, <1>3 DEF Kept, LogGrows

LEMMA KeptStep == Kept /\ [Next]_vars => Kept'
<1> SUFFICES ASSUME Kept, [Next]_vars PROVE Kept'
  OBVIOUS
<1>1. Inv' /\ Sound' /\ Orderly' /\ Truthful'
  BY InvStep, SoundStep, OrderlyStep, TruthfulStep DEF Kept, Whole, Strong
<1>2. Prolongs' /\ Unnumbered'
  BY <1>1, ProlongsStep, UnnumberedStep DEF Kept, Whole, Strong, LogGrows, Truthful
<1> QED
  BY <1>1, <1>2 DEF Kept, Whole, Strong, LogGrows

-----------------------------------------------------------------------------
(***************************************************************************)
(* The log.                                                                *)
(***************************************************************************)
LEMMA LogOfType ==
  ASSUME NEW d \in Databases, GaplessIn(d)
  PROVE  /\ LogOf(d) \in Seq(Req) /\ Len(LogOf(d)) = d.counter /\ d.counter \in Nat
         /\ \A n \in 1 .. d.counter :
              LogOf(d)[n] \in Req /\ [seq |-> n, req |-> LogOf(d)[n]] \in d.commits
<1>1. d.counter \in Nat /\ d.commits \subseteq Commits
  BY DEF Databases
<1>2. ASSUME NEW n \in 1 .. d.counter
      PROVE  \E r \in Req : [seq |-> n, req |-> r] \in d.commits
  <2>1. PICK c \in d.commits : c.seq = n
    BY DEF GaplessIn
  <2>2. c = [seq |-> n, req |-> c.req] /\ c.req \in Req
    BY <1>1, <2>1 DEF Commits
  <2> QED
    BY <2>2
<1>3. ASSUME NEW n \in 1 .. d.counter
      PROVE  LogOf(d)[n] \in Req /\ [seq |-> n, req |-> LogOf(d)[n]] \in d.commits
  BY <1>2 DEF LogOf
<1>4. LogOf(d) \in [1 .. d.counter -> Req]
  BY <1>3 DEF LogOf
<1>5. LogOf(d) \in Seq(Req) /\ Len(LogOf(d)) = d.counter
  BY <1>1, <1>4
<1> QED
  BY <1>1, <1>3, <1>5

\* A commit stands in the log under its number.
LEMMA CommitInLog ==
  ASSUME NEW d \in Databases, GaplessIn(d), NEW n, NEW r,
         [seq |-> n, req |-> r] \in d.commits
  PROVE  n \in 1 .. d.counter /\ LogOf(d)[n] = r
<1> DEFINE c == [seq |-> n, req |-> r]
<1>1. n \in 1 .. d.counter
  <2>1. c.seq \in 1 .. d.counter
    BY DEF GaplessIn
  <2> QED
    BY <2>1
<1>2. [seq |-> n, req |-> LogOf(d)[n]] \in d.commits
  BY <1>1, LogOfType
<1>3. [seq |-> n, req |-> LogOf(d)[n]] = c
  BY <1>2 DEF GaplessIn
<1> QED
  BY <1>1, <1>3

LEMMA UntouchedNotInLog ==
  ASSUME NEW d \in Databases, GaplessIn(d), NEW r, Untouched(d, r)
  PROVE  ~Log!In(r, LogOf(d))
<1> SUFFICES ASSUME NEW i \in 1 .. d.counter, LogOf(d)[i] = r
             PROVE  FALSE
  BY LogOfType DEF Log!In
<1>1. [seq |-> i, req |-> r] \in d.commits
  BY LogOfType
<1> QED
  BY <1>1 DEF Untouched, CommittedIn

\* A request committed once is committed under one number.
LEMMA CommittedOnce ==
  ASSUME NEW d \in Databases, GaplessIn(d), NEW n, NEW m, SerialDb(d, n, m),
         NEW c1 \in d.commits, NEW c2 \in d.commits, c1.req = c2.req
  PROVE  c1 = c2
<1>1. PICK p \in 1 .. Len(sent) : sent[p] = c1.req
  BY DEF SerialDb, SentBy
<1>2. c1.seq <= c2.seq /\ c2.seq <= c1.seq
  BY <1>1 DEF SerialDb
<1>3. c1.seq \in Nat /\ c2.seq \in Nat
  BY DEF Databases, Commits
<1> QED
  BY <1>2, <1>3 DEF GaplessIn

LEMMA PlaceInLine ==
  ASSUME EachSentOnce, NEW p \in 1 .. Len(sent)
  PROVE  Log!Place(sent[p]) = p
BY DEF EachSentOnce, Log!Place

\* The log of a database that is serial and remembers its keys is lawful.
LEMMA LogLawful ==
  ASSUME NEW d \in Databases, SoundDb(d), Accounted(d, {}), Idempotency,
         NEW n, NEW m, SerialDb(d, n, m), EachSentOnce, sent \in Seq(Commands)
  PROVE  Log!Lawful(LogOf(d))
<1> DEFINE l == LogOf(d)
<1> SUFFICES ASSUME NEW i \in 1 .. Len(l), NEW j \in 1 .. Len(l), i < j
             PROVE  /\ Log!Place(l[i]) < Log!Place(l[j])
                    /\ KeyOf[l[i]] = KeyOf[l[j]] => KeyOf[l[i]] = NoKey
  BY DEF Log!Lawful
<1> DEFINE c1 == [seq |-> i, req |-> l[i]]
           c2 == [seq |-> j, req |-> l[j]]
<1>1. /\ GaplessIn(d) /\ KeysUnique(d) /\ i \in Nat /\ j \in Nat
      /\ c1 \in d.commits /\ c2 \in d.commits /\ l[i] \in Req /\ l[j] \in Req
  BY LogOfType DEF SoundDb
<1>2. c1.seq = i /\ c2.seq = j /\ c1.req = l[i] /\ c2.req = l[j]
  OBVIOUS
<1> HIDE DEF l, c1, c2
<1>3. Log!Place(l[i]) < Log!Place(l[j])
  <2>1. PICK p \in 1 .. Len(sent) : sent[p] = c1.req
    BY <1>1 DEF SerialDb, SentBy
  <2>2. PICK q \in 1 .. Len(sent) : sent[q] = c2.req
    BY <1>1 DEF SerialDb, SentBy
  <2>3. q <= p => j <= i
    BY <1>1, <1>2, <2>1, <2>2 DEF SerialDb
  <2>4. p < q
    BY <1>1, <2>3
  <2> QED
    BY <1>2, <2>1, <2>2, <2>4, PlaceInLine
<1>4. ASSUME KeyOf[l[i]] = KeyOf[l[j]], KeyOf[l[i]] # NoKey
      PROVE  FALSE
  <2>1. Deduplicated(c1.req) /\ Deduplicated(c2.req)
    BY <1>2, <1>4 DEF Deduplicated
  <2>2. PICK e \in d.dedups : e.id = c1.req
    BY <1>1, <2>1 DEF Accounted
  <2>3. PICK f \in d.dedups : f.id = c2.req
    BY <1>1, <2>1 DEF Accounted
  <2>4. e.key = f.key
    BY <1>1, <1>2, <1>4, <2>2, <2>3 DEF KeysUnique
  <2>5. c1.req = c2.req
    BY <1>1, <2>2, <2>3, <2>4 DEF KeysUnique
  <2>6. c1 = c2
    BY <1>1, <2>5, CommittedOnce
  <2> QED
    BY <1>1, <1>2, <2>6
<1> QED
  BY <1>3, <1>4

-----------------------------------------------------------------------------
(***************************************************************************)
(* What a commit adds to the log: the requests of the batch it commits,    *)
(* all of them undecided.                                                  *)
(***************************************************************************)
\* Both databases at a commit.
LEMMA AtCommit ==
  ASSUME Kept, pc \in {"commit", "item"}
  PROVE  /\ disk \in Databases /\ work \in Databases /\ SoundDb(disk) /\ SoundDb(work)
         /\ GaplessIn(disk) /\ GaplessIn(work) /\ Accounted(work, {})
         /\ SerialDb(work, RowsUpTo, KnownUpTo)
         /\ sent \in Seq(Commands) /\ EachSentOnce /\ Prolongs
         /\ Numbered \in 0 .. Len(sent)
<1>1. Inv /\ Orderly /\ Sound /\ HistoryOK /\ Prolongs
  BY DEF Kept, Whole, Strong, Truthful, LogGrows
<1>2. Accounted(work, {})
  BY <1>1 DEF Sound
<1>3. Len(batch) <= Len(sent) /\ Len(batch) \in Nat /\ Len(sent) \in Nat
  BY <1>1, LineTypes DEF Orderly, InLine
<1>4. Numbered \in 0 .. Len(batch)
  <2>1. CASE pc = "commit"
    BY <1>1, <2>1 DEF Numbered, Inv, InHand
  <2>2. CASE pc = "item"
    <3>1. idx \in Nat \ {0} /\ idx <= Len(batch) + 1
      BY <1>1, <2>2 DEF Inv, InHand, TypeOK, TaskOK
    <3>2. Numbered = idx - 1
      BY <2>2 DEF Numbered
    <3> QED
      BY <1>3, <3>1, <3>2
  <2> QED
    BY <2>1, <2>2
<1> QED
  BY <1>1, <1>2, <1>3, <1>4 DEF Inv, TypeOK, DatabaseOK, ChannelOK, Sound, SoundDb, Orderly, HistoryOK

\* A number that is not on disk is that of an undecided request.
LEMMA NewIsUndecided ==
  ASSUME Kept, pc \in {"commit", "item"}, NEW c \in work.commits, c.seq > disk.counter
  PROVE  c.req \in Log!Undecided
<1>1. c \notin disk.commits /\ c.req \in Req
  <2>1. disk.counter \in Nat /\ c.seq \in Nat /\ c.req \in Req
    BY AtCommit DEF Databases, Commits
  <2>2. c \in disk.commits => c.seq \in 1 .. disk.counter
    BY AtCommit DEF GaplessIn
  <2> QED
    BY <2>1, <2>2
<1>2. PICK i \in 1 .. Len(batch) : c.req = batch[i]
  BY <1>1, AtCommit DEF Prolongs
<1>3. c.req = sent[Base + i] /\ Base + i \in 1 .. Len(sent) /\ Base + i > Base + Answered
  <2>1. Inv /\ Orderly
    BY DEF Kept, Whole, Strong
  <2>2. Base \in Nat /\ Base + i \in 1 .. Len(sent) /\ batch[i] = sent[Base + i]
    BY <2>1, Places
  <2>3. Answered = 0 /\ i \in Nat /\ i > 0
    BY <2>1, LineTypes DEF Answered
  <2> QED
    BY <1>2, <2>2, <2>3
<1>4. Unanswered(c.req)
  BY <1>1, <1>3 DEF Kept, Whole, Orderly, AnsweredPrefix, Calls
<1>5. ~Log!In(c.req, DurableLog)
  <2> SUFFICES ASSUME NEW j \in 1 .. disk.counter, LogOf(disk)[j] = c.req
               PROVE  FALSE
    BY AtCommit, LogOfType DEF Log!In, DurableLog
  <2> DEFINE e == [seq |-> j, req |-> c.req]
  <2>1. e \in disk.commits
    BY AtCommit, LogOfType
  <2>2. e \in work.commits /\ e.req = c.req
    BY <2>1, AtCommit DEF Prolongs
  <2> HIDE DEF e
  <2>3. e = c
    BY <2>2, AtCommit, CommittedOnce
  <2> QED
    BY <1>1, <2>1, <2>3
<1>6. Log!In(c.req, sent)
  BY <1>3 DEF Log!In
<1>7. Log!Open(c.req)
  BY <1>1, <1>4 DEF Log!Open, Told, Unanswered
<1> QED
  BY <1>1, <1>5, <1>6, <1>7 DEF Log!Undecided

LEMMA CommitLog ==
  ASSUME Kept, Idempotency, pc \in {"commit", "item"},
         disk' = work, sent' = sent, reply' = reply
  PROVE  Log!Extend \/ UNCHANGED Log!vars
<1> DEFINE old == LogOf(disk)
           new == LogOf(work)
           m == disk.counter
           n == work.counter - m
           writes == [k \in 1 .. n |-> new[m + k]]
<1>1. /\ old \in Seq(Req) /\ Len(old) = m /\ m \in Nat
      /\ new \in Seq(Req) /\ Len(new) = work.counter /\ work.counter \in Nat
      /\ \A k \in 1 .. m : old[k] \in Req /\ [seq |-> k, req |-> old[k]] \in disk.commits
      /\ \A k \in 1 .. work.counter :
           new[k] \in Req /\ [seq |-> k, req |-> new[k]] \in work.commits
  BY AtCommit, LogOfType
<1>2. n \in 0 .. Len(sent) /\ work.counter = m + n
  BY <1>1, AtCommit DEF Prolongs
<1>3. \A k \in 1 .. m : new[k] = old[k]
  <2> SUFFICES ASSUME NEW k \in 1 .. m PROVE new[k] = old[k]
    OBVIOUS
  <2>1. [seq |-> k, req |-> old[k]] \in work.commits
    BY <1>1, AtCommit DEF Prolongs
  <2> QED
    BY <2>1, AtCommit, CommitInLog
<1>4. /\ DurableLog' = new /\ DurableLog = old /\ Told' = Told
  BY DEF DurableLog, LogOf, Told
<1>5. Log!Lawful(new)
  BY AtCommit, LogLawful
<1>6. \A k \in 1 .. n : writes[k] \in Log!Undecided
  <2> SUFFICES ASSUME NEW k \in 1 .. n PROVE new[m + k] \in Log!Undecided
    OBVIOUS
  <2> DEFINE c == [seq |-> m + k, req |-> new[m + k]]
  <2>1. m + k \in 1 .. work.counter /\ m + k > m
    BY <1>1, <1>2
  <2>2. c \in work.commits /\ c.seq > disk.counter
    BY <1>1, <2>1
  <2>3. c.req \in Log!Undecided
    BY <2>2, NewIsUndecided
  <2> QED
    BY <2>3
<1>7. writes \in [1 .. n -> Log!Undecided] /\ writes \in [1 .. n -> Req]
  BY <1>1, <1>2, <1>6
<1>8. writes \in Seq(Req) /\ Len(writes) = n /\ n \in Nat
  BY <1>2, <1>7
<1>9. \A k \in 1 .. n : writes[k] = new[m + k]
  OBVIOUS
<1> HIDE DEF old, new, m, n, writes
<1>10. new = old \o writes
  <2>1. /\ old \o writes \in Seq(Req) /\ Len(old \o writes) = m + n
        /\ \A k \in 1 .. m + n : (old \o writes)[k] = IF k <= m THEN old[k] ELSE writes[k - m]
    BY <1>1, <1>8, ConcatProperties
  <2>2. ASSUME NEW k \in 1 .. m + n PROVE new[k] = (old \o writes)[k]
    <3>1. CASE k <= m
      BY <1>1, <1>3, <2>1, <2>2, <3>1
    <3>2. CASE ~(k <= m)
      <4>1. k - m \in 1 .. n /\ m + (k - m) = k
        BY <1>1, <1>8, <2>2, <3>2
      <4> QED
        BY <1>9, <2>1, <2>2, <3>2, <4>1
    <3> QED
      BY <3>1, <3>2
  <2> QED
    BY <1>1, <1>2, <2>1, <2>2, SeqEqual
<1>11. CASE n = 0
  <2>1. new = old
    BY <1>1, <1>2, <1>3, <1>11, SeqEqual
  <2> QED
    BY <1>4, <2>1 DEF Log!vars
<1>12. CASE n # 0
  <2>1. n \in 1 .. Len(sent)
    BY <1>2, <1>8, <1>12
  <2> QED
    BY <1>4, <1>5, <1>7, <1>10, <2>1 DEF Log!Extend
<1> QED
  BY <1>11, <1>12

-----------------------------------------------------------------------------
(***************************************************************************)
(* Step by step.                                                           *)
(***************************************************************************)
LEMMA InitLog == Init => Log!Init
<1> SUFFICES ASSUME Init PROVE Log!Init
  OBVIOUS
<1>1. EmptyDb \in Databases /\ GaplessIn(EmptyDb) /\ EmptyDb.counter = 0
  BY DEF EmptyDb, Databases, GaplessIn
<1>2. LogOf(EmptyDb) \in Seq(Req) /\ Len(LogOf(EmptyDb)) = 0
  BY <1>1, LogOfType
<1>3. LogOf(EmptyDb) = << >>
  BY <1>2, SeqEqual
<1>4. DurableLog = << >> /\ sent = << >>
  BY <1>3 DEF Init, DurableLog
<1>5. Told = [r \in Req |-> Log!Verdict("none", 0)]
  BY DEF Init, Told, Mute, NoSeq, Calls, Log!Verdict
<1> QED
  BY <1>4, <1>5 DEF Log!Init

LEMMA MuteFields ==
  ASSUME NEW id, NEW status
  PROVE  Mute(id, status).status = status /\ Mute(id, status).seq = 0
BY DEF Mute, NoSeq

\* Nothing of the log, the line or the verdicts changes.
LEMMA QuietLog ==
  ASSUME sent' = sent, disk' = disk, \A r \in Req : reply'[r] = reply[r]
  PROVE  UNCHANGED Log!vars
BY DEF Log!vars, DurableLog, LogOf, Told

LEMMA DiskStays == ASSUME disk' = disk PROVE DurableLog' = DurableLog
BY DEF DurableLog, LogOf

\* Requests of which the durable database holds nothing are sent back.
LEMMA RefuseLog ==
  ASSUME Kept, Kept', sent' = sent, disk' = disk, NEW some \in SUBSET Req,
         \A r \in some : Unanswered(r),
         \A r \in Req : reply'[r] = IF r \in some THEN Mute(r, "closed") ELSE reply[r]
  PROVE  Log!Refuse
<1>1. \A r \in some : ~Log!In(r, DurableLog)
  <2> SUFFICES ASSUME NEW r \in some PROVE ~Log!In(r, DurableLog)
    OBVIOUS
  <2>1. r \in Req /\ reply'[r] = Mute(r, "closed")
    OBVIOUS
  <2>2. BorneOut(disk, r, reply[r], Base + Answered)'
    BY DEF Kept, Whole, Truthful, AnswersTrue
  <2>3. Untouched(disk, r)
    <3>1. reply'[r].status = "closed"
      BY <2>1, MuteFields
    <3> QED
      BY <2>2, <3>1 DEF BorneOut, Untouched, CommittedIn
  <2>4. disk \in Databases /\ GaplessIn(disk)
    BY DEF Kept, Whole, Strong, Inv, TypeOK, DatabaseOK, Sound, SoundDb
  <2> QED
    BY <2>3, <2>4, UntouchedNotInLog DEF DurableLog
<1>2. \A r \in some : Log!Open(r)
  BY DEF Log!Open, Told, Unanswered
<1>3. Told' = [r \in Req |-> IF r \in some THEN Log!Verdict("closed", 0) ELSE Told[r]]
  <2>1. ASSUME NEW r \in Req
        PROVE  [status |-> reply'[r].status, position |-> reply'[r].seq]
                 = IF r \in some THEN Log!Verdict("closed", 0) ELSE Told[r]
    <3>1. CASE r \in some
      <4>1. reply'[r] = Mute(r, "closed")
        BY <3>1
      <4>2. reply'[r].status = "closed" /\ reply'[r].seq = 0
        BY <4>1, MuteFields
      <4> QED
        BY <3>1, <4>2 DEF Log!Verdict
    <3>2. CASE r \notin some
      BY <3>2 DEF Told
    <3> QED
      BY <3>1, <3>2
  <2> QED
    BY <2>1 DEF Told
<1>4. some \in SUBSET {r \in Req : Log!Open(r) /\ ~Log!In(r, DurableLog)}
  BY <1>1, <1>2
<1> QED
  BY <1>3, <1>4, DiskStays DEF Log!Refuse

LEMMA SendLog ==
  ASSUME Kept, Kept', NEW c \in Commands, Send(c)
  PROVE  Log!Arrive(c) \/ Log!Refuse \/ UNCHANGED Log!vars
<1>1. c \notin Sent /\ (c \in Calls => Unanswered(c)) /\ disk' = disk /\ reply \in [Calls -> Replies]
  BY DEF Send, sqlite, Kept, Whole, Strong, Inv, TypeOK, AnswersOK
<1>2. CASE pc # "stopped"
  <2>1. sent' = Append(sent, c) /\ reply' = reply
    BY <1>2 DEF Send
  <2>2. ~Log!In(c, sent)
    BY <1>1 DEF Sent, Log!In
  <2>3. c \in Req => Log!Open(c)
    BY <1>1 DEF Calls, Log!Open, Told, Unanswered
  <2>4. Told' = Told
    BY <2>1 DEF Told
  <2> QED
    BY <1>1, <2>1, <2>2, <2>3, <2>4, DiskStays DEF Log!Arrive
<1>3. CASE pc = "stopped"
  <2>1. c \in Calls /\ sent' = sent /\ reply' = [reply EXCEPT ![c] = Mute(c, "closed")]
    BY <1>3 DEF Send
  <2>2. CASE c \in Req
    <3>1. \A r \in Req : reply'[r] = IF r \in {c} THEN Mute(r, "closed") ELSE reply[r]
      BY <1>1, <2>1 DEF Calls
    <3> QED
      BY <1>1, <2>1, <2>2, <3>1, RefuseLog
  <2>3. CASE c \notin Req
    BY <1>1, <2>1, <2>3, QuietLog DEF Calls
  <2> QED
    BY <2>2, <2>3
<1> QED
  BY <1>2, <1>3

LEMMA TakeLog ==
  ASSUME Kept, Receive \/ TakeDeferred
  PROVE  UNCHANGED Log!vars
<1>1. sent' = sent /\ disk' = disk
  BY DEF Receive, TakeDeferred, channel, sqlite
<1>2. \A r \in Req : reply'[r] = reply[r]
  BY WriterAssumption DEF Receive, TakeDeferred, Take, Kept, Whole, Strong, Inv, TypeOK, AnswersOK, Calls
<1> QED
  BY <1>1, <1>2, QuietLog

\* The steps that neither answer nor commit.
LEMMA HiddenLog ==
  ASSUME \/ Hangup \/ Stopped \/ UNCHANGED vars \/ ReceiveNone \/ Drain \/ Apply \/ Begin
         \/ Exec \/ Record \/ BatchBegin
  PROVE  UNCHANGED Log!vars
<1>1. sent' = sent /\ disk' = disk /\ reply' = reply
  BY DEF Hangup, Stopped, vars, ReceiveNone, Drain, Apply, Begin, Exec, Record, BatchBegin,
         StatementFails, RollBack, sqlite, channel
<1> QED
  BY <1>1, QuietLog

LEMMA WorkLog ==
  ASSUME Kept, Idempotency, Undivided, Commit \/ BatchItem \/ BatchCommit
  PROVE  Log!Extend \/ UNCHANGED Log!vars
<1>1. pc \in {"commit", "item"} /\ sent' = sent /\ reply' = reply
  BY DEF Commit, BatchItem, BatchCommit, channel
<1>2. disk' = disk \/ disk' = work
  <2>1. CASE Commit \/ BatchCommit
    BY <2>1 DEF Commit, BatchCommit, RollBack
  <2>2. CASE BatchItem
    <3>1. tx = "begun"
      BY <2>2 DEF BatchItem, Undivided, Kept, Whole, Strong, Inv, TypeOK, DatabaseOK, Truthful, TxOK
    <3> QED
      BY <2>2, <3>1 DEF BatchItem, SavepointSucceeds, SavepointFails, SavepointAborts, Released,
                        RollBack, sqlite
  <2> QED
    BY <2>1, <2>2
<1> QED
  BY <1>1, <1>2, CommitLog, QuietLog

\* One verdict is handed out, and the log bears it out.
LEMMA AnswerLog ==
  ASSUME Kept, Kept', Undivided, TrackCommits, Answer
  PROVE  \E r \in Req : Log!Decide(r)
<1> DEFINE r == batch[idx]
           a == results[idx]
<1>1. /\ pc = "answer" /\ sent' = sent /\ disk' = disk /\ reply' = [reply EXCEPT ![r] = a]
      /\ Inv /\ Orderly /\ reply \in [Calls -> Replies] /\ results \in Seq(Replies)
      /\ disk \in Databases /\ GaplessIn(disk)
  BY DEF Answer, channel, sqlite, Kept, Whole, Strong, Inv, TypeOK, AnswersOK, TaskOK, DatabaseOK,
         Sound, SoundDb
<1>2. idx \in 1 .. Len(batch) /\ idx \in 1 .. Len(results) /\ r \in Req /\ a \in Replies
  <2>1. idx \in 1 .. Len(batch) /\ Len(results) = Len(batch) /\ batch \in Seq(Req)
    BY <1>1 DEF Inv, InHand, TypeOK, TaskOK
  <2> QED
    BY <1>1, <2>1
<1>3. r = sent[Base + idx] /\ Base + idx \in 1 .. Len(sent) /\ Base + idx > Base + Answered
  <2>1. Base \in Nat /\ Base + idx \in 1 .. Len(sent) /\ batch[idx] = sent[Base + idx]
    BY <1>1, <1>2, Places
  <2>2. Answered = idx - 1
    BY <1>1 DEF Answered
  <2> QED
    BY <1>2, <2>1, <2>2
<1>4. Verdict(a) /\ (a.status = "failed" => a.seq = 0)
  BY <1>1, <1>2 DEF Orderly, VerdictsGiven, Kept, LogGrows, Unnumbered, NoSeq
<1>5. reply'[r] = a /\ \A q \in Req \ {r} : reply'[q] = reply[q]
  BY <1>1, <1>2 DEF Calls
<1>6. /\ a.status = "committed" => /\ a.id = r \/ SameWrite(r, a.id)
                                   /\ [seq |-> a.seq, req |-> a.id] \in disk.commits
      /\ a.status = "failed" => Untouched(disk, r)
  <2>1. ASSUME NEW q \in Req
        PROVE  /\ reply'[q].status = "committed" =>
                    /\ reply'[q].id = q \/ SameWrite(q, reply'[q].id)
                    /\ [seq |-> reply'[q].seq, req |-> reply'[q].id] \in disk.commits
               /\ reply'[q].status = "failed" => Untouched(disk, q)
    <3>1. BorneOut(disk, q, reply[q], Base + Answered)'
      BY DEF Kept, Whole, Truthful, AnswersTrue
    <3> QED
      BY <1>1, <3>1 DEF BorneOut, Untouched, CommittedIn
  <2> QED
    BY <1>2, <1>5, <2>1
<1> HIDE DEF r, a
<1>7. Told' = [Told EXCEPT ![r] = Log!Verdict(a.status, a.seq)]
  BY <1>2, <1>5 DEF Told, Log!Verdict
<1>8. Log!Open(r) /\ Log!In(r, sent)
  <2>1. Unanswered(r)
    BY <1>1, <1>2, <1>3 DEF Orderly, AnsweredPrefix, Calls
  <2> QED
    BY <1>2, <1>3, <2>1 DEF Log!Open, Log!In, Told, Unanswered
<1>9. CASE a.status = "committed"
  <2>1. /\ a.id = r \/ SameWrite(r, a.id)
        /\ [seq |-> a.seq, req |-> a.id] \in disk.commits
    BY <1>6, <1>9
  <2>2. a.seq \in 1 .. Len(DurableLog) /\ DurableLog[a.seq] = a.id
    BY <1>1, <2>1, CommitInLog, LogOfType DEF DurableLog
  <2>3. Log!AnswerCommitted(r)
    BY <1>7, <1>9, <2>1, <2>2 DEF Log!AnswerCommitted, SameWrite, Deduplicated
  <2> QED
    BY <1>1, <1>2, <1>8, <2>3, DiskStays DEF Log!Decide
<1>10. CASE a.status = "failed"
  <2>1. Untouched(disk, r)
    BY <1>6, <1>10
  <2>2. ~Log!In(r, DurableLog)
    BY <1>1, <2>1, UntouchedNotInLog DEF DurableLog
  <2>3. Log!AnswerFailed(r)
    BY <1>4, <1>7, <1>10, <2>2 DEF Log!AnswerFailed
  <2> QED
    BY <1>1, <1>2, <1>8, <2>3, DiskStays DEF Log!Decide
<1> QED
  BY <1>4, <1>9, <1>10 DEF Verdict

LEMMA ExitLog == ASSUME Kept, Kept', Exit PROVE Log!Refuse
<1> DEFINE some == {r \in Req : r \in Sent /\ Unanswered(r)}
<1>1. sent' = sent /\ disk' = disk
  BY DEF Exit, sqlite
<1>2. \A r \in Req : reply'[r] = IF r \in some THEN Mute(r, "closed") ELSE reply[r]
  BY DEF Exit, Calls
<1>3. some \in SUBSET Req /\ \A r \in some : Unanswered(r)
  OBVIOUS
<1> HIDE DEF some
<1> QED
  BY <1>1, <1>2, <1>3, RefuseLog

LEMMA CrashLog == ASSUME Crash PROVE Log!Lose
<1>1. sent' = sent /\ disk' = disk
  BY DEF Crash, RollBack
<1>2. ASSUME NEW r \in Req
      PROVE  [status |-> reply'[r].status, position |-> reply'[r].seq]
               = IF Log!In(r, sent) /\ Log!Open(r) THEN Log!Verdict("lost", 0) ELSE Told[r]
  <2>1. reply'[r] = IF r \in Sent /\ Unanswered(r) THEN Mute(r, "lost") ELSE reply[r]
    BY DEF Crash, Calls
  <2>2. (r \in Sent /\ Unanswered(r)) <=> (Log!In(r, sent) /\ Log!Open(r))
    BY DEF Sent, Unanswered, Log!In, Log!Open, Told
  <2>3. CASE r \in Sent /\ Unanswered(r)
    <3>1. reply'[r] = Mute(r, "lost")
      BY <2>1, <2>3
    <3>2. reply'[r].status = "lost" /\ reply'[r].seq = 0
      BY <3>1, MuteFields
    <3> QED
      BY <2>2, <2>3, <3>2 DEF Log!Verdict
  <2>4. CASE ~(r \in Sent /\ Unanswered(r))
    BY <2>1, <2>2, <2>4 DEF Told
  <2> QED
    BY <2>3, <2>4
<1>3. Told' = [r \in Req |-> IF Log!In(r, sent) /\ Log!Open(r) THEN Log!Verdict("lost", 0)
                                                               ELSE Told[r]]
  BY <1>2 DEF Told
<1> QED
  BY <1>1, <1>3, DiskStays DEF Log!Lose

LEMMA StepLog ==
  ASSUME TrackCommits, Idempotency, Undivided
  PROVE  Kept /\ Kept' /\ [Next]_vars => [Log!Next]_(Log!vars)
<1> SUFFICES ASSUME Kept, Kept', [Next]_vars
             PROVE  Log!Next \/ UNCHANGED Log!vars
  OBVIOUS
<1>1. CASE \E c \in Commands : Send(c)
  <2>1. PICK c \in Commands : Send(c)
    BY <1>1
  <2>2. c \in Req \cup (Ask \cup {Shutdown})
    BY DEF Commands, Calls
  <2> QED
    BY <2>1, <2>2, SendLog DEF Log!Next
<1>2. CASE Hangup \/ Stopped \/ UNCHANGED vars \/ ReceiveNone \/ Drain \/ Apply \/ Begin
           \/ Exec \/ Record \/ BatchBegin
  BY <1>2, HiddenLog
<1>3. CASE Receive \/ TakeDeferred
  BY <1>3, TakeLog
<1>4. CASE Commit \/ BatchItem \/ BatchCommit
  BY <1>4, WorkLog DEF Log!Next
<1>5. CASE Answer
  BY <1>5, AnswerLog DEF Log!Next
<1>6. CASE Exit
  BY <1>6, ExitLog DEF Log!Next
<1>7. CASE Crash
  BY <1>7, CrashLog DEF Log!Next
<1> QED
  BY <1>1, <1>2, <1>3, <1>4, <1>5, <1>6, <1>7 DEF Next, WriterStep

(***************************************************************************)
(* The writer keeps the contract of WriteLog: the table squeuelite_commits *)
(* only grows, in the order of arrival and with no key twice, and every    *)
(* verdict, the position it names included, agrees with it for ever, also  *)
(* when a commit fails, a batch is rolled back or the process dies.  The   *)
(* hypotheses are the default configuration (config.rs 177-181), and that no *)
(* batch can be thrown out of its transaction in the middle, without which *)
(* the contract is broken (batch_abort_durable).                           *)
(***************************************************************************)
THEOREM WriterImplementsLog ==
  ASSUME TrackCommits, Idempotency, Undivided
  PROVE  Spec => ImplementsLog
<1>1. Spec => []Kept
  BY KeptInit, KeptStep, PTL DEF Spec
<1> QED
  BY <1>1, InitLog, StepLog, PTL DEF Spec, ImplementsLog, Log!Spec
=============================================================================
