---------------------------- MODULE WriterProofs ----------------------------
(***************************************************************************)
(* Proofs about the writer, for every set of requests, every configuration *)
(* and every combination of faults.                                        *)
(***************************************************************************)
EXTENDS WriterInvariants, TLAPS

-----------------------------------------------------------------------------
(***************************************************************************)
(* What the statements of a request do to a database, typewise.            *)
(***************************************************************************)
LEMMA ExecutedType ==
  ASSUME NEW d \in Databases, NEW r \in Req, NEW i \in Nat
  PROVE  Executed(d, r, i) \in Databases
<1>1. d.rows \in Seq(Rows) /\ <<r, i>> \in Rows
  BY DEF Databases, Rows
<1>2. Append(d.rows, <<r, i>>) \in Seq(Rows)
  BY <1>1
<1> QED
  BY <1>2 DEF Executed, Databases

LEMMA TrackedType ==
  ASSUME NEW d \in Databases, NEW r \in Req
  PROVE  Tracked(d, r) \in Databases
<1>1. d.counter + 1 \in Nat /\ d.commits \subseteq Commits
  BY DEF Databases
<1>2. [seq |-> d.counter + 1, req |-> r] \in Commits
  BY <1>1 DEF Commits
<1> QED
  BY <1>1, <1>2 DEF Tracked, Databases

LEMMA LastSeqType ==
  ASSUME NEW d \in Databases
  PROVE  LastSeq(d) \in Nat
BY DEF LastSeq, NoSeq, Databases

LEMMA RememberedType ==
  ASSUME NEW d \in Databases, NEW r \in Req
  PROVE  Remembered(d, r) \in Databases
<1>1. CASE ~(Deduplicated(r) /\ Lookup(d, r) = {})
  BY <1>1 DEF Remembered
<1>2. CASE Deduplicated(r) /\ Lookup(d, r) = {}
  <2> DEFINE record == [key |-> KeyOf[r], body |-> BodyOf[r], id |-> r, seq |-> LastSeq(d)]
  <2>1. record \in Dedups
    BY <1>2, LastSeqType, RequestAssumption DEF Deduplicated, Dedups
  <2>2. Remembered(d, r) = [d EXCEPT !.dedups = @ \cup {record}]
    BY <1>2 DEF Remembered
  <2> QED
    BY <2>1, <2>2 DEF Databases
<1> QED
  BY <1>1, <1>2

LEMMA RecordedType ==
  ASSUME NEW d \in Databases, NEW r \in Req
  PROVE  Recorded(d, r) \in Databases
BY TrackedType, RememberedType DEF Recorded

(***************************************************************************)
(* Answers are replies.                                                    *)
(***************************************************************************)
LEMMA CommittedType ==
  ASSUME NEW r \in Req, NEW n \in Nat
  PROVE  Committed(r, n) \in Replies
BY DEF Committed, Replies, Statuses, Causes, Calls

LEMMA FailedType ==
  ASSUME NEW c \in Calls, NEW why \in Causes
  PROVE  Failed(c, why) \in Replies
BY DEF Failed, Replies, Statuses, NoSeq

LEMMA MuteType ==
  ASSUME NEW c \in Calls, NEW status \in Statuses
  PROVE  Mute(c, status) \in Replies
BY DEF Mute, Replies, Causes, NoSeq

LEMMA EarlyAnswersType ==
  ASSUME NEW d \in Databases, NEW r \in Req, NEW a \in EarlyAnswers(d, r)
  PROVE  a \in Replies
<1>1. Failed(r, "rejected") \in Replies /\ Failed(r, "conflict") \in Replies
  BY FailedType DEF Calls, Causes
<1>2. ASSUME NEW e \in Lookup(d, r)
      PROVE  Committed(e.id, e.seq) \in Replies
  <2>1. e \in Dedups
    BY DEF Lookup, Databases
  <2> QED
    BY <2>1, CommittedType DEF Dedups
<1> QED
  BY <1>1, <1>2 DEF EarlyAnswers

-----------------------------------------------------------------------------
(***************************************************************************)
(* The inductive invariant: the types, and what the thread has in hand.    *)
(***************************************************************************)
Inv == TypeOK /\ InHand

LEMMA InvInit == Init => Inv
<1> SUFFICES ASSUME Init PROVE Inv
  OBVIOUS
<1>1. ChannelOK
  BY WriterAssumption DEF Init, ChannelOK
<1>2. TaskOK
  BY DEF Init, TaskOK, PCs
<1>3. DatabaseOK
  <2>1. EmptyDb \in Databases
    BY DEF EmptyDb, Databases
  <2> QED
    BY <2>1 DEF Init, DatabaseOK
<1>4. AnswersOK
  BY MuteType, WriterAssumption DEF Init, AnswersOK, Statuses
<1>5. InHand
  BY DEF Init, InHand
<1> QED
  BY <1>1, <1>2, <1>3, <1>4, <1>5 DEF Inv, TypeOK

\* The groups of the invariant a step leaves alone.
LEMMA Frames ==
  ASSUME Inv
  PROVE  /\ UNCHANGED channel => ChannelOK'
         /\ UNCHANGED <<pc, task>> => TaskOK' /\ InHand'
         /\ UNCHANGED sqlite => DatabaseOK'
         /\ UNCHANGED <<reply, latency, offenders, crashes>> => AnswersOK'
<1>1. UNCHANGED channel => ChannelOK'
  BY DEF Inv, TypeOK, ChannelOK, channel
<1>2. UNCHANGED <<pc, task>> => TaskOK' /\ InHand'
  BY DEF Inv, TypeOK, TaskOK, InHand, task
<1>3. UNCHANGED sqlite => DatabaseOK'
  BY DEF Inv, TypeOK, DatabaseOK, sqlite
<1>4. UNCHANGED <<reply, latency, offenders, crashes>> => AnswersOK'
  BY DEF Inv, TypeOK, AnswersOK
<1> QED
  BY <1>1, <1>2, <1>3, <1>4

LEMMA StutterStep == ASSUME Inv, UNCHANGED vars PROVE Inv'
BY Frames DEF Inv, TypeOK, vars, channel, task, sqlite

LEMMA SendStep == ASSUME Inv, NEW c \in Commands, Send(c) PROVE Inv'
<1>1. ChannelOK'
  <2>1. /\ senders' = senders
        /\ \/ Len(queue) < Capacity /\ queue' = Append(queue, c) /\ sent' = Append(sent, c)
           \/ queue' = queue /\ sent' = sent
    BY DEF Send
  <2>2. /\ queue \in Seq(Commands) /\ Len(queue) <= Capacity /\ sent \in Seq(Commands)
        /\ Capacity \in Nat /\ senders \in BOOLEAN
    BY WriterAssumption DEF Inv, TypeOK, ChannelOK
  <2>3. CASE Len(queue) < Capacity /\ queue' = Append(queue, c) /\ sent' = Append(sent, c)
    BY <2>1, <2>2, <2>3 DEF ChannelOK
  <2>4. CASE queue' = queue /\ sent' = sent
    BY <2>1, <2>2, <2>4 DEF ChannelOK
  <2> QED
    BY <2>1, <2>3, <2>4
<1>2. TaskOK' /\ InHand' /\ DatabaseOK'
  BY Frames DEF Send
<1>3. AnswersOK'
  BY MuteType DEF Inv, TypeOK, AnswersOK, Send, Statuses
<1> QED
  BY <1>1, <1>2, <1>3 DEF Inv, TypeOK

LEMMA HangupStep == ASSUME Inv, Hangup PROVE Inv'
<1>1. ChannelOK'
  <2>1. queue' = queue /\ sent' = sent /\ senders' \in BOOLEAN
    BY DEF Hangup
  <2> QED
    BY <2>1 DEF Inv, TypeOK, ChannelOK
<1>2. TaskOK' /\ InHand' /\ DatabaseOK' /\ AnswersOK'
  BY Frames DEF Hangup
<1> QED
  BY <1>1, <1>2 DEF Inv, TypeOK

-----------------------------------------------------------------------------
\* What a match on a command establishes.
LEMMA TakeStep ==
  ASSUME Inv, NEW c \in Commands, Take(c)
  PROVE  /\ pc' \in PCs
         /\ batch' \in Seq(Req) /\ idx' = 1 /\ results' = << >>
         /\ InHand'
         /\ reply' \in [Calls -> Replies]
<1>1. CASE c \in Req
  <2>1. pc' \in {"drain", "apply"} /\ batch' = <<c>> /\ reply' = reply
        /\ idx' = 1 /\ results' = << >>
    BY <1>1, WriterAssumption DEF Take, Calls
  <2> QED
    BY <1>1, <2>1 DEF Inv, TypeOK, AnswersOK, InHand, PCs
<1>2. CASE c \in Ask
  <2>1. PICK a \in {Mute(c, "done"), Failed(c, "error")} : reply' = [reply EXCEPT ![c] = a]
    BY <1>2, WriterAssumption DEF Take, Calls
  <2>2. a \in Replies
    BY <1>2, MuteType, FailedType DEF Calls, Statuses, Causes
  <2>3. pc' = "recv" /\ batch' = << >> /\ idx' = 1 /\ results' = << >>
    BY <1>2, WriterAssumption DEF Take, Calls
  <2>4. reply' \in [Calls -> Replies]
    BY <2>1, <2>2 DEF Inv, TypeOK, AnswersOK
  <2>5. InHand'
    BY <2>3 DEF InHand
  <2> QED
    BY <2>3, <2>4, <2>5 DEF PCs
<1>3. CASE c = Shutdown
  <2>1. pc' = "exiting" /\ batch' = << >> /\ idx' = 1 /\ results' = << >> /\ reply' = reply
    BY <1>3, WriterAssumption DEF Take, Calls
  <2> QED
    BY <2>1 DEF Inv, TypeOK, AnswersOK, InHand, PCs
<1> QED
  BY <1>1, <1>2, <1>3 DEF Commands, Calls

LEMMA ReceiveStep == ASSUME Inv, Receive PROVE Inv'
<1>1. Head(queue) \in Commands /\ Tail(queue) \in Seq(Commands)
      /\ Len(Tail(queue)) <= Capacity
  BY WriterAssumption DEF Inv, TypeOK, ChannelOK, Receive
<1>2. ChannelOK'
  BY <1>1 DEF Inv, TypeOK, ChannelOK, Receive
<1>3. TaskOK' /\ InHand'
  <2>1. Take(Head(queue)) /\ deferred' = deferred
    BY DEF Receive
  <2>2. /\ pc' \in PCs
        /\ batch' \in Seq(Req) /\ idx' = 1 /\ results' = << >>
        /\ InHand'
    BY <1>1, <2>1, TakeStep
  <2> QED
    BY <2>1, <2>2 DEF Inv, TypeOK, TaskOK
<1>4. DatabaseOK'
  BY Frames DEF Receive
<1>5. AnswersOK'
  BY <1>1, TakeStep DEF Inv, TypeOK, AnswersOK, Receive
<1> QED
  BY <1>2, <1>3, <1>4, <1>5 DEF Inv, TypeOK

LEMMA TakeDeferredStep == ASSUME Inv, TakeDeferred PROVE Inv'
<1>1. deferred[1] \in Commands
  BY DEF Inv, TypeOK, TaskOK, InHand, TakeDeferred
<1>2. TaskOK' /\ InHand'
  <2>1. Take(deferred[1]) /\ deferred' = << >>
    BY DEF TakeDeferred
  <2>2. /\ pc' \in PCs
        /\ batch' \in Seq(Req) /\ idx' = 1 /\ results' = << >>
        /\ InHand'
    BY <1>1, <2>1, TakeStep
  <2> QED
    BY <2>1, <2>2 DEF TaskOK
<1>3. ChannelOK' /\ DatabaseOK'
  BY Frames DEF TakeDeferred
<1>4. AnswersOK'
  BY <1>1, TakeStep DEF Inv, TypeOK, AnswersOK, TakeDeferred
<1> QED
  BY <1>2, <1>3, <1>4 DEF Inv, TypeOK

LEMMA ReceiveNoneStep == ASSUME Inv, ReceiveNone PROVE Inv'
<1>1. TaskOK' /\ InHand'
  BY DEF Inv, TypeOK, TaskOK, InHand, ReceiveNone, task, PCs
<1> QED
  BY <1>1, Frames DEF ReceiveNone, Inv, TypeOK

LEMMA DrainStep == ASSUME Inv, Drain PROVE Inv'
<1>1. batch # << >> /\ batch \in Seq(Req)
  BY DEF Inv, TypeOK, TaskOK, InHand, Drain
<1>2. queue # << >> => /\ Head(queue) \in Commands /\ Tail(queue) \in Seq(Commands)
                       /\ Len(Tail(queue)) <= Capacity
  BY WriterAssumption DEF Inv, TypeOK, ChannelOK
<1>3. ChannelOK'
  BY <1>2 DEF Inv, TypeOK, ChannelOK, Drain, SetAside
<1>4. TaskOK'
  <2>1. pc' \in PCs /\ idx' = idx /\ results' = results
    BY DEF Drain, PCs
  <2>2. batch' \in Seq(Req)
    BY <1>1, <1>2 DEF Drain, Batchable
  <2>3. deferred' \in Seq(Commands) /\ Len(deferred') <= 1
    <3>1. deferred' = deferred \/ (queue # << >> /\ deferred' = <<Head(queue)>>)
      BY DEF Drain, SetAside
    <3>2. deferred \in Seq(Commands) /\ Len(deferred) <= 1
      BY DEF Inv, TypeOK, TaskOK
    <3>3. CASE queue # << >> /\ deferred' = <<Head(queue)>>
      BY <1>2, <3>3
    <3> QED
      BY <3>1, <3>2, <3>3
  <2> QED
    BY <2>1, <2>2, <2>3 DEF Inv, TypeOK, TaskOK
<1>5. InHand'
  <2>1. /\ pc' \in {"drain", "batchBegin"} \/ (pc' = "apply" /\ batch' = batch /\ Len(batch) = 1)
        /\ idx' = idx /\ idx = 1
    BY DEF Drain, Inv, InHand
  <2>2. batch' = batch \/ batch' = Append(batch, Head(queue))
    BY DEF Drain
  <2>3. batch' # << >>
    BY <1>1, <2>2
  <2> QED
    BY <2>1, <2>3 DEF InHand
<1> QED
  BY <1>3, <1>4, <1>5, Frames DEF Drain, Inv, TypeOK

-----------------------------------------------------------------------------
\* What the thread has in hand once every request in hand has its answer.
LEMMA AnsweringStep ==
  ASSUME Inv, batch # << >>,
         NEW answers \in Seq(Replies), Len(answers) = Len(batch),
         Answering(answers), UNCHANGED <<batch, deferred>>
  PROVE  TaskOK' /\ InHand'
<1>1. pc' = "answer" /\ results' = answers /\ idx' = 1 /\ batch' = batch /\ deferred' = deferred
  BY DEF Answering
<1>2. batch \in Seq(Req) /\ deferred \in Seq(Commands) /\ Len(deferred) <= 1
  BY DEF Inv, TypeOK, TaskOK
<1>3. TaskOK'
  BY <1>1, <1>2 DEF TaskOK, PCs
<1>4. InHand'
  BY <1>1, <1>2 DEF InHand
<1> QED
  BY <1>3, <1>4

\* The same for a single request.
LEMMA AnsweringOneStep ==
  ASSUME Inv, pc \in {"apply", "begin", "exec", "commit"},
         NEW answer \in Replies,
         Answering(<<answer>>), UNCHANGED <<batch, deferred>>
  PROVE  TaskOK' /\ InHand'
<1>1. Len(batch) = 1
  BY DEF Inv, InHand
<1>2. <<answer>> \in Seq(Replies) /\ Len(<<answer>>) = 1
  OBVIOUS
<1>3. batch # << >>
  BY <1>1
<1> QED
  BY <1>1, <1>2, <1>3, AnsweringStep

LEMMA RollBackStep == ASSUME Inv, RollBack PROVE DatabaseOK'
<1>1. tx' = "auto" /\ violated' = FALSE /\ work' = disk /\ disk' = disk
  BY DEF RollBack, Close
<1> QED
  BY <1>1 DEF Inv, TypeOK, DatabaseOK

\* The request in hand and the reply that a failure of it makes.
LEMMA CurrentType ==
  ASSUME Inv, pc \in {"apply", "begin", "exec", "commit"}
  PROVE  /\ Current \in Req
         /\ \A why \in Causes : Failed(Current, why) \in Replies
<1>1. Current \in Req
  BY DEF Inv, TypeOK, TaskOK, InHand, Current
<1> QED
  BY <1>1, FailedType DEF Calls

LEMMA ApplyStep == ASSUME Inv, Apply PROVE Inv'
<1>1. pc = "apply" /\ UNCHANGED <<batch, deferred>>
  BY DEF Apply
<1>2. TaskOK' /\ InHand'
  <2>1. CASE \E answer \in EarlyAnswers(work, Current) : Answering(<<answer>>)
    <3>1. PICK answer \in EarlyAnswers(work, Current) : Answering(<<answer>>)
      BY <2>1
    <3>2. answer \in Replies
      BY <1>1, CurrentType, EarlyAnswersType DEF Inv, TypeOK, DatabaseOK
    <3> QED
      BY <1>1, <3>1, <3>2, AnsweringOneStep
  <2>2. CASE Answering(<<Failed(Current, "error")>>)
    BY <1>1, <2>2, CurrentType, AnsweringOneStep DEF Causes
  <2>3. CASE pc' = "begin" /\ UNCHANGED <<results, idx>>
    BY <1>1, <2>3 DEF Inv, TypeOK, TaskOK, InHand, PCs
  <2> QED
    BY <2>1, <2>2, <2>3 DEF Apply
<1> QED
  BY <1>2, Frames DEF Apply, Inv, TypeOK

LEMMA BeginStep == ASSUME Inv, Begin PROVE Inv'
<1>1. pc = "begin" /\ UNCHANGED <<batch, deferred, violated, work, disk>>
      /\ tx' \in {tx, "begun"}
  BY DEF Begin
<1>2. TaskOK' /\ InHand'
  <2>1. CASE pc' = "exec" /\ UNCHANGED <<idx, results>>
    BY <1>1, <2>1 DEF Inv, TypeOK, TaskOK, InHand, PCs
  <2>2. CASE Answering(<<Failed(Current, "begin")>>)
    BY <1>1, <2>2, CurrentType, AnsweringOneStep DEF Causes
  <2> QED
    BY <2>1, <2>2 DEF Begin
<1>3. DatabaseOK'
  BY <1>1 DEF Inv, TypeOK, DatabaseOK
<1> QED
  BY <1>2, <1>3, Frames DEF Begin, Inv, TypeOK

LEMMA StatementFailsStep ==
  ASSUME Inv, pc = "exec", StatementFails, UNCHANGED <<batch, deferred>>
  PROVE  TaskOK' /\ InHand' /\ DatabaseOK' /\ offenders' = offenders
BY CurrentType, AnsweringOneStep, RollBackStep DEF StatementFails, Causes

LEMMA ExecStep == ASSUME Inv, Exec PROVE Inv'
<1>1. pc = "exec" /\ UNCHANGED <<batch, deferred>> /\ Current \in Req
  BY CurrentType DEF Exec
<1>2. CASE StatementFails
  BY <1>1, <1>2, StatementFailsStep, Frames DEF Exec, Inv, TypeOK, AnswersOK
<1>3. CASE ~StatementFails
  <2>1. /\ work' = Executed(work, Current, idx) /\ idx' = idx + 1
        /\ UNCHANGED <<pc, results, tx, disk>>
        /\ \/ violated' = violated /\ offenders' = offenders
           \/ violated' = TRUE /\ offenders' = offenders \cup {Current}
    BY <1>3 DEF Exec
  <2>2. TaskOK' /\ InHand'
    BY <1>1, <2>1 DEF Inv, TypeOK, TaskOK, InHand
  <2>3. work' \in Databases
    BY <1>1, <2>1, ExecutedType DEF Inv, TypeOK, TaskOK, DatabaseOK
  <2>4. violated' \in BOOLEAN
    BY <2>1 DEF Inv, TypeOK, DatabaseOK
  <2>5. DatabaseOK'
    BY <2>1, <2>3, <2>4 DEF Inv, TypeOK, DatabaseOK
  <2>6. AnswersOK'
    BY <1>1, <2>1 DEF Exec, Inv, TypeOK, AnswersOK
  <2> QED
    BY <2>2, <2>5, <2>6, Frames DEF Exec, Inv, TypeOK
<1> QED
  BY <1>2, <1>3

LEMMA RecordStep == ASSUME Inv, Record PROVE Inv'
<1>1. pc = "exec" /\ UNCHANGED <<batch, deferred>> /\ Current \in Req
  BY CurrentType DEF Record
<1>2. CASE StatementFails
  BY <1>1, <1>2, StatementFailsStep, Frames DEF Record, Inv, TypeOK, AnswersOK
<1>3. CASE ~StatementFails
  <2>1. /\ work' = Recorded(work, Current) /\ pc' = "commit"
        /\ UNCHANGED <<idx, results, tx, violated, disk, offenders>>
    BY <1>3 DEF Record
  <2>2. TaskOK' /\ InHand'
    BY <1>1, <2>1 DEF Inv, TypeOK, TaskOK, InHand, PCs
  <2>3. work' \in Databases
    BY <1>1, <2>1, RecordedType DEF Inv, TypeOK, DatabaseOK
  <2>4. DatabaseOK'
    BY <2>1, <2>3 DEF Inv, TypeOK, DatabaseOK
  <2> QED
    BY <2>1, <2>2, <2>4, Frames DEF Record, Inv, TypeOK, AnswersOK
<1> QED
  BY <1>2, <1>3

\* The latency ring never holds more than its capacity.
LEMMA MeasuredType == ASSUME Inv PROVE Measured \in 0 .. LatencyCap
BY WriterAssumption DEF Inv, TypeOK, AnswersOK, Measured

LEMMA CommitStep == ASSUME Inv, Commit PROVE Inv'
<1>1. pc = "commit" /\ UNCHANGED <<batch, deferred, reply, offenders, crashes>> /\ Current \in Req
  BY CurrentType DEF Commit
<1>2. CASE Close /\ disk' = work /\ work' = work
           /\ Answering(<<Committed(Current, LastSeq(work))>>) /\ latency' = Measured
  <2>1. Committed(Current, LastSeq(work)) \in Replies
    BY <1>1, LastSeqType, CommittedType DEF Inv, TypeOK, DatabaseOK
  <2>2. TaskOK' /\ InHand'
    BY <1>1, <1>2, <2>1, AnsweringOneStep
  <2>3. tx' = "auto" /\ violated' = FALSE
    BY <1>2 DEF Close
  <2>4. DatabaseOK'
    BY <1>2, <2>3 DEF Inv, TypeOK, DatabaseOK
  <2>5. AnswersOK'
    BY <1>1, <1>2, MeasuredType DEF Inv, TypeOK, AnswersOK
  <2> QED
    BY <2>2, <2>4, <2>5, Frames DEF Commit, Inv, TypeOK
<1>3. CASE RollBack /\ Answering(<<Failed(Current, "commit")>>) /\ latency' = latency
  <2>1. TaskOK' /\ InHand'
    BY <1>1, <1>3, CurrentType, AnsweringOneStep DEF Causes
  <2> QED
    BY <1>1, <1>3, <2>1, RollBackStep, Frames DEF Commit, Inv, TypeOK, AnswersOK
<1> QED
  BY <1>2, <1>3 DEF Commit

-----------------------------------------------------------------------------
LEMMA BatchBeginStep == ASSUME Inv, BatchBegin PROVE Inv'
<1>1. /\ pc = "batchBegin" /\ UNCHANGED <<batch, deferred, violated, work, disk>>
      /\ tx' \in {tx, "begun"}
  BY DEF BatchBegin
<1>2. batch # << >> /\ batch \in Seq(Req)
  BY <1>1 DEF Inv, TypeOK, TaskOK, InHand
<1>3. TaskOK' /\ InHand'
  <2>1. CASE pc' = "item" /\ results' = << >> /\ idx' = idx
    <3>1. idx = 1
      BY <1>1 DEF Inv, InHand
    <3> QED
      BY <1>1, <1>2, <2>1, <3>1 DEF Inv, TypeOK, TaskOK, InHand, PCs
  <2>2. CASE Answering([i \in 1 .. Len(batch) |-> Failed(batch[i], "begin")])
    <3> DEFINE answers == [i \in 1 .. Len(batch) |-> Failed(batch[i], "begin")]
    <3>1. \A i \in 1 .. Len(batch) : Failed(batch[i], "begin") \in Replies
      <4> TAKE i \in 1 .. Len(batch)
      <4>1. batch[i] \in Calls /\ "begin" \in Causes
        BY <1>2 DEF Calls, Causes
      <4> QED
        BY <4>1, FailedType
    <3>2. answers \in Seq(Replies) /\ Len(answers) = Len(batch)
      BY <1>2, <3>1
    <3> QED
      BY <1>1, <1>2, <2>2, <3>2, AnsweringStep
  <2> QED
    BY <2>1, <2>2 DEF BatchBegin
<1>4. DatabaseOK'
  BY <1>1 DEF Inv, TypeOK, DatabaseOK
<1> QED
  BY <1>3, <1>4, Frames DEF BatchBegin, Inv, TypeOK

\* Every way an item of a batch can go adds one response and keeps the types.
LEMMA ItemOutcome ==
  ASSUME Inv, pc = "item", idx <= Len(batch),
         \/ \E answer \in ItemAnswers :
               /\ results' = Append(results, answer)
               /\ UNCHANGED <<sqlite, offenders>>
         \/ SavepointSucceeds \/ SavepointFails \/ SavepointAborts
  PROVE  /\ \E answer \in Replies : results' = Append(results, answer)
         /\ DatabaseOK'
         /\ offenders' \subseteq Req
<1>1. Item \in Req /\ Failed(Item, "error") \in Replies
  <2>1. Item \in Req
    BY DEF Inv, TypeOK, TaskOK, InHand, Item
  <2> QED
    BY <2>1, FailedType DEF Calls, Causes
<1>2. work \in Databases /\ disk \in Databases /\ tx \in {"auto", "begun"} /\ violated \in BOOLEAN
      /\ offenders \subseteq Req
  BY DEF Inv, TypeOK, DatabaseOK, AnswersOK
<1>3. CASE \E answer \in ItemAnswers :
             /\ results' = Append(results, answer)
             /\ UNCHANGED <<sqlite, offenders>>
  BY <1>1, <1>2, <1>3, EarlyAnswersType, Frames DEF ItemAnswers
<1>4. CASE SavepointSucceeds
  <2> DEFINE after == Recorded(Executed(work, Item, 1), Item)
  <2>1. after \in Databases
    BY <1>1, <1>2, ExecutedType, RecordedType
  <2>2. work' = after /\ disk' \in {disk, after} /\ tx' = tx
    BY <1>4 DEF SavepointSucceeds, Released
  <2>3. violated' \in BOOLEAN /\ offenders' \subseteq Req
    BY <1>1, <1>2, <1>4 DEF SavepointSucceeds
  <2>4. Committed(Item, LastSeq(work')) \in Replies
    BY <1>1, <2>1, <2>2, LastSeqType, CommittedType
  <2>5. DatabaseOK'
    BY <1>2, <2>1, <2>2, <2>3 DEF DatabaseOK
  <2> QED
    BY <1>4, <2>3, <2>4, <2>5 DEF SavepointSucceeds
<1>5. CASE SavepointFails
  BY <1>1, <1>2, <1>5, Frames DEF SavepointFails
<1>6. CASE SavepointAborts
  BY <1>1, <1>2, <1>6, RollBackStep DEF SavepointAborts
<1> QED
  BY <1>3, <1>4, <1>5, <1>6

LEMMA BatchItemStep == ASSUME Inv, BatchItem PROVE Inv'
<1>1. /\ pc = "item" /\ idx <= Len(batch) /\ idx' = idx + 1
      /\ UNCHANGED <<pc, batch, deferred>>
  BY DEF BatchItem
<1>2. /\ \E answer \in Replies : results' = Append(results, answer)
      /\ DatabaseOK'
      /\ offenders' \subseteq Req
  BY <1>1, ItemOutcome DEF BatchItem
<1>3. PICK answer \in Replies : results' = Append(results, answer)
  BY <1>2
<1>4. batch \in Seq(Req) /\ idx \in Nat \ {0} /\ results \in Seq(Replies) /\ Len(results) = idx - 1
  BY <1>1 DEF Inv, TypeOK, TaskOK, InHand
<1>5. TaskOK'
  BY <1>1, <1>3, <1>4 DEF Inv, TypeOK, TaskOK
<1>6. InHand'
  BY <1>1, <1>3, <1>4 DEF InHand
<1> QED
  BY <1>2, <1>5, <1>6, Frames DEF BatchItem, Inv, TypeOK, AnswersOK

LEMMA BatchCommitStep == ASSUME Inv, BatchCommit PROVE Inv'
<1>1. /\ pc = "item" /\ idx > Len(batch)
      /\ UNCHANGED <<batch, deferred, reply, offenders, crashes>>
  BY DEF BatchCommit
<1>2. /\ batch \in Seq(Req) /\ results \in Seq(Replies) /\ idx \in Nat
      /\ Len(results) = Len(batch) /\ batch # << >>
  BY <1>1 DEF Inv, TypeOK, TaskOK, InHand
<1>3. CASE Close /\ disk' = work /\ work' = work /\ Answering(results) /\ latency' = Measured
  <2>1. TaskOK' /\ InHand'
    BY <1>1, <1>2, <1>3, AnsweringStep
  <2>2. tx' = "auto" /\ violated' = FALSE
    BY <1>3 DEF Close
  <2>3. DatabaseOK'
    BY <1>3, <2>2 DEF Inv, TypeOK, DatabaseOK
  <2>4. AnswersOK'
    BY <1>1, <1>3, MeasuredType DEF Inv, TypeOK, AnswersOK
  <2> QED
    BY <2>1, <2>3, <2>4, Frames DEF BatchCommit, Inv, TypeOK
<1>4. CASE /\ RollBack /\ latency' = latency
           /\ Answering([i \in 1 .. Len(results) |-> Overridden(results[i])])
  <2> DEFINE answers == [i \in 1 .. Len(results) |-> Overridden(results[i])]
  <2>1. ASSUME NEW res \in Replies PROVE Overridden(res) \in Replies
    BY FailedType DEF Overridden, Replies, Causes
  <2>2. answers \in Seq(Replies) /\ Len(answers) = Len(batch)
    BY <1>2, <2>1
  <2>3. TaskOK' /\ InHand'
    BY <1>1, <1>2, <1>4, <2>2, AnsweringStep
  <2> QED
    BY <1>1, <1>4, <2>3, RollBackStep, Frames DEF BatchCommit, Inv, TypeOK, AnswersOK
<1> QED
  BY <1>3, <1>4 DEF BatchCommit

-----------------------------------------------------------------------------
LEMMA AnswerStep == ASSUME Inv, Answer PROVE Inv'
<1>1. /\ pc = "answer" /\ idx \in 1 .. Len(batch) /\ batch \in Seq(Req)
      /\ results \in Seq(Replies) /\ Len(results) = Len(batch)
      /\ deferred \in Seq(Commands) /\ Len(deferred) <= 1
  BY DEF Inv, TypeOK, TaskOK, InHand, Answer
<1>2. AnswersOK'
  <2>1. batch[idx] \in Calls /\ results[idx] \in Replies
    BY <1>1 DEF Calls
  <2> QED
    BY <2>1 DEF Answer, Inv, TypeOK, AnswersOK
<1>3. CASE MoreToAnswer
  <2>1. idx' = idx + 1 /\ UNCHANGED <<pc, batch, results, deferred>>
    BY <1>3 DEF Answer
  <2>2. TaskOK' /\ InHand'
    BY <1>1, <1>3, <2>1 DEF Inv, TypeOK, TaskOK, InHand, MoreToAnswer
  <2> QED
    BY <1>2, <2>2, Frames DEF Answer, Inv, TypeOK
<1>4. CASE ~MoreToAnswer
  <2>1. /\ idx' = 1 /\ batch' = << >> /\ results' = << >> /\ deferred' = deferred
        /\ pc' = AfterAnswers
    BY <1>4 DEF Answer
  <2>2. TaskOK' /\ InHand'
    BY <1>1, <2>1 DEF TaskOK, InHand, AfterAnswers, PCs
  <2> QED
    BY <1>2, <2>2, Frames DEF Answer, Inv, TypeOK
<1> QED
  BY <1>3, <1>4

LEMMA ExitStep == ASSUME Inv, Exit PROVE Inv'
<1>1. ChannelOK'
  <2>1. queue' = << >> /\ senders' = senders /\ sent' = sent
    BY DEF Exit
  <2> QED
    BY <2>1, WriterAssumption DEF Inv, TypeOK, ChannelOK
<1>2. TaskOK' /\ InHand'
  <2>1. pc' = "stopped" /\ UNCHANGED task
    BY DEF Exit
  <2> QED
    BY <2>1 DEF Inv, TypeOK, TaskOK, InHand, task, PCs
<1>3. AnswersOK'
  BY MuteType DEF Exit, Inv, TypeOK, AnswersOK, Statuses
<1> QED
  BY <1>1, <1>2, <1>3, Frames DEF Exit, Inv, TypeOK

LEMMA CrashStep == ASSUME Inv, Crash PROVE Inv'
<1>1. ChannelOK'
  <2>1. queue' = << >> /\ senders' = TRUE /\ sent' = sent
    BY DEF Crash
  <2> QED
    BY <2>1, WriterAssumption DEF Inv, TypeOK, ChannelOK
<1>2. TaskOK' /\ InHand'
  <2>1. pc' = "recv" /\ batch' = << >> /\ idx' = 1 /\ results' = << >> /\ deferred' = << >>
    BY DEF Crash
  <2> QED
    BY <2>1 DEF TaskOK, InHand, PCs
<1>3. DatabaseOK'
  BY RollBackStep DEF Crash
<1>4. AnswersOK'
  BY MuteType, WriterAssumption DEF Crash, Inv, TypeOK, AnswersOK, Statuses
<1> QED
  BY <1>1, <1>2, <1>3, <1>4 DEF Inv, TypeOK

LEMMA InvStep == Inv /\ [Next]_vars => Inv'
<1> SUFFICES ASSUME Inv, [Next]_vars PROVE Inv'
  OBVIOUS
<1>1. CASE \E c \in Commands : Send(c)
  BY <1>1, SendStep
<1>2. CASE Hangup
  BY <1>2, HangupStep
<1>3. CASE WriterStep
  BY <1>3, ReceiveStep, ReceiveNoneStep, DrainStep, TakeDeferredStep, ApplyStep, BeginStep,
     ExecStep, RecordStep, CommitStep, BatchBeginStep, BatchItemStep, BatchCommitStep,
     AnswerStep, ExitStep DEF WriterStep
<1>4. CASE Crash
  BY <1>4, CrashStep
<1>5. CASE Stopped \/ UNCHANGED vars
  BY <1>5, StutterStep DEF Stopped
<1> QED
  BY <1>1, <1>2, <1>3, <1>4, <1>5 DEF Next

(***************************************************************************)
(* The writer never leaves its types: the queue stays within its capacity, *)
(* the latency ring within its own, and a step never takes from a batch,   *)
(* a list of responses or a deferred command that is not there.            *)
(***************************************************************************)
THEOREM TypeCorrect == Spec => [](TypeOK /\ InHand)
<1>1. Inv => TypeOK /\ InHand
  BY DEF Inv
<1> QED
  BY <1>1, InvInit, InvStep, PTL DEF Spec
=============================================================================
