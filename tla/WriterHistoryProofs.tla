------------------------- MODULE WriterHistoryProofs -------------------------
(***************************************************************************)
(* Proof that the writer answers its callers once and in order, that       *)
(* effects reach the disk in the order of arrival and whole, and that what *)
(* a caller is told is true: for every set of requests, every batch size   *)
(* and every combination of statement errors, lost transactions, failed    *)
(* commits and crashes.                                                    *)
(***************************************************************************)
EXTENDS WriterSoundness

-----------------------------------------------------------------------------
(***************************************************************************)
(* The order of the line.                                                  *)
(***************************************************************************)
\* What the types say of the line.
LEMMA LineTypes ==
  ASSUME Inv
  PROVE  /\ queue \in Seq(Commands) /\ sent \in Seq(Commands)
         /\ batch \in Seq(Req) /\ deferred \in Seq(Commands) /\ Len(deferred) <= 1
         /\ Len(deferred) \in Nat /\ Len(queue) \in Nat /\ Len(sent) \in Nat /\ Len(batch) \in Nat
         /\ idx \in Nat \ {0} /\ Base \in Int /\ Answered \in Nat
         /\ pc = "answer" => idx <= Len(batch)
         /\ reply \in [Calls -> Replies]
<1>1. /\ queue \in Seq(Commands) /\ sent \in Seq(Commands)
      /\ batch \in Seq(Req) /\ deferred \in Seq(Commands) /\ Len(deferred) <= 1
      /\ idx \in Nat \ {0} /\ reply \in [Calls -> Replies]
      /\ pc = "answer" => idx <= Len(batch)
  BY DEF Inv, TypeOK, ChannelOK, TaskOK, AnswersOK, InHand
<1>2. Len(queue) \in Nat /\ Len(sent) \in Nat /\ Len(batch) \in Nat /\ Len(deferred) \in Nat
  BY <1>1
<1>3. Base \in Int /\ Answered \in Nat
  BY <1>1, <1>2 DEF Base, Answered
<1> QED
  BY <1>1, <1>2, <1>3

LEMMA AtMostOne == ASSUME NEW n \in Nat, n <= 1, n # 0 PROVE n = 1
OBVIOUS

\* A command set aside is one command.
LEMMA SetAsideIsOne ==
  ASSUME Inv, deferred # << >>
  PROVE  Len(deferred) = 1 /\ deferred[1] \in Commands
<1>1. deferred \in Seq(Commands)
  BY LineTypes
<1>2. Len(deferred) # 0
  BY <1>1
<1>3. Len(deferred) = 1
  BY <1>2, LineTypes, AtMostOne
<1> QED
  BY <1>1, <1>3

LEMMA OrderlyInit == Init => Orderly
BY DEF Init, Orderly, InLine, EachSentOnce, AnsweredPrefix, HandsFree, VerdictsGiven, Base,
   Answered

\* A step that moves no command and gives no answer.
LEMMA OrderlyFrame ==
  ASSUME Orderly, UNCHANGED <<queue, sent, batch, deferred, reply>>,
         Answered' = Answered, HandsFree', VerdictsGiven'
  PROVE  Orderly'
<1>1. Base' = Base
  BY DEF Base
<1>2. InLine' /\ EachSentOnce' /\ AnsweredPrefix'
  BY <1>1 DEF Orderly, InLine, EachSentOnce, AnsweredPrefix, Unanswered
<1> QED
  BY <1>2 DEF Orderly

\* The same while a request or a batch is being worked on.
LEMMA OrderlyWork ==
  ASSUME Inv, Orderly, UNCHANGED <<queue, sent, batch, deferred, reply>>,
         pc # "answer", VerdictsGiven',
         \/ pc' \in {"begin", "exec", "commit", "item"}
         \/ pc' = "answer" /\ idx' = 1
  PROVE  Orderly'
<1>1. Answered' = Answered
  BY DEF Answered
<1>2. HandsFree'
  BY DEF HandsFree
<1> QED
  BY <1>1, <1>2, OrderlyFrame

\* A command enters the queue behind all others, or its caller is told that
\* the gateway is closed.
LEMMA OrderlySend == ASSUME Inv, Orderly, NEW c \in Commands, Send(c) PROVE Orderly'
<1>1. /\ c \notin Sent /\ (c \in Calls => Unanswered(c))
      /\ UNCHANGED <<pc, batch, idx, deferred, results>>
  BY DEF Send, task
<1>2. CASE pc # "stopped"
  <2>1. queue' = Append(queue, c) /\ sent' = Append(sent, c) /\ reply' = reply
    BY <1>2 DEF Send
  <2>2. /\ Len(sent') = Len(sent) + 1 /\ Len(queue') = Len(queue) + 1
        /\ sent'[Len(sent) + 1] = c /\ queue'[Len(queue) + 1] = c
        /\ \A i \in 1 .. Len(sent) : sent'[i] = sent[i]
        /\ \A i \in 1 .. Len(queue) : queue'[i] = queue[i]
    BY <2>1, LineTypes
  <2>3. Base' = Base /\ Answered' = Answered
    BY <1>1, <2>2, LineTypes DEF Base, Answered
  <2>4. Base + Len(batch) + Len(deferred) + Len(queue) = Len(sent) /\ Base >= 0
    BY LineTypes DEF Base, Orderly, InLine
  <2>5. InLine'
    <3>1. \A i \in 1 .. Len(batch) : batch'[i] = sent'[Base + i]
      <4> TAKE i \in 1 .. Len(batch)
      <4>1. Base + i \in 1 .. Len(sent)
        BY <2>4, LineTypes
      <4> QED
        BY <1>1, <2>2, <4>1 DEF Orderly, InLine
    <3>2. \A i \in 1 .. Len(deferred) : deferred'[i] = sent'[Base + Len(batch) + i]
      <4> TAKE i \in 1 .. Len(deferred)
      <4>1. Base + Len(batch) + i \in 1 .. Len(sent)
        BY <2>4, LineTypes
      <4> QED
        BY <1>1, <2>2, <4>1 DEF Orderly, InLine
    <3>4. ASSUME NEW i \in 1 .. Len(queue')
          PROVE  queue'[i] = sent'[Base + Len(batch) + Len(deferred) + i]
      <4>1. CASE i = Len(queue) + 1
        <5>1. Base + Len(batch) + Len(deferred) + i = Len(sent) + 1
          BY <2>4, <4>1, LineTypes
        <5> QED
          BY <2>2, <4>1, <5>1
      <4>2. CASE i # Len(queue) + 1
        <5>1. /\ i \in 1 .. Len(queue)
              /\ Base + Len(batch) + Len(deferred) + i \in 1 .. Len(sent)
          BY <2>2, <2>4, <4>2, LineTypes
        <5> QED
          BY <2>2, <5>1 DEF Orderly, InLine
      <4> QED
        BY <4>1, <4>2
    <3>3. Len(batch') + Len(deferred') + Len(queue') <= Len(sent')
      BY <1>1, <2>2, <2>4, LineTypes
    <3> QED
      BY <1>1, <2>3, <3>1, <3>2, <3>3, <3>4 DEF InLine
  <2>6. \A i \in 1 .. Len(sent) : sent[i] # c
    BY <1>1 DEF Sent
  <2>7. EachSentOnce'
    <3> SUFFICES ASSUME NEW i \in 1 .. Len(sent'), NEW j \in 1 .. Len(sent'),
                        sent'[i] = sent'[j], i # j
                 PROVE  FALSE
      BY DEF EachSentOnce
    <3>1. CASE i \in 1 .. Len(sent) /\ j \in 1 .. Len(sent)
      BY <2>2, <3>1 DEF Orderly, EachSentOnce
    <3>2. CASE i \notin 1 .. Len(sent) \/ j \notin 1 .. Len(sent)
      <4>1. i = Len(sent) + 1 \/ j = Len(sent) + 1
        BY <2>2, <3>2, LineTypes
      <4>2. i \in 1 .. Len(sent) \/ j \in 1 .. Len(sent)
        BY <2>2, <4>1, LineTypes
      <4> QED
        BY <2>2, <2>6, <4>1, <4>2
    <3> QED
      BY <3>1, <3>2
  <2>8. AnsweredPrefix'
    <3> SUFFICES ASSUME NEW i \in 1 .. Len(sent'), sent'[i] \in Calls
                 PROVE  reply'[sent'[i]].status = "none" <=> i > Base' + Answered'
      BY DEF AnsweredPrefix, Unanswered
    <3>1. CASE i = Len(sent) + 1
      <4>1. Base + Answered <= Len(sent)
        BY <2>4, LineTypes DEF Answered
      <4>2. sent'[i] = c /\ reply'[c].status = "none"
        BY <1>1, <2>1, <2>2, <3>1 DEF Unanswered
      <4> QED
        BY <2>3, <3>1, <4>1, <4>2, LineTypes
    <3>2. CASE i # Len(sent) + 1
      <4>1. i \in 1 .. Len(sent) /\ sent'[i] = sent[i]
        BY <2>2, <3>2, LineTypes
      <4> QED
        BY <2>1, <2>3, <4>1 DEF Orderly, AnsweredPrefix, Unanswered
    <3> QED
      BY <3>1, <3>2
  <2>9. HandsFree' /\ VerdictsGiven'
    BY <1>1, <1>2 DEF Orderly, HandsFree, VerdictsGiven
  <2> QED
    BY <2>5, <2>7, <2>8, <2>9 DEF Orderly
<1>3. CASE pc = "stopped"
  <2>1. c \in Calls /\ reply' = [reply EXCEPT ![c] = Mute(c, "closed")] /\ UNCHANGED <<queue, sent>>
    BY <1>3 DEF Send
  <2>2. Base' = Base /\ Answered' = Answered
    BY <1>1, <2>1 DEF Base, Answered
  <2>3. \A i \in 1 .. Len(sent) : sent[i] # c
    BY <1>1 DEF Sent
  <2>4. AnsweredPrefix'
    BY <2>1, <2>2, <2>3, LineTypes DEF Orderly, AnsweredPrefix, Unanswered
  <2>5. InLine' /\ EachSentOnce' /\ HandsFree' /\ VerdictsGiven'
    BY <1>1, <2>1, <2>2 DEF Orderly, InLine, EachSentOnce, HandsFree, VerdictsGiven
  <2> QED
    BY <2>4, <2>5 DEF Orderly
<1> QED
  BY <1>2, <1>3

-----------------------------------------------------------------------------
\* The first command of the line leaves it, or becomes the batch.
LEMMA OrderlyTake ==
  ASSUME Inv, Orderly, NEW c \in Commands, Take(c),
         batch = << >>, Base + 1 <= Len(sent), c = sent[Base + 1],
         sent' = sent, deferred' = << >>, queue' \in Seq(Commands),
         Base + 1 + Len(queue') = Len(sent),
         \A i \in 1 .. Len(queue') : queue'[i] = sent[Base + 1 + i],
         pc # "answer"
  PROVE  Orderly'
<1>1. /\ Base \in Nat /\ Len(sent) \in Nat /\ Answered = 0 /\ Len(queue') \in Nat
      /\ reply \in [Calls -> Replies]
  BY LineTypes DEF Orderly, InLine, Base, Answered
<1>2. EachSentOnce' /\ VerdictsGiven'
  <2>1. results' = << >>
    BY DEF Take
  <2> QED
    BY <2>1 DEF Orderly, EachSentOnce, VerdictsGiven
<1>3. \A i \in 1 .. Len(sent) : sent[i] \in Calls => (Unanswered(sent[i]) <=> i > Base)
  BY <1>1 DEF Orderly, AnsweredPrefix
<1>4. CASE c \in Req
  <2>1. batch' = <<c>> /\ pc' \in {"drain", "apply"} /\ reply' = reply
    BY <1>4, WriterAssumption DEF Take, Calls
  <2>2. Base' = Base /\ Answered' = 0
    BY <1>1, <2>1 DEF Base, Answered
  <2>3. InLine'
    <3>1. Len(batch') = 1 /\ batch'[1] = c /\ Len(deferred') = 0
      BY <2>1
    <3> QED
      BY <1>1, <2>2, <3>1 DEF InLine
  <2>4. AnsweredPrefix'
    BY <1>1, <1>3, <2>1, <2>2 DEF AnsweredPrefix, Unanswered
  <2>5. HandsFree'
    BY <2>1 DEF HandsFree
  <2> QED
    BY <1>2, <2>3, <2>4, <2>5 DEF Orderly
<1>5. CASE c \in Ask
  <2>1. /\ batch' = << >> /\ pc' = "recv"
        /\ \E a \in {Mute(c, "done"), Failed(c, "error")} : reply' = [reply EXCEPT ![c] = a]
    BY <1>5, WriterAssumption DEF Take, Calls
  <2>2. Base' = Base + 1 /\ Answered' = 0
    BY <1>1, <2>1 DEF Base, Answered
  <2>3. InLine'
    <3>1. Len(batch') = 0 /\ Len(deferred') = 0
      BY <2>1
    <3> QED
      BY <1>1, <2>2, <3>1 DEF InLine
  <2>4. \A d \in Calls : Unanswered(d)' <=> (d # c /\ Unanswered(d))
    <3>1. PICK a \in {Mute(c, "done"), Failed(c, "error")} : reply' = [reply EXCEPT ![c] = a]
      BY <2>1
    <3>2. Mute(c, "done").status = "done" /\ Failed(c, "error").status = "failed"
      BY DEF Mute, Failed
    <3> QED
      BY <1>1, <1>5, <3>1, <3>2 DEF Unanswered, Calls
  <2>5. \A i \in 1 .. Len(sent) : sent[i] = c <=> i = Base + 1
    BY <1>1 DEF Orderly, EachSentOnce
  <2>6. AnsweredPrefix'
    BY <1>1, <1>3, <2>2, <2>4, <2>5 DEF AnsweredPrefix
  <2>7. HandsFree'
    BY <2>1 DEF HandsFree
  <2> QED
    BY <1>2, <2>3, <2>6, <2>7 DEF Orderly
<1>6. CASE c = Shutdown
  <2>1. batch' = << >> /\ pc' = "exiting" /\ reply' = reply
    BY <1>6, WriterAssumption DEF Take, Calls
  <2>2. Base' = Base + 1 /\ Answered' = 0
    BY <1>1, <2>1 DEF Base, Answered
  <2>3. InLine'
    BY <1>1, <2>1, <2>2 DEF InLine
  <2>4. c \notin Calls
    BY <1>6, WriterAssumption
  <2>5. AnsweredPrefix'
    <3> SUFFICES ASSUME NEW i \in 1 .. Len(sent), sent[i] \in Calls
                 PROVE  Unanswered(sent[i])' <=> i > Base + 1
      BY <1>1, <2>2 DEF AnsweredPrefix
    <3>1. i # Base + 1
      BY <2>4
    <3> QED
      BY <1>1, <1>3, <2>1, <3>1 DEF Unanswered
  <2>6. HandsFree'
    BY <2>1 DEF HandsFree
  <2> QED
    BY <1>2, <2>3, <2>5, <2>6 DEF Orderly
<1> QED
  BY <1>4, <1>5, <1>6 DEF Commands, Calls

LEMMA OrderlyReceive == ASSUME Inv, Orderly, Receive PROVE Orderly'
<1>1. /\ pc = "recv" /\ queue # << >> /\ queue' = Tail(queue) /\ sent' = sent
      /\ deferred' = deferred /\ Take(Head(queue))
  BY DEF Receive
<1>2. batch = << >> /\ deferred = << >>
  BY <1>1 DEF Orderly, HandsFree
<1>3. /\ Len(queue) >= 1 /\ Head(queue) = queue[1] /\ Head(queue) \in Commands
      /\ Tail(queue) \in Seq(Commands) /\ Len(Tail(queue)) = Len(queue) - 1
      /\ \A i \in 1 .. Len(queue) - 1 : Tail(queue)[i] = queue[i + 1]
  BY <1>1, LineTypes
<1>4. Base + Len(queue) = Len(sent) /\ Base \in Nat
  BY <1>2, LineTypes DEF Orderly, InLine, Base
<1>5. \A i \in 1 .. Len(queue) : queue[i] = sent[Base + i]
  BY <1>2, <1>4, LineTypes DEF Orderly, InLine
<1>6. /\ Base + 1 <= Len(sent) /\ Head(queue) = sent[Base + 1]
      /\ Base + 1 + Len(queue') = Len(sent)
      /\ \A i \in 1 .. Len(queue') : queue'[i] = sent[Base + 1 + i]
  BY <1>1, <1>3, <1>4, <1>5, LineTypes
<1> QED
  BY <1>1, <1>2, <1>3, <1>6, OrderlyTake

LEMMA OrderlyTakeDeferred == ASSUME Inv, Orderly, TakeDeferred PROVE Orderly'
<1>1. /\ pc = "deferred" /\ UNCHANGED <<queue, sent>> /\ deferred' = << >> /\ Take(deferred[1])
  BY DEF TakeDeferred, channel
<1>2. batch = << >> /\ Len(deferred) = 1 /\ deferred[1] \in Commands
  <2>1. batch = << >> /\ deferred # << >>
    BY <1>1 DEF Orderly, HandsFree, Inv, InHand
  <2> QED
    BY <2>1, SetAsideIsOne
<1>3. Base + 1 + Len(queue) = Len(sent) /\ Base \in Nat
  BY <1>2, LineTypes DEF Orderly, InLine, Base
<1>4. /\ deferred[1] = sent[Base + 1]
      /\ \A i \in 1 .. Len(queue) : queue[i] = sent[Base + 1 + i]
  BY <1>2, <1>3, LineTypes DEF Orderly, InLine
<1> QED
  BY <1>1, <1>2, <1>3, <1>4, LineTypes, OrderlyTake

\* A drained command goes from the front of the queue to the end of the batch,
\* or is set aside between the two.
LEMMA OrderlyDrain == ASSUME Inv, Orderly, Drain PROVE Orderly'
<1>1. /\ pc = "drain" /\ pc' \in {"drain", "apply", "batchBegin"}
      /\ UNCHANGED <<sent, reply, results>> /\ (pc' = "drain" => deferred' = deferred)
  BY DEF Drain
<1>2. deferred = << >> /\ Answered = 0 /\ Answered' = 0
  BY <1>1 DEF Orderly, HandsFree, Answered
<1>3. /\ Base + Len(batch) + Len(queue) = Len(sent) /\ Base \in Nat
      /\ \A i \in 1 .. Len(batch) : batch[i] = sent[Base + i]
      /\ \A i \in 1 .. Len(queue) : queue[i] = sent[Base + Len(batch) + i]
  BY <1>2, LineTypes DEF Orderly, InLine, Base
<1>4. HandsFree' /\ EachSentOnce' /\ VerdictsGiven'
  BY <1>1, <1>2 DEF Orderly, HandsFree, EachSentOnce, VerdictsGiven
<1>5. Base' = Base /\ InLine'
  <2>1. CASE UNCHANGED <<queue, batch, deferred>>
    <3>1. Base' = Base
      BY <1>1, <2>1 DEF Base
    <3> QED
      BY <1>1, <2>1, <3>1 DEF Orderly, InLine
  <2>2. CASE /\ queue # << >> /\ queue' = Tail(queue)
             /\ \/ batch' = Append(batch, Head(queue)) /\ deferred' = deferred
                \/ deferred' = <<Head(queue)>> /\ batch' = batch
    <3>1. /\ Len(queue) >= 1 /\ Head(queue) = queue[1]
          /\ Len(queue') = Len(queue) - 1
          /\ \A i \in 1 .. Len(queue) - 1 : queue'[i] = queue[i + 1]
      BY <2>2, LineTypes
    <3>2. CASE batch' = Append(batch, Head(queue)) /\ deferred' = deferred
      <4>1. /\ Len(batch') = Len(batch) + 1 /\ batch'[Len(batch) + 1] = queue[1]
            /\ \A i \in 1 .. Len(batch) : batch'[i] = batch[i]
            /\ Len(deferred') = 0
        BY <1>2, <3>1, <3>2, LineTypes
      <4>2. Base' = Base
        BY <1>1, <1>2, <3>1, <4>1, LineTypes DEF Base
      <4>3. ASSUME NEW i \in 1 .. Len(batch') PROVE batch'[i] = sent[Base + i]
        <5>1. i \in 1 .. Len(batch) \/ i = Len(batch) + 1
          BY <4>1, LineTypes
        <5>2. queue[1] = sent[Base + Len(batch) + 1]
          BY <1>3, <3>1, LineTypes
        <5>3. Base + (Len(batch) + 1) = Base + Len(batch) + 1
          BY LineTypes
        <5> QED
          BY <1>3, <4>1, <5>1, <5>2, <5>3
      <4>4. \A i \in 1 .. Len(queue') : queue'[i] = sent[Base + Len(batch') + i]
        BY <1>3, <3>1, <4>1, LineTypes
      <4> QED
        <5>1. Len(batch') + Len(deferred') + Len(queue') <= Len(sent)
          BY <1>3, <3>1, <4>1, LineTypes
        <5>2. Base + Len(batch') + Len(deferred') = Base + Len(batch')
          BY <4>1, LineTypes
        <5>3. \A i \in 1 .. Len(deferred') : FALSE
          BY <4>1
        <5> QED
          BY <1>1, <4>2, <4>3, <4>4, <5>1, <5>2, <5>3 DEF InLine
    <3>3. CASE deferred' = <<Head(queue)>> /\ batch' = batch
      <4>1. Len(deferred') = 1 /\ deferred'[1] = queue[1]
        BY <3>1, <3>3
      <4>2. Base' = Base
        BY <1>1, <1>2, <3>1, <3>3, <4>1, LineTypes DEF Base
      <4>3. \A i \in 1 .. Len(queue') : queue'[i] = sent[Base + Len(batch) + 1 + i]
        BY <1>3, <3>1, LineTypes
      <4> QED
        BY <1>1, <1>3, <3>1, <3>3, <4>1, <4>2, <4>3, LineTypes DEF InLine
    <3> QED
      BY <2>2, <3>2, <3>3
  <2> QED
    BY <2>1, <2>2 DEF Drain, SetAside
<1>6. AnsweredPrefix'
  BY <1>1, <1>2, <1>5 DEF Orderly, AnsweredPrefix, Unanswered
<1> QED
  BY <1>4, <1>5, <1>6 DEF Orderly

\* The next request of the batch is answered, and the last answer empties the
\* hands.
LEMMA OrderlyAnswer == ASSUME Inv, Orderly, Answer PROVE Orderly'
<1>1. /\ pc = "answer" /\ UNCHANGED <<queue, sent, deferred>>
      /\ reply' = [reply EXCEPT ![batch[idx]] = results[idx]]
  BY DEF Answer, channel
<1>2. /\ Base \in Nat /\ Answered = idx - 1 /\ idx \in 1 .. Len(batch)
      /\ batch[idx] = sent[Base + idx] /\ Base + idx \in 1 .. Len(sent)
      /\ Base + (Len(batch) + Len(deferred) + Len(queue)) = Len(sent)
  <2>1. Base \in Nat /\ Base + (Len(batch) + Len(deferred) + Len(queue)) = Len(sent)
    BY LineTypes DEF Orderly, InLine, Base
  <2>2. Answered = idx - 1 /\ idx \in 1 .. Len(batch)
    BY <1>1, LineTypes DEF Answered
  <2>3. batch[idx] = sent[Base + idx]
    BY <2>2 DEF Orderly, InLine
  <2>4. Base + idx \in 1 .. Len(sent)
    BY <2>1, <2>2, LineTypes
  <2> QED
    BY <2>1, <2>2, <2>3, <2>4
<1>3. batch[idx] \in Calls /\ results[idx].status # "none"
  <2>1. Len(results) = Len(batch)
    BY <1>1 DEF Inv, InHand
  <2>2. results[idx].status # "none"
    BY <1>2, <2>1 DEF Orderly, VerdictsGiven, Verdict
  <2> QED
    BY <1>2, <2>2, LineTypes DEF Calls
<1>4. \A c \in Calls : Unanswered(c)' <=> (c # batch[idx] /\ Unanswered(c))
  BY <1>1, <1>3, LineTypes DEF Unanswered
<1>5. \A i \in 1 .. Len(sent) : sent[i] = batch[idx] <=> i = Base + idx
  BY <1>2 DEF Orderly, EachSentOnce
<1>6. EachSentOnce'
  BY <1>1 DEF Orderly, EachSentOnce
<1>7. Base' + Answered' = Base + idx
      => AnsweredPrefix'
  <2> SUFFICES ASSUME Base' + Answered' = Base + idx,
                      NEW i \in 1 .. Len(sent), sent[i] \in Calls
               PROVE  Unanswered(sent[i])' <=> i > Base + idx
    BY <1>1 DEF AnsweredPrefix
  <2>1. Unanswered(sent[i]) <=> i > Base + (idx - 1)
    BY <1>2 DEF Orderly, AnsweredPrefix
  <2>2. Unanswered(sent[i])' <=> (sent[i] # batch[idx] /\ Unanswered(sent[i]))
    BY <1>1, <1>4
  <2>3. sent[i] = batch[idx] <=> i = Base + idx
    BY <1>5
  <2> QED
    BY <1>2, <2>1, <2>2, <2>3, LineTypes
<1>8. CASE MoreToAnswer
  <2>1. idx' = idx + 1 /\ UNCHANGED <<pc, batch, results>>
    BY <1>8 DEF Answer
  <2>2. Base' = Base /\ Answered' = idx
    BY <1>1, <2>1, LineTypes DEF Base, Answered
  <2>3. InLine' /\ HandsFree' /\ VerdictsGiven'
    BY <1>1, <2>1, <2>2 DEF Orderly, InLine, HandsFree, VerdictsGiven
  <2> QED
    BY <1>6, <1>7, <2>2, <2>3 DEF Orderly
<1>9. CASE ~MoreToAnswer
  <2>1. batch' = << >> /\ results' = << >> /\ pc' = AfterAnswers
    BY <1>9 DEF Answer
  <2>2. idx = Len(batch) /\ Len(batch') = 0 /\ pc' \in {"deferred", "recv"}
    BY <1>2, <1>9, <2>1, LineTypes DEF MoreToAnswer, AfterAnswers
  <2>3. Base' = Base + idx /\ Answered' = 0
    BY <1>1, <1>2, <2>2, LineTypes DEF Base, Answered
  <2>4. InLine'
    BY <1>1, <1>2, <2>2, <2>3, LineTypes DEF Orderly, InLine
  <2>5. HandsFree' /\ VerdictsGiven'
    BY <1>1, <2>1 DEF HandsFree, VerdictsGiven, AfterAnswers
  <2> QED
    BY <1>2, <1>6, <1>7, <2>3, <2>4, <2>5 DEF Orderly
<1> QED
  BY <1>8, <1>9

\* The thread or the process ends: whoever is still in the line gets an answer.
LEMMA OrderlyEnd ==
  ASSUME Inv, Orderly, NEW status \in Statuses, status # "none",
         reply' = [c \in Calls |->
                     IF c \in Sent /\ Unanswered(c) THEN Mute(c, status) ELSE reply[c]],
         sent' = sent, queue' = << >>, batch' = << >>, deferred' = << >>,
         VerdictsGiven', pc' \in {"recv", "stopped"}
  PROVE  Orderly'
<1>1. Base' = Len(sent) /\ Answered' = 0
  BY LineTypes DEF Base, Answered
<1>2. \A c \in Calls : c \in Sent => ~Unanswered(c)'
  BY DEF Unanswered, Mute
<1>3. AnsweredPrefix'
  <2> SUFFICES ASSUME NEW i \in 1 .. Len(sent), sent[i] \in Calls
               PROVE  ~Unanswered(sent[i])'
    BY <1>1, LineTypes DEF AnsweredPrefix
  <2>1. sent[i] \in Sent
    BY DEF Sent
  <2> QED
    BY <1>2, <2>1
<1>4. InLine'
  BY <1>1, LineTypes DEF InLine
<1> QED
  BY <1>3, <1>4 DEF Orderly, EachSentOnce, HandsFree

LEMMA OrderlyExit == ASSUME Inv, Orderly, Exit PROVE Orderly'
<1>1. /\ pc = "exiting" /\ pc' = "stopped" /\ queue' = << >>
      /\ UNCHANGED <<sent, batch, results, deferred>>
      /\ reply' = [c \in Calls |->
                     IF c \in Sent /\ Unanswered(c) THEN Mute(c, "closed") ELSE reply[c]]
  BY DEF Exit, task
<1>2. batch = << >> /\ deferred = << >> /\ VerdictsGiven'
  BY <1>1 DEF Orderly, HandsFree, VerdictsGiven
<1> QED
  BY <1>1, <1>2, OrderlyEnd DEF Statuses

LEMMA OrderlyCrash == ASSUME Inv, Orderly, Crash PROVE Orderly'
<1>1. /\ pc' = "recv" /\ queue' = << >> /\ sent' = sent
      /\ batch' = << >> /\ results' = << >> /\ deferred' = << >>
      /\ reply' = [c \in Calls |->
                     IF c \in Sent /\ Unanswered(c) THEN Mute(c, "lost") ELSE reply[c]]
  BY DEF Crash
<1>2. VerdictsGiven'
  BY <1>1 DEF VerdictsGiven
<1> QED
  BY <1>1, <1>2, OrderlyEnd DEF Statuses

-----------------------------------------------------------------------------
(***************************************************************************)
(* A response is a verdict: the request committed or failed.               *)
(***************************************************************************)
LEMMA CommittedIsVerdict == ASSUME NEW id, NEW seq PROVE Verdict(Committed(id, seq))
BY DEF Verdict, Committed

LEMMA FailedIsVerdict == ASSUME NEW id, NEW why PROVE Verdict(Failed(id, why))
BY DEF Verdict, Failed

LEMMA EarlyIsVerdict ==
  ASSUME NEW d, NEW r, NEW a \in EarlyAnswers(d, r)
  PROVE  Verdict(a)
BY CommittedIsVerdict, FailedIsVerdict DEF EarlyAnswers

\* One response for one request.
LEMMA OneVerdict ==
  ASSUME NEW a, Verdict(a), Answering(<<a>>)
  PROVE  VerdictsGiven' /\ pc' = "answer" /\ idx' = 1
<1>1. Len(results') = 1 /\ results'[1] = a /\ pc' = "answer" /\ idx' = 1
  BY DEF Answering
<1> QED
  BY <1>1 DEF VerdictsGiven

\* One response more for the batch.
LEMMA OneMoreVerdict ==
  ASSUME Inv, Orderly, NEW a, Verdict(a), results' = Append(results, a)
  PROVE  VerdictsGiven'
<1>1. results \in Seq(Replies)
  BY DEF Inv, TypeOK, TaskOK
<1>2. /\ Len(results') = Len(results) + 1 /\ results'[Len(results) + 1] = a
      /\ \A i \in 1 .. Len(results) : results'[i] = results[i]
  BY <1>1
<1> QED
  BY <1>1, <1>2 DEF Orderly, VerdictsGiven

\* The steps of a single request.
LEMMA OrderlySingle ==
  ASSUME Inv, Orderly, Apply \/ Begin \/ Exec \/ Record \/ Commit
  PROVE  Orderly'
<1>1. /\ pc \in {"apply", "begin", "exec", "commit"}
      /\ UNCHANGED <<queue, sent, batch, deferred, reply>>
  BY DEF Apply, Begin, Exec, Record, Commit, channel
<1>2. \/ pc' \in {"begin", "exec", "commit"} /\ results' = results
      \/ \E a : Verdict(a) /\ Answering(<<a>>)
  BY CommittedIsVerdict, FailedIsVerdict, EarlyIsVerdict
     DEF Apply, Begin, Exec, Record, Commit, StatementFails
<1>3. CASE pc' \in {"begin", "exec", "commit"} /\ results' = results
  <2>1. VerdictsGiven'
    BY <1>3 DEF Orderly, VerdictsGiven
  <2> QED
    BY <1>1, <1>3, <2>1, OrderlyWork
<1>4. CASE \E a : Verdict(a) /\ Answering(<<a>>)
  BY <1>1, <1>4, OneVerdict, OrderlyWork
<1> QED
  BY <1>2, <1>3, <1>4

\* The steps of a batch.
LEMMA OrderlyBatch ==
  ASSUME Inv, Orderly, BatchBegin \/ BatchItem \/ BatchCommit
  PROVE  Orderly'
<1>1. /\ pc \in {"batchBegin", "item"} /\ UNCHANGED <<queue, sent, batch, deferred, reply>>
      /\ batch \in Seq(Req) /\ results \in Seq(Replies)
  BY DEF BatchBegin, BatchItem, BatchCommit, channel, Inv, TypeOK, TaskOK
<1>2. CASE BatchBegin
  <2>1. CASE pc' = "item" /\ results' = << >>
    BY <1>1, <2>1, OrderlyWork DEF VerdictsGiven
  <2>2. CASE Answering([i \in 1 .. Len(batch) |-> Failed(batch[i], "begin")])
    <3>1. VerdictsGiven'
      BY <1>1, <2>2, FailedIsVerdict DEF Answering, VerdictsGiven
    <3> QED
      BY <1>1, <2>2, <3>1, OrderlyWork DEF Answering
  <2> QED
    BY <1>2, <2>1, <2>2 DEF BatchBegin
<1>3. CASE BatchItem
  <2>1. \E a : Verdict(a) /\ results' = Append(results, a)
    BY <1>3, CommittedIsVerdict, FailedIsVerdict, EarlyIsVerdict
       DEF BatchItem, ItemAnswers, SavepointSucceeds, SavepointFails, SavepointAborts
  <2>2. VerdictsGiven'
    BY <2>1, OneMoreVerdict
  <2> QED
    BY <1>1, <1>3, <2>2, OrderlyWork DEF BatchItem
<1>4. CASE BatchCommit
  <2>1. CASE Answering(results)
    <3>1. VerdictsGiven'
      BY <2>1 DEF Orderly, VerdictsGiven, Answering
    <3> QED
      BY <1>1, <2>1, <3>1, OrderlyWork DEF Answering
  <2>2. CASE Answering([i \in 1 .. Len(results) |-> Overridden(results[i])])
    <3>1. \A i \in 1 .. Len(results) : Verdict(Overridden(results[i]))
      BY FailedIsVerdict DEF Orderly, VerdictsGiven, Overridden
    <3>2. VerdictsGiven'
      BY <1>1, <2>2, <3>1 DEF Answering, VerdictsGiven
    <3> QED
      BY <1>1, <2>2, <3>2, OrderlyWork DEF Answering
  <2> QED
    BY <1>4, <2>1, <2>2 DEF BatchCommit
<1> QED
  BY <1>2, <1>3, <1>4

\* The steps that move no command.
LEMMA OrderlyElsewhere ==
  ASSUME Inv, Orderly, Hangup \/ ReceiveNone \/ UNCHANGED vars
  PROVE  Orderly'
<1>1. /\ UNCHANGED <<queue, sent, batch, deferred, results, idx, reply>>
      /\ pc' = pc \/ (pc = "recv" /\ pc' = "exiting")
  BY DEF Hangup, ReceiveNone, vars, channel, task
<1>2. Answered' = Answered /\ HandsFree' /\ VerdictsGiven'
  BY <1>1 DEF Answered, Orderly, HandsFree, VerdictsGiven
<1> QED
  BY <1>1, <1>2, OrderlyFrame

LEMMA OrderlyStep == Inv /\ Orderly /\ [Next]_vars => Orderly'
<1> SUFFICES ASSUME Inv, Orderly, [Next]_vars PROVE Orderly'
  OBVIOUS
<1>1. CASE \E c \in Commands : Send(c)
  BY <1>1, OrderlySend
<1>2. CASE WriterStep
  BY <1>2, OrderlyElsewhere, OrderlyReceive, OrderlyDrain, OrderlyTakeDeferred, OrderlySingle,
     OrderlyBatch, OrderlyAnswer, OrderlyExit DEF WriterStep
<1>3. CASE Crash
  BY <1>3, OrderlyCrash
<1>4. CASE Hangup \/ Stopped \/ UNCHANGED vars
  BY <1>4, OrderlyElsewhere DEF Stopped
<1> QED
  BY <1>1, <1>2, <1>3, <1>4 DEF Next

\* The line stays in the order in which the commands were sent.
THEOREM LineOrderly == Spec => [](TypeOK /\ InHand /\ Orderly)
<1>1. Init => Inv /\ Orderly
  BY InvInit, OrderlyInit
<1>2. Inv /\ Orderly /\ [Next]_vars => (Inv /\ Orderly)'
  BY InvStep, OrderlyStep
<1>3. Inv <=> TypeOK /\ InHand
  BY DEF Inv
<1> QED
  BY <1>1, <1>2, <1>3, PTL DEF Spec

(***************************************************************************)
(* Calls are answered in the order they were queued, so that the answer to *)
(* a checkpoint means that every write queued before it has been decided.  *)
(***************************************************************************)
THEOREM AnswerOrderCorrect == Spec => []AnsweredInOrder
<1>1. Inv /\ Orderly => AnsweredInOrder
  <2> SUFFICES ASSUME Inv, Orderly, NEW c \in Calls, NEW d \in Calls, Before(c, d), ~Unanswered(d)
               PROVE  ~Unanswered(c)
    BY DEF AnsweredInOrder
  <2>1. PICK i \in 1 .. Len(sent) : sent[i] = c
    BY DEF Before, Sent
  <2>2. PICK j \in 1 .. Len(sent) : sent[j] = d
    BY DEF Before, Sent
  <2>3. Position(c) = i /\ Position(d) = j
    BY <2>1, <2>2 DEF Position, Orderly, EachSentOnce
  <2>4. i < j
    BY <2>3 DEF Before
  <2> QED
    BY <2>1, <2>2, <2>4, LineTypes DEF Orderly, AnsweredPrefix
<1>2. TypeOK /\ InHand /\ Orderly => AnsweredInOrder
  BY <1>1 DEF Inv
<1> QED
  BY <1>2, LineOrderly, PTL

\* A step answers only calls that have no answer.
LEMMA AnswersStay ==
  ASSUME Inv, Orderly, [Next]_vars, NEW c \in Calls, ~Unanswered(c)
  PROVE  reply'[c] = reply[c]
<1>1. CASE \E d \in Commands : Send(d)
  BY <1>1, LineTypes DEF Send
<1>2. ASSUME NEW d \in Commands, Take(d), d \in Calls => Unanswered(d)
      PROVE  reply'[c] = reply[c]
  <2>1. reply' = reply \/ (d \in Calls /\ \E a : reply' = [reply EXCEPT ![d] = a])
    BY <1>2 DEF Take, Calls
  <2> QED
    BY <1>2, <2>1, LineTypes
<1>3. CASE Receive
  <2>1. Head(queue) \in Commands /\ Head(queue) = queue[1] /\ Len(queue) >= 1 /\ Take(Head(queue))
    BY <1>3, LineTypes DEF Receive
  <2>2. Unanswered(Head(queue)) \/ Head(queue) \notin Calls
    <3>1. pc = "recv" /\ batch = << >> /\ deferred = << >>
      BY <1>3 DEF Receive, Orderly, HandsFree
    <3>2. /\ Base + 1 \in 1 .. Len(sent) /\ Base + 1 > Base + Answered
          /\ sent[Base + 1] = queue[1]
      BY <2>1, <3>1, LineTypes DEF Orderly, InLine, Base, Answered
    <3> QED
      BY <2>1, <3>2 DEF Orderly, AnsweredPrefix
  <2> QED
    BY <1>2, <2>1, <2>2
<1>4. CASE TakeDeferred
  <2>1. pc = "deferred" /\ batch = << >> /\ deferred # << >> /\ Take(deferred[1])
    BY <1>4 DEF TakeDeferred, Inv, InHand, Orderly, HandsFree
  <2>2. Len(deferred) = 1 /\ deferred[1] \in Commands
    BY <2>1, SetAsideIsOne
  <2>3. Unanswered(deferred[1]) \/ deferred[1] \notin Calls
    <3>1. /\ Base + 1 \in 1 .. Len(sent) /\ Base + 1 > Base + Answered
          /\ sent[Base + 1] = deferred[1]
      BY <2>1, <2>2, LineTypes DEF Orderly, InLine, Base, Answered
    <3> QED
      BY <3>1 DEF Orderly, AnsweredPrefix
  <2> QED
    BY <1>2, <2>1, <2>2, <2>3
<1>5. CASE Answer
  <2>1. /\ pc = "answer" /\ idx \in 1 .. Len(batch)
        /\ reply' = [reply EXCEPT ![batch[idx]] = results[idx]]
    BY <1>5, LineTypes DEF Answer
  <2>2. Base + idx \in 1 .. Len(sent) /\ Base + idx > Base + Answered /\ sent[Base + idx] = batch[idx]
    BY <2>1, LineTypes DEF Orderly, InLine, Base, Answered
  <2>3. Unanswered(batch[idx])
    BY <2>1, <2>2, LineTypes DEF Orderly, AnsweredPrefix, Calls
  <2> QED
    BY <2>1, <2>3, LineTypes
<1>6. CASE Exit \/ Crash
  BY <1>6 DEF Exit, Crash
<1>7. CASE \/ Hangup \/ ReceiveNone \/ Drain \/ Apply \/ Begin \/ Exec \/ Record \/ Commit
           \/ BatchBegin \/ BatchItem \/ BatchCommit \/ Stopped \/ UNCHANGED vars
  BY <1>7 DEF Hangup, ReceiveNone, Drain, Apply, Begin, Exec, Record, Commit, BatchBegin,
     BatchItem, BatchCommit, Stopped, vars
<1> QED
  BY <1>1, <1>3, <1>4, <1>5, <1>6, <1>7 DEF Next, WriterStep

(***************************************************************************)
(* No caller is answered twice: an answer that was given stays.            *)
(***************************************************************************)
THEOREM AnsweredOnceCorrect == Spec => AnsweredOnce
<1>1. Inv /\ Orderly /\ [Next]_vars
        => [\A c \in Calls : ~Unanswered(c) => reply'[c] = reply[c]]_vars
  BY AnswersStay
<1>2. TypeOK /\ InHand => Inv
  BY DEF Inv
<1> QED
  BY <1>1, <1>2, LineOrderly, PTL DEF Spec, AnsweredOnce

-----------------------------------------------------------------------------
(***************************************************************************)
(* What the statements of a request leave of the order and the wholeness   *)
(* of a database.                                                          *)
(***************************************************************************)
LEMMA SentByMore ==
  ASSUME NEW n \in Int, NEW m \in Int, n <= m, NEW r, SentBy(r, n)
  PROVE  SentBy(r, m)
<1>1. PICK p \in 1 .. Len(sent) : p <= n /\ sent[p] = r
  BY DEF SentBy
<1>2. p <= m
  BY <1>1
<1> QED
  BY <1>1, <1>2 DEF SentBy

LEMMA SerialMore ==
  ASSUME NEW d, NEW n \in Int, NEW m \in Int, SerialDb(d, n, m),
         NEW n2 \in Int, NEW m2 \in Int, n <= n2, m <= m2
  PROVE  SerialDb(d, n2, m2)
BY SentByMore DEF SerialDb

\* A command sent after the first n is none of them.
LEMMA SentLater ==
  ASSUME EachSentOnce, NEW n \in Int, NEW p \in 1 .. Len(sent), n < p, NEW r, SentBy(r, n)
  PROVE  r # sent[p]
<1>1. PICK q \in 1 .. Len(sent) : q <= n /\ sent[q] = r
  BY DEF SentBy
<1>2. q # p
  BY <1>1
<1> QED
  BY <1>1, <1>2 DEF EachSentOnce

\* A request that comes after everything a database holds has left nothing.
LEMMA LaterUntouched ==
  ASSUME EachSentOnce, NEW d, NEW n \in Int, SerialDb(d, n, n),
         NEW p \in 1 .. Len(sent), n < p
  PROVE  Untouched(d, sent[p])
<1>1. \A i \in 1 .. Len(d.rows) : d.rows[i][1] # sent[p]
  BY SentLater DEF SerialDb
<1>2. \A c \in d.commits : c.req # sent[p]
  BY SentLater DEF SerialDb
<1> QED
  BY <1>1, <1>2 DEF Untouched, CommittedIn

LEMMA ExecutedSerial ==
  ASSUME EachSentOnce, NEW d \in Databases, NEW p \in 1 .. Len(sent),
         NEW n \in Int, NEW m \in Int, n <= p, SerialDb(d, n, m), NEW i \in Nat
  PROVE  SerialDb(Executed(d, sent[p], i), p, m)
<1> DEFINE r == sent[p]
           e == Executed(d, r, i)
<1>1. /\ e.rows = Append(d.rows, <<r, i>>) /\ d.rows \in Seq(Rows)
      /\ e.commits = d.commits /\ e.dedups = d.dedups
  BY DEF Executed, Databases
<1>2. /\ Len(e.rows) = Len(d.rows) + 1 /\ Len(d.rows) \in Nat
      /\ e.rows[Len(d.rows) + 1][1] = r
      /\ \A k \in 1 .. Len(d.rows) : e.rows[k] = d.rows[k]
  BY <1>1
<1>3. SerialDb(d, p, m)
  BY SerialMore
<1>4. \A q \in 1 .. Len(sent) : sent[q] = r => q = p
  BY DEF EachSentOnce
<1>5. SentBy(r, p)
  BY DEF SentBy
<1> HIDE DEF r, e
<1>6. ASSUME NEW k \in 1 .. Len(e.rows) PROVE SentBy(e.rows[k][1], p)
  <2>1. CASE k = Len(d.rows) + 1
    BY <1>2, <1>5, <2>1
  <2>2. CASE k \in 1 .. Len(d.rows)
    BY <1>2, <1>3, <2>2 DEF SerialDb
  <2> QED
    BY <1>2, <2>1, <2>2
<1>7. ASSUME NEW k \in 1 .. Len(e.rows), NEW l \in 1 .. Len(e.rows),
             NEW q \in 1 .. Len(sent), NEW s \in 1 .. Len(sent),
             k < l, sent[q] = e.rows[k][1], sent[s] = e.rows[l][1]
      PROVE  q <= s
  <2>1. k \in 1 .. Len(d.rows)
    BY <1>2, <1>7
  <2>2. CASE l \in 1 .. Len(d.rows)
    BY <1>2, <1>3, <1>7, <2>1, <2>2 DEF SerialDb
  <2>3. CASE l = Len(d.rows) + 1
    <3>1. s = p
      BY <1>2, <1>4, <1>7, <2>3
    <3>2. PICK t \in 1 .. Len(sent) : t <= p /\ sent[t] = e.rows[k][1]
      BY <1>6 DEF SentBy
    <3>3. q = t
      BY <1>7, <3>2 DEF EachSentOnce
    <3> QED
      BY <3>1, <3>2, <3>3
  <2> QED
    BY <1>2, <2>2, <2>3
<1>8. /\ \A c \in e.commits : SentBy(c.req, m)
      /\ \A f \in e.dedups : SentBy(f.id, m)
      /\ \A c1, c2 \in e.commits, q, s \in 1 .. Len(sent) :
           (sent[q] = c1.req /\ sent[s] = c2.req /\ q <= s) => c1.seq <= c2.seq
  BY <1>1, <1>3 DEF SerialDb
<1> QED
  BY <1>6, <1>7, <1>8 DEF SerialDb, r, e

LEMMA RecordedSerial ==
  ASSUME EachSentOnce, NEW d \in Databases, GaplessIn(d), NEW p \in 1 .. Len(sent),
         sent[p] \in Req, NEW m \in Int, m < p, SerialDb(d, p, m)
  PROVE  SerialDb(Recorded(d, sent[p]), p, p)
<1> DEFINE r == sent[p]
           t == IF TrackCommits THEN Tracked(d, r) ELSE d
           n == LastSeq(t)
           e == Recorded(d, r)
           record == [key |-> KeyOf[r], body |-> BodyOf[r], id |-> r, seq |-> n]
           commit == [seq |-> d.counter + 1, req |-> r]
<1>1. /\ e.rows = d.rows
      /\ e.commits = d.commits \/ e.commits = d.commits \cup {commit}
      /\ e.dedups = d.dedups \/ e.dedups = d.dedups \cup {record}
  <2>1. /\ t \in Databases /\ t.rows = d.rows /\ t.dedups = d.dedups
        /\ t.commits = d.commits \/ t.commits = d.commits \cup {commit}
    BY TrackedType DEF Tracked, Databases
  <2>2. e = t \/ e = [t EXCEPT !.dedups = @ \cup {record}]
    BY DEF Recorded, Remembered
  <2> HIDE DEF t, e, record, commit
  <2> QED
    BY <2>1, <2>2 DEF Databases
<1>2. record.id = r /\ commit.seq = d.counter + 1 /\ commit.req = r
  OBVIOUS
<1>3. /\ \A c \in d.commits : c.seq <= d.counter + 1
      /\ d.counter \in Nat
  BY DEF GaplessIn, Databases
<1>4. SerialDb(d, p, p) /\ SentBy(r, p)
  BY SerialMore DEF SentBy
<1>5. \A q \in 1 .. Len(sent) : sent[q] = r => q = p
  BY DEF EachSentOnce
<1> HIDE DEF r, t, n, e, record, commit
<1>6. /\ \A c \in e.commits : SentBy(c.req, p)
      /\ \A f \in e.dedups : SentBy(f.id, p)
  BY <1>1, <1>2, <1>4 DEF SerialDb
<1>7. ASSUME NEW c1 \in e.commits, NEW c2 \in e.commits,
             NEW q \in 1 .. Len(sent), NEW s \in 1 .. Len(sent),
             sent[q] = c1.req, sent[s] = c2.req, q <= s
      PROVE  c1.seq <= c2.seq
  <2>1. CASE c1 \in d.commits /\ c2 \in d.commits
    BY <1>4, <1>7, <2>1 DEF SerialDb
  <2>2. CASE c2 = commit
    BY <1>1, <1>2, <1>3, <1>7, <2>2
  <2>3. CASE c1 = commit /\ c2 \in d.commits
    <3>1. q = p
      BY <1>2, <1>5, <1>7, <2>3
    <3>2. PICK u \in 1 .. Len(sent) : u <= m /\ sent[u] = c2.req
      BY <2>3 DEF SerialDb, SentBy
    <3>3. u = s
      BY <1>7, <3>2 DEF EachSentOnce
    <3> QED
      BY <1>7, <3>1, <3>2, <3>3
  <2> QED
    BY <1>1, <1>7, <2>1, <2>2, <2>3
<1> QED
  BY <1>1, <1>4, <1>6, <1>7 DEF SerialDb, r, e

-----------------------------------------------------------------------------
\* Blocks are about rows only.
LEMMA SameRowsBlock ==
  ASSUME NEW d, NEW e, e.rows = d.rows
  PROVE  /\ \A r, k, n : BlockAt(e, r, k, n) <=> BlockAt(d, r, k, n)
         /\ \A r : RanWhole(e, r) <=> RanWhole(d, r)
BY DEF BlockAt, RanWhole

LEMMA ExecutedKeepsBlock ==
  ASSUME NEW d \in Databases, NEW r \in Req, NEW i \in Nat,
         NEW s, s # r, NEW k \in Nat, NEW n \in Nat, BlockAt(d, s, k, n)
  PROVE  BlockAt(Executed(d, r, i), s, k, n)
<1> DEFINE e == Executed(d, r, i)
<1>1. e.rows = Append(d.rows, <<r, i>>) /\ d.rows \in Seq(Rows)
  BY DEF Executed, Databases
<1>2. /\ Len(e.rows) = Len(d.rows) + 1 /\ Len(d.rows) \in Nat
      /\ e.rows[Len(d.rows) + 1][1] = r
      /\ \A l \in 1 .. Len(d.rows) : e.rows[l] = d.rows[l]
  BY <1>1
<1> HIDE DEF e
<1>3. k + n <= Len(e.rows)
  BY <1>2 DEF BlockAt
<1>4. ASSUME NEW l \in 1 .. n PROVE e.rows[k + l] = <<s, l>>
  <2>1. k + l \in 1 .. Len(d.rows)
    BY <1>2 DEF BlockAt
  <2> QED
    BY <1>2, <2>1 DEF BlockAt
<1>5. ASSUME NEW l \in 1 .. Len(e.rows), e.rows[l][1] = s PROVE l \in k + 1 .. k + n
  <2>1. l \in 1 .. Len(d.rows)
    BY <1>2, <1>5
  <2> QED
    BY <1>2, <1>5, <2>1 DEF BlockAt
<1> QED
  BY <1>3, <1>4, <1>5 DEF BlockAt, e

\* The next operation of the request whose block is the last one.
LEMMA ExecutedGrowsBlock ==
  ASSUME NEW d \in Databases, NEW r \in Req, NEW n \in Nat, n <= Len(d.rows),
         BlockAt(d, r, Len(d.rows) - n, n)
  PROVE  LET e == Executed(d, r, n + 1)
         IN  BlockAt(e, r, Len(e.rows) - (n + 1), n + 1) /\ n + 1 <= Len(e.rows)
<1> DEFINE e == Executed(d, r, n + 1)
           k == Len(d.rows) - n
<1>1. e.rows = Append(d.rows, <<r, n + 1>>) /\ d.rows \in Seq(Rows)
  BY DEF Executed, Databases
<1>2. /\ Len(e.rows) = Len(d.rows) + 1 /\ Len(d.rows) \in Nat
      /\ e.rows[Len(d.rows) + 1] = <<r, n + 1>>
      /\ \A l \in 1 .. Len(d.rows) : e.rows[l] = d.rows[l]
  BY <1>1
<1>3. k \in Nat /\ k + n = Len(d.rows) /\ Len(e.rows) - (n + 1) = k
  BY <1>2
<1> HIDE DEF e, k
<1>4. ASSUME NEW l \in 1 .. n + 1 PROVE e.rows[k + l] = <<r, l>>
  <2>1. CASE l = n + 1
    <3>1. k + l = Len(d.rows) + 1
      BY <1>3, <2>1
    <3> QED
      BY <1>2, <2>1, <3>1
  <2>2. CASE l \in 1 .. n
    <3>1. k + l \in 1 .. Len(d.rows)
      BY <1>2, <1>3, <2>2
    <3> QED
      BY <1>2, <2>2, <3>1 DEF BlockAt, k
  <2> QED
    BY <2>1, <2>2
<1>5. ASSUME NEW l \in 1 .. Len(e.rows), e.rows[l][1] = r PROVE l \in k + 1 .. k + (n + 1)
  <2>1. CASE l \in 1 .. Len(d.rows)
    <3>1. l \in k + 1 .. k + n
      BY <1>2, <1>5, <2>1 DEF BlockAt, k
    <3> QED
      BY <1>2, <1>3, <3>1
  <2>2. CASE l = Len(d.rows) + 1
    BY <1>2, <1>3, <2>2
  <2> QED
    BY <1>2, <2>1, <2>2
<1>6. BlockAt(e, r, k, n + 1)
  <2>1. k + (n + 1) <= Len(e.rows)
    BY <1>2, <1>3
  <2> QED
    BY <1>4, <1>5, <2>1 DEF BlockAt
<1> QED
  BY <1>2, <1>3, <1>6 DEF e, k

\* Database e has everything d has, and what it has more is of request q.
Grown(d, e, q) ==
  /\ \A s \in Req \ {q} :
       /\ RanWhole(d, s) => RanWhole(e, s)
       /\ Untouched(d, s) => Untouched(e, s)
       /\ CommittedIn(d, s) => CommittedIn(e, s)
  /\ d.commits \subseteq e.commits

LEMMA ExecutedGrown ==
  ASSUME NEW d \in Databases, NEW r \in Req, NEW i \in Nat
  PROVE  Grown(d, Executed(d, r, i), r)
<1> DEFINE e == Executed(d, r, i)
<1>1. e.rows = Append(d.rows, <<r, i>>) /\ d.rows \in Seq(Rows) /\ e.commits = d.commits
  BY DEF Executed, Databases
<1>2. /\ Len(e.rows) = Len(d.rows) + 1 /\ Len(d.rows) \in Nat
      /\ e.rows[Len(d.rows) + 1][1] = r
      /\ \A l \in 1 .. Len(d.rows) : e.rows[l] = d.rows[l]
  BY <1>1
<1>3. ASSUME NEW s \in Req \ {r}, RanWhole(d, s) PROVE RanWhole(e, s)
  <2>1. OpCount[BodyOf[s]] \in Nat
    BY RequestAssumption
  <2>2. PICK k \in 0 .. Len(d.rows) : BlockAt(d, s, k, OpCount[BodyOf[s]])
    BY <1>3 DEF RanWhole
  <2>3. BlockAt(e, s, k, OpCount[BodyOf[s]])
    BY <1>2, <2>1, <2>2, ExecutedKeepsBlock
  <2>4. k \in 0 .. Len(e.rows)
    BY <1>2
  <2> QED
    BY <2>3, <2>4 DEF RanWhole
<1> HIDE DEF e
<1>4. ASSUME NEW s \in Req \ {r}, Untouched(d, s) PROVE Untouched(e, s)
  BY <1>1, <1>2, <1>4 DEF Untouched, CommittedIn
<1> QED
  BY <1>1, <1>3, <1>4 DEF Grown, CommittedIn, e

LEMMA RecordedGrown ==
  ASSUME NEW d \in Databases, NEW r \in Req
  PROVE  /\ Grown(d, Recorded(d, r), r)
         /\ Recorded(d, r).rows = d.rows
         /\ TrackCommits =>
              [seq |-> LastSeq(Recorded(d, r)), req |-> r] \in Recorded(d, r).commits
<1> DEFINE t == IF TrackCommits THEN Tracked(d, r) ELSE d
           e == Recorded(d, r)
           commit == [seq |-> d.counter + 1, req |-> r]
<1>1. /\ t \in Databases /\ t.rows = d.rows
      /\ t.commits = IF TrackCommits THEN d.commits \cup {commit} ELSE d.commits
      /\ TrackCommits => t.counter = d.counter + 1
  BY TrackedType DEF Tracked, Databases
<1>2. \/ e = t
      \/ \E record : e = [t EXCEPT !.dedups = @ \cup {record}]
  BY DEF Recorded, Remembered
<1>3. commit.req = r
  OBVIOUS
<1> HIDE DEF t, e, commit
<1>4. e.rows = d.rows /\ e.commits = t.commits /\ e.counter = t.counter
  BY <1>1, <1>2 DEF Databases
<1>5. \A s : RanWhole(d, s) => RanWhole(e, s)
  BY <1>4, SameRowsBlock
<1>6. ASSUME NEW s \in Req \ {r}, Untouched(d, s) PROVE Untouched(e, s)
  BY <1>1, <1>3, <1>4, <1>6 DEF Untouched, CommittedIn
<1>7. d.commits \subseteq e.commits
  BY <1>1, <1>4
<1>8. Grown(d, e, r)
  BY <1>5, <1>6, <1>7 DEF Grown, CommittedIn
<1>9. TrackCommits => [seq |-> LastSeq(e), req |-> r] \in e.commits
  BY <1>1, <1>4 DEF LastSeq, commit
<1> QED
  BY <1>4, <1>8, <1>9 DEF e

LEMMA GrownTwice ==
  ASSUME NEW d, NEW e, NEW f, NEW q, Grown(d, e, q), Grown(e, f, q)
  PROVE  Grown(d, f, q)
BY DEF Grown

LEMMA ExecutedWhole ==
  ASSUME NEW d \in Databases, NEW r \in Req, NEW i \in Nat, NEW U, WholeDb(d, U),
         ~CommittedIn(d, r), \A f \in d.dedups : f.id # r
  PROVE  WholeDb(Executed(d, r, i), U \cup {r})
<1> DEFINE e == Executed(d, r, i)
<1>1. /\ e.rows = Append(d.rows, <<r, i>>) /\ d.rows \in Seq(Rows)
      /\ e.commits = d.commits /\ e.dedups = d.dedups
      /\ d.commits \subseteq Commits /\ d.dedups \subseteq Dedups
  BY DEF Executed, Databases
<1>2. /\ Len(e.rows) = Len(d.rows) + 1 /\ Len(d.rows) \in Nat
      /\ e.rows[Len(d.rows) + 1][1] = r
      /\ \A l \in 1 .. Len(d.rows) : e.rows[l] = d.rows[l] /\ d.rows[l][1] \in Req
  BY <1>1 DEF Rows
<1>3. \A s \in Req \ {r} : RanWhole(d, s) => RanWhole(e, s)
  BY ExecutedGrown DEF Grown
<1> HIDE DEF e
<1>4. ASSUME NEW l \in 1 .. Len(e.rows)
      PROVE  \/ e.rows[l][1] \in U \cup {r}
             \/ RanWhole(e, e.rows[l][1]) /\ (TrackCommits => CommittedIn(e, e.rows[l][1]))
  <2>1. CASE l = Len(d.rows) + 1
    BY <1>2, <2>1
  <2>2. CASE l \in 1 .. Len(d.rows)
    BY <1>1, <1>2, <1>3, <2>2 DEF WholeDb, CommittedIn
  <2> QED
    BY <1>2, <2>1, <2>2
<1>5. \A c \in e.commits : RanWhole(e, c.req)
  BY <1>1, <1>3 DEF WholeDb, CommittedIn, Commits
<1>6. \A f \in e.dedups : RanWhole(e, f.id) /\ f.body = BodyOf[f.id]
  BY <1>1, <1>3 DEF WholeDb, Dedups
<1> QED
  BY <1>4, <1>5, <1>6 DEF WholeDb, e

LEMMA RecordedWhole ==
  ASSUME NEW d \in Databases, NEW r \in Req, WholeDb(d, {r}), RanWhole(d, r)
  PROVE  WholeDb(Recorded(d, r), {})
<1> DEFINE t == IF TrackCommits THEN Tracked(d, r) ELSE d
           n == LastSeq(t)
           e == Recorded(d, r)
           record == [key |-> KeyOf[r], body |-> BodyOf[r], id |-> r, seq |-> n]
           commit == [seq |-> d.counter + 1, req |-> r]
<1>1. /\ e.rows = d.rows
      /\ e.commits = IF TrackCommits THEN d.commits \cup {commit} ELSE d.commits
      /\ e.dedups = d.dedups \/ e.dedups = d.dedups \cup {record}
  <2>1. /\ t \in Databases /\ t.rows = d.rows /\ t.dedups = d.dedups
        /\ t.commits = IF TrackCommits THEN d.commits \cup {commit} ELSE d.commits
    BY TrackedType DEF Tracked, Databases
  <2>2. e = t \/ e = [t EXCEPT !.dedups = @ \cup {record}]
    BY DEF Recorded, Remembered
  <2> HIDE DEF t, e, record, commit
  <2> QED
    BY <2>1, <2>2 DEF Databases
<1>2. record.id = r /\ record.body = BodyOf[r] /\ commit.req = r
  OBVIOUS
<1> HIDE DEF t, n, e, record, commit
<1>3. \A s : RanWhole(e, s) <=> RanWhole(d, s)
  BY <1>1, SameRowsBlock
<1>4. ASSUME NEW l \in 1 .. Len(e.rows)
      PROVE  RanWhole(e, e.rows[l][1]) /\ (TrackCommits => CommittedIn(e, e.rows[l][1]))
  <2>1. CASE e.rows[l][1] = r
    BY <1>1, <1>2, <1>3, <2>1 DEF CommittedIn
  <2>2. CASE e.rows[l][1] # r
    BY <1>1, <1>3, <2>2 DEF WholeDb, CommittedIn
  <2> QED
    BY <2>1, <2>2
<1>5. \A c \in e.commits : RanWhole(e, c.req)
  BY <1>1, <1>2, <1>3 DEF WholeDb
<1>6. \A f \in e.dedups : RanWhole(e, f.id) /\ f.body = BodyOf[f.id]
  BY <1>1, <1>2, <1>3 DEF WholeDb
<1> QED
  BY <1>4, <1>5, <1>6 DEF WholeDb, e

-----------------------------------------------------------------------------
(***************************************************************************)
(* What makes an answer true, and keeps it true.                           *)
(***************************************************************************)
\* More requests are decided.
LEMMA BorneOutMore ==
  ASSUME NEW d, NEW r, NEW a, NEW n \in Int, NEW m \in Int, n <= m, BorneOut(d, r, a, n)
  PROVE  BorneOut(d, r, a, m)
<1>1. \A s : SentBy(s, n) => SentBy(s, m)
  BY SentByMore
<1> QED
  BY <1>1 DEF BorneOut

\* The database grows by things of a request that was not decided yet.
LEMMA BorneOutGrown ==
  ASSUME EachSentOnce, NEW d, NEW e, NEW r \in Req, NEW a, NEW n \in Int,
         NEW p \in 1 .. Len(sent), n < p, r # sent[p],
         Grown(d, e, sent[p]), BorneOut(d, r, a, n)
  PROVE  BorneOut(e, r, a, n)
<1>1. \A s \in Req : SentBy(s, n) /\ RanWhole(d, s) => RanWhole(e, s)
  BY SentLater DEF Grown
<1>2. Untouched(d, r) => Untouched(e, r)
  BY DEF Grown
<1>3. d.commits \subseteq e.commits
  BY DEF Grown
<1> QED
  BY <1>1, <1>2, <1>3 DEF BorneOut

\* An unanswered request has been told nothing.
LEMMA NothingToldYet ==
  ASSUME NEW d, NEW r, NEW a, NEW n, a.status \notin {"committed", "failed", "closed"}
  PROVE  BorneOut(d, r, a, n)
BY DEF BorneOut

LEMMA FailedBorneOut ==
  ASSUME NEW d, NEW r, NEW why, why # "conflict", NEW n,
         Undivided => Untouched(d, r)
  PROVE  BorneOut(d, r, Failed(r, why), n)
<1>1. Failed(r, why).status = "failed" /\ Failed(r, why).why = why
  BY DEF Failed
<1> QED
  BY <1>1 DEF BorneOut

LEMMA CommittedBorneOut ==
  ASSUME NEW d, NEW r \in Req, NEW n \in Int, SentBy(r, n), RanWhole(d, r),
         TrackCommits => [seq |-> LastSeq(d), req |-> r] \in d.commits
  PROVE  BorneOut(d, r, Committed(r, LastSeq(d)), n)
<1>1. /\ Committed(r, LastSeq(d)).status = "committed" /\ Committed(r, LastSeq(d)).id = r
      /\ Committed(r, LastSeq(d)).seq = LastSeq(d)
  BY DEF Committed
<1> QED
  BY <1>1 DEF BorneOut

\* What the database remembers of another request with the key is a true
\* answer, whether the operations are the same or not.
LEMMA EarlyBorneOut ==
  ASSUME NEW d \in Databases, NEW r \in Req, NEW n \in Int, NEW m \in Int, m <= n,
         SerialDb(d, m, m), WholeDb(d, {}), SoundDb(d), Untouched(d, r),
         NEW a \in EarlyAnswers(d, r)
  PROVE  BorneOut(d, r, a, n)
<1>1. CASE a = Failed(r, "rejected")
  BY <1>1, FailedBorneOut
<1>2. ASSUME NEW e \in Lookup(d, r),
             a = IF e.body = BodyOf[r] THEN Committed(e.id, e.seq) ELSE Failed(r, "conflict")
      PROVE  BorneOut(d, r, a, n)
  <2>1. /\ e \in d.dedups /\ e \in Dedups /\ Deduplicated(r) /\ e.key = KeyOf[r]
    BY <1>2 DEF Lookup, Databases
  <2>2. /\ e.id \in Req /\ e.key = KeyOf[e.id] /\ e.body = BodyOf[e.id]
        /\ RanWhole(d, e.id) /\ SentBy(e.id, m)
    BY <2>1 DEF Dedups, SoundDb, KeysUnique, WholeDb, SerialDb
  <2>3. SentBy(e.id, n)
    BY <2>2, SentByMore
  <2>4. CASE e.body = BodyOf[r]
    <3>1. a = Committed(e.id, e.seq)
      BY <1>2, <2>4
    <3>2. a.status = "committed" /\ a.id = e.id /\ a.seq = e.seq
      BY <3>1 DEF Committed
    <3>3. SameWrite(r, e.id)
      BY <2>1, <2>2, <2>4 DEF SameWrite
    <3>4. TrackCommits => [seq |-> e.seq, req |-> e.id] \in d.commits
      BY <2>1 DEF SoundDb, RecordsMatch
    <3> QED
      BY <2>2, <2>3, <3>2, <3>3, <3>4 DEF BorneOut
  <2>5. CASE e.body # BodyOf[r]
    <3>1. a = Failed(r, "conflict")
      BY <1>2, <2>5
    <3>2. a.status = "failed"
      BY <3>1 DEF Failed
    <3>3. KeyOf[e.id] = KeyOf[r] /\ BodyOf[e.id] # BodyOf[r]
      BY <2>1, <2>2, <2>5
    <3> QED
      BY <2>2, <2>3, <3>2, <3>3 DEF BorneOut
  <2> QED
    BY <2>4, <2>5
<1> QED
  BY <1>1, <1>2 DEF EarlyAnswers

-----------------------------------------------------------------------------
(***************************************************************************)
(* Truthful is inductive together with Strong and Orderly.                 *)
(***************************************************************************)
Whole == Strong /\ Orderly /\ Truthful

\* The numbers of the line, and where the requests in hand stand in it.
LEMMA Places ==
  ASSUME Inv, Orderly
  PROVE  /\ Base \in Nat /\ Answered \in Nat /\ RowsUpTo \in Nat /\ KnownUpTo \in Nat
         /\ KeptUpTo \in Nat
         /\ \A i \in 1 .. Len(batch) : Base + i \in 1 .. Len(sent) /\ batch[i] = sent[Base + i]
         /\ Base + Answered <= Len(sent)
         /\ EachSentOnce
<1>1. /\ Base \in Nat /\ Base + (Len(batch) + Len(deferred) + Len(queue)) = Len(sent)
      /\ Answered \in Nat
  BY LineTypes DEF Orderly, InLine, Base
<1>2. RowsUpTo \in Nat /\ KnownUpTo \in Nat /\ KeptUpTo \in Nat
  BY <1>1, LineTypes DEF RowsUpTo, KnownUpTo, KeptUpTo
<1>3. \A i \in 1 .. Len(batch) : Base + i \in 1 .. Len(sent)
  BY <1>1, LineTypes
<1>4. Base + Answered <= Len(sent)
  BY <1>1, LineTypes DEF Answered
<1> QED
  BY <1>1, <1>2, <1>3, <1>4 DEF Orderly, InLine

\* What a step with nothing new sent has to establish of the databases ...
LEMMA HistorySettled ==
  ASSUME sent' = sent, NEW w, NEW f, work' = w, disk' = f,
         NEW n, NEW m, NEW k, RowsUpTo' = n, KnownUpTo' = m, KeptUpTo' = k,
         SerialDb(f, k, k), WholeDb(f, {}), SerialDb(w, n, m), WholeDb(w, {}),
         pc' \notin {"exec", "commit"}
  PROVE  HistoryOK'
<1>1. SerialDb(disk, KeptUpTo, KeptUpTo)' /\ SerialDb(work, RowsUpTo, KnownUpTo)'
  BY DEF SerialDb, SentBy
<1> QED
  BY <1>1 DEF HistoryOK

\* ... and of the answers.
LEMMA AnswersSettled ==
  ASSUME sent' = sent, NEW w, NEW f, work' = w, disk' = f,
         NEW n, Base' + Answered' = n, NEW m, Base' = m,
         \A r \in Req : BorneOut(f, r, reply'[r], n) /\ BorneOut(w, r, reply'[r], n),
         pc' \in {"item", "answer"} => \A i \in 1 .. Len(results') :
           (tx' = "begun" \/ pc' = "answer") => BorneOut(w, batch'[i], results'[i], m + i)
  PROVE  AnswersTrue'
<1>1. ASSUME NEW r \in Req
      PROVE  /\ BorneOut(disk, r, reply[r], Base + Answered)'
             /\ BorneOut(work, r, reply[r], Base + Answered)'
  <2>1. BorneOut(f, r, reply'[r], n) /\ BorneOut(w, r, reply'[r], n)
    OBVIOUS
  <2> QED
    BY <2>1 DEF BorneOut, SentBy
<1>2. ASSUME pc' \in {"item", "answer"}, NEW i \in 1 .. Len(results'),
             tx' = "begun" \/ pc' = "answer"
      PROVE  BorneOut(work, batch[i], results[i], Base + i)'
  <2>1. BorneOut(w, batch'[i], results'[i], m + i)
    BY <1>2
  <2> QED
    BY <2>1 DEF BorneOut, SentBy
<1> QED
  BY <1>1, <1>2 DEF AnswersTrue

\* What Whole says outside the work on a request or a batch, where the
\* connection sees what is on disk.
LEMMA AtRest ==
  ASSUME Whole, pc \notin {"exec", "commit", "item", "answer"}
  PROVE  /\ tx = "auto" /\ work = disk /\ ~violated
         /\ RowsUpTo = Base /\ KnownUpTo = Base /\ KeptUpTo = Base /\ Answered = 0
         /\ SerialDb(disk, Base, Base) /\ WholeDb(disk, {})
         /\ \A r \in Req : BorneOut(disk, r, reply[r], Base)
<1>1. tx = "auto" /\ work = disk /\ ~violated
  BY DEF Whole, Truthful, TxOK
<1>2. Base + 0 = Base
  BY Places DEF Whole, Strong
<1>3. RowsUpTo = Base /\ KnownUpTo = Base /\ KeptUpTo = Base /\ Answered = 0
  BY <1>2 DEF RowsUpTo, KnownUpTo, KeptUpTo, Answered
<1> QED
  BY <1>1, <1>2, <1>3 DEF Whole, Truthful, HistoryOK, AnswersTrue

\* A step that ends at rest on what is on disk, with true answers.
LEMMA TruthfulRest ==
  ASSUME Whole, sent' = sent, work' = disk, disk' = disk, NEW n \in Int, Base' = n,
         KeptUpTo <= n, \A r \in Req : BorneOut(disk, r, reply'[r], n),
         pc' \notin {"exec", "commit", "item", "answer"}, TxOK'
  PROVE  Truthful'
<1>1. n + 0 = n
  OBVIOUS
<1>2. RowsUpTo' = n /\ KnownUpTo' = n /\ KeptUpTo' = n /\ Base' + Answered' = n
  BY <1>1 DEF RowsUpTo, KnownUpTo, KeptUpTo, Answered
<1>3. SerialDb(disk, n, n) /\ WholeDb(disk, {})
  BY Places, SerialMore DEF Whole, Strong, Truthful, HistoryOK
<1>4. HistoryOK'
  BY <1>2, <1>3, HistorySettled
<1>5. AnswersTrue'
  BY <1>2, AnswersSettled
<1> QED
  BY <1>4, <1>5 DEF Truthful

\* A step from rest to rest that leaves the databases and the answers to
\* requests alone: commands may have left the line.
LEMMA TruthfulQuiet ==
  ASSUME Whole, sent' = sent, UNCHANGED <<work, disk>>,
         \A r \in Req : reply'[r] = reply[r],
         pc \notin {"exec", "commit", "item", "answer"},
         pc' \notin {"exec", "commit", "item", "answer"},
         Base' \in Int, Base <= Base', TxOK'
  PROVE  Truthful'
<1>1. Base \in Nat
  BY Places DEF Whole, Strong
<1>2. \A r \in Req : BorneOut(disk, r, reply[r], Base')
  BY <1>1, AtRest, BorneOutMore
<1> QED
  BY <1>2, AtRest, TruthfulRest

LEMMA TruthfulTake ==
  ASSUME Whole, NEW c \in Commands, Take(c), sent' = sent, UNCHANGED sqlite,
         pc \in {"recv", "deferred"}, Base' \in Int, Base <= Base'
  PROVE  Truthful'
<1>1. UNCHANGED <<tx, violated, work, disk>>
  BY DEF sqlite
<1>2. \A r \in Req : reply'[r] = reply[r]
  BY WriterAssumption, LineTypes DEF Take, Calls, Whole, Strong
<1>3. pc' \in {"drain", "apply", "recv", "exiting"} /\ idx' = 1
  BY DEF Take
<1>4. pc' = "drain" => Batching /\ batch' = <<c>> /\ Batchable(c)
  BY DEF Take
<1>5. pc' = "drain" => Batching /\ \A i \in 1 .. Len(batch') : Batchable(batch'[i])
  BY <1>4
<1>6. TxOK'
  BY <1>1, <1>3, <1>5, AtRest DEF TxOK, Whole, Truthful, Batchable
<1> QED
  BY <1>1, <1>2, <1>3, <1>6, TruthfulQuiet

LEMMA TruthfulReceive == ASSUME Whole, Receive PROVE Truthful'
<1>1. /\ pc = "recv" /\ queue # << >> /\ queue' = Tail(queue) /\ UNCHANGED <<sent, deferred, sqlite>>
      /\ Take(Head(queue)) /\ Inv /\ Orderly
  BY DEF Receive, Whole, Strong
<1>2. Head(queue) \in Commands /\ Len(queue') = Len(queue) - 1
  BY <1>1, LineTypes
<1>3. /\ Len(batch) = 0
      /\ Len(batch') = 0 \/ Len(batch') = 1
      /\ Len(sent) \in Nat /\ Len(queue) \in Nat /\ Len(deferred) \in Nat
  <2>1. batch' = << >> \/ batch' = <<Head(queue)>>
    BY <1>1 DEF Take
  <2>2. Len(batch') = 0 \/ Len(batch') = 1
    BY <2>1
  <2>3. Len(batch) = 0
    BY <1>1 DEF Orderly, HandsFree
  <2> QED
    BY <1>1, <2>2, <2>3, LineTypes
<1>4. Base' \in Int /\ Base <= Base'
  <2>1. CASE Len(batch') = 0
    BY <1>1, <1>2, <1>3, <2>1 DEF Base
  <2>2. CASE Len(batch') = 1
    BY <1>1, <1>2, <1>3, <2>2 DEF Base
  <2> QED
    BY <1>3, <2>1, <2>2
<1> QED
  BY <1>1, <1>2, <1>4, TruthfulTake

LEMMA TruthfulTakeDeferred == ASSUME Whole, TakeDeferred PROVE Truthful'
<1>1. /\ pc = "deferred" /\ UNCHANGED <<queue, sent, sqlite>> /\ deferred' = << >>
      /\ Take(deferred[1]) /\ Inv /\ Orderly
  BY DEF TakeDeferred, Whole, Strong, channel
<1>2. Len(deferred) = 1 /\ deferred[1] \in Commands
  BY <1>1, SetAsideIsOne DEF Inv, InHand
<1>3. /\ Len(batch) = 0 /\ Len(deferred') = 0
      /\ Len(batch') = 0 \/ Len(batch') = 1
      /\ Len(sent) \in Nat /\ Len(queue) \in Nat
  <2>1. batch' = << >> \/ batch' = <<deferred[1]>>
    BY <1>1 DEF Take
  <2>2. Len(batch') = 0 \/ Len(batch') = 1
    BY <2>1
  <2>3. Len(batch) = 0 /\ Len(deferred') = 0
    BY <1>1 DEF Orderly, HandsFree
  <2> QED
    BY <1>1, <2>2, <2>3, LineTypes
<1>4. Base' \in Int /\ Base <= Base'
  <2>1. CASE Len(batch') = 0
    BY <1>1, <1>2, <1>3, <2>1 DEF Base
  <2>2. CASE Len(batch') = 1
    BY <1>1, <1>2, <1>3, <2>2 DEF Base
  <2> QED
    BY <1>3, <2>1, <2>2
<1> QED
  BY <1>1, <1>2, <1>4, TruthfulTake

LEMMA TruthfulDrain == ASSUME Whole, Drain PROVE Truthful'
<1>1. /\ pc = "drain" /\ pc' \in {"drain", "apply", "batchBegin"}
      /\ UNCHANGED <<sent, idx, reply, tx, violated, work, disk>> /\ Inv /\ Orderly
  BY DEF Drain, sqlite, Whole, Strong
<1>2. /\ batch \in Seq(Req) /\ deferred = << >> /\ idx = 1
      /\ Batching /\ \A i \in 1 .. Len(batch) : Batchable(batch[i])
  BY <1>1, LineTypes DEF Inv, InHand, Orderly, HandsFree, Whole, Truthful, TxOK
<1>3. \A i \in 1 .. Len(batch') : Batchable(batch'[i])
  <2>1. CASE batch' = batch
    BY <1>2, <2>1
  <2>2. CASE batch' = Append(batch, Head(queue)) /\ Batchable(Head(queue))
    BY <1>2, <2>2
  <2> QED
    BY <2>1, <2>2 DEF Drain
<1>4. TxOK'
  BY <1>1, <1>2, <1>3, AtRest DEF TxOK, Whole, Truthful, Batchable
<1>5. Base' = Base
  <2>1. CASE UNCHANGED <<queue, batch, deferred>>
    BY <1>1, <2>1 DEF Base
  <2>2. CASE queue # << >> /\ queue' = Tail(queue)
             /\ batch' = Append(batch, Head(queue)) /\ deferred' = deferred
    <3>1. Len(queue') = Len(queue) - 1 /\ Len(batch') = Len(batch) + 1
      BY <1>1, <1>2, <2>2, LineTypes
    <3> QED
      BY <1>1, <2>2, <3>1, LineTypes DEF Base
  <2>3. CASE queue # << >> /\ queue' = Tail(queue)
             /\ deferred' = <<Head(queue)>> /\ batch' = batch
    <3>1. Len(queue') = Len(queue) - 1
      BY <1>1, <2>3, LineTypes
    <3>2. Len(deferred') = 1 /\ Len(deferred) = 0
      BY <1>2, <2>3
    <3>3. Len(sent) \in Nat /\ Len(queue) \in Nat /\ Len(batch) \in Nat
      BY <1>1, LineTypes
    <3> QED
      BY <1>1, <2>3, <3>1, <3>2, <3>3 DEF Base
  <2> QED
    BY <2>1, <2>2, <2>3 DEF Drain, SetAside
<1> QED
  BY <1>1, <1>4, <1>5, Places, TruthfulQuiet

LEMMA TruthfulReceiveNone == ASSUME Whole, ReceiveNone PROVE Truthful'
<1>1. /\ pc = "recv" /\ pc' = "exiting"
      /\ UNCHANGED <<queue, sent, batch, deferred, idx, reply, tx, violated, work, disk>>
  BY DEF ReceiveNone, channel, task, sqlite
<1>2. Base' = Base
  BY <1>1 DEF Base
<1>3. TxOK'
  BY <1>1, AtRest DEF TxOK, Whole, Truthful
<1> QED
  BY <1>1, <1>2, <1>3, Places, TruthfulQuiet DEF Whole, Strong

\* Nothing of what Truthful is about changes.
LEMMA TruthfulFrame ==
  ASSUME Whole, UNCHANGED <<queue, sent, pc, task, sqlite, reply>>
  PROVE  Truthful'
<1>1. UNCHANGED <<batch, idx, results, deferred, tx, violated, work, disk>>
  BY DEF task, sqlite
<1>2. Base' = Base /\ Answered' = Answered
  BY <1>1 DEF Base, Answered
<1>3. RowsUpTo' = RowsUpTo
  BY <1>1, <1>2 DEF RowsUpTo
<1>4. KnownUpTo' = KnownUpTo /\ KeptUpTo' = KeptUpTo
  BY <1>1, <1>2, <1>3 DEF KnownUpTo, KeptUpTo
<1>5. TxOK'
  BY <1>1 DEF Whole, Truthful, TxOK, Batchable
<1>6. HistoryOK'
  BY <1>1, <1>2, <1>3, <1>4 DEF Whole, Truthful, HistoryOK, SerialDb, SentBy, Current, Partial, Complete
<1>7. AnswersTrue'
  BY <1>1, <1>2 DEF Whole, Truthful, AnswersTrue, BorneOut, SentBy
<1> QED
  BY <1>5, <1>6, <1>7 DEF Truthful

-----------------------------------------------------------------------------
(***************************************************************************)
(* Sending.                                                                *)
(***************************************************************************)
LEMMA SerialSent ==
  ASSUME sent \in Seq(Commands), NEW c, sent' = Append(sent, c), EachSentOnce',
         NEW d, NEW n \in Int, NEW m \in Int, SerialDb(d, n, m)
  PROVE  SerialDb(d, n, m)'
<1>1. /\ Len(sent') = Len(sent) + 1 /\ Len(sent) \in Nat
      /\ \A p \in 1 .. Len(sent) : p \in 1 .. Len(sent') /\ sent'[p] = sent[p]
  OBVIOUS
<1>2. ASSUME NEW r, NEW k, SentBy(r, k) PROVE SentBy(r, k)'
  BY <1>1, <1>2 DEF SentBy
<1>3. ASSUME NEW r, NEW k, SentBy(r, k), NEW p \in 1 .. Len(sent'), sent'[p] = r
      PROVE  p \in 1 .. Len(sent) /\ sent[p] = r
  <2>1. PICK q \in 1 .. Len(sent) : sent[q] = r
    BY <1>3 DEF SentBy
  <2>2. p = q
    BY <1>1, <1>3, <2>1 DEF EachSentOnce
  <2> QED
    BY <2>1, <2>2
<1>4. ASSUME NEW i \in 1 .. Len(d.rows), NEW j \in 1 .. Len(d.rows),
             NEW p \in 1 .. Len(sent'), NEW q \in 1 .. Len(sent'),
             i < j, sent'[p] = d.rows[i][1], sent'[q] = d.rows[j][1]
      PROVE  p <= q
  <2>1. SentBy(d.rows[i][1], n) /\ SentBy(d.rows[j][1], n)
    BY DEF SerialDb
  <2>2. /\ p \in 1 .. Len(sent) /\ sent[p] = d.rows[i][1]
        /\ q \in 1 .. Len(sent) /\ sent[q] = d.rows[j][1]
    BY <1>3, <1>4, <2>1
  <2> QED
    BY <1>4, <2>2 DEF SerialDb
<1>5. ASSUME NEW c1 \in d.commits, NEW c2 \in d.commits,
             NEW p \in 1 .. Len(sent'), NEW q \in 1 .. Len(sent'),
             sent'[p] = c1.req, sent'[q] = c2.req, p <= q
      PROVE  c1.seq <= c2.seq
  <2>1. SentBy(c1.req, m) /\ SentBy(c2.req, m)
    BY DEF SerialDb
  <2>2. /\ p \in 1 .. Len(sent) /\ sent[p] = c1.req
        /\ q \in 1 .. Len(sent) /\ sent[q] = c2.req
    BY <1>3, <1>5, <2>1
  <2> QED
    BY <1>5, <2>2 DEF SerialDb
<1>6. /\ \A i \in 1 .. Len(d.rows) : SentBy(d.rows[i][1], n)'
      /\ \A x \in d.commits : SentBy(x.req, m)'
      /\ \A e \in d.dedups : SentBy(e.id, m)'
  BY <1>2 DEF SerialDb
<1> QED
  BY <1>4, <1>5, <1>6 DEF SerialDb

LEMMA BorneOutSent ==
  ASSUME sent \in Seq(Commands), NEW c, sent' = Append(sent, c),
         NEW d, NEW r, NEW a, NEW n \in Int, BorneOut(d, r, a, n)
  PROVE  BorneOut(d, r, a, n)'
<1>1. /\ Len(sent') = Len(sent) + 1 /\ Len(sent) \in Nat
      /\ \A p \in 1 .. Len(sent) : p \in 1 .. Len(sent') /\ sent'[p] = sent[p]
  OBVIOUS
<1>2. ASSUME NEW x, SentBy(x, n) PROVE SentBy(x, n)'
  BY <1>1, <1>2 DEF SentBy
<1> QED
  BY <1>2 DEF BorneOut

\* A caller turned away was never in the line, and has left nothing.
LEMMA NeverSentUntouched ==
  ASSUME NEW d, NEW n, NEW m, SerialDb(d, n, m), NEW r, r \notin Sent
  PROVE  Untouched(d, r)
<1>1. \A k : ~SentBy(r, k)
  BY DEF SentBy, Sent
<1> QED
  BY <1>1 DEF SerialDb, Untouched, CommittedIn

\* A caller told that the gateway is closed, or nothing at all.
LEMMA ClosedBorneOut ==
  ASSUME NEW d, NEW r, NEW n, NEW status, status \in {"closed", "lost", "done", "none"},
         status = "closed" => Untouched(d, r)
  PROVE  BorneOut(d, r, Mute(r, status), n)
<1>1. Mute(r, status).status = status
  BY DEF Mute
<1> QED
  BY <1>1 DEF BorneOut

LEMMA TruthfulSend == ASSUME Whole, NEW c \in Commands, Send(c) PROVE Truthful'
<1>1. /\ Inv /\ Orderly /\ Orderly'
      /\ UNCHANGED <<pc, batch, idx, results, deferred, tx, violated, work, disk>>
      /\ c \notin Sent
  BY OrderlySend DEF Whole, Strong, Send, task, sqlite
<1>2. TxOK'
  BY <1>1 DEF Whole, Truthful, TxOK, Batchable
<1>3. CASE pc # "stopped"
  <2>1. queue' = Append(queue, c) /\ sent' = Append(sent, c) /\ reply' = reply
    BY <1>3 DEF Send
  <2>2. Len(sent') = Len(sent) + 1 /\ Len(queue') = Len(queue) + 1
    BY <1>1, <2>1, LineTypes
  <2>3. Base' = Base /\ Answered' = Answered
    BY <1>1, <2>2, LineTypes DEF Base, Answered
  <2>4. RowsUpTo' = RowsUpTo
    BY <1>1, <2>3 DEF RowsUpTo
  <2>5. KnownUpTo' = KnownUpTo /\ KeptUpTo' = KeptUpTo
    BY <1>1, <2>3, <2>4 DEF KnownUpTo, KeptUpTo
  <2>6. sent \in Seq(Commands) /\ EachSentOnce'
    BY <1>1, LineTypes DEF Orderly
  <2>7. /\ RowsUpTo \in Int /\ KnownUpTo \in Int /\ KeptUpTo \in Int
        /\ Base \in Int /\ Base + Answered \in Int
        /\ \A i \in 1 .. Len(results) : Base + i \in Int
    BY <1>1, Places
  <2>8. SerialDb(disk, KeptUpTo, KeptUpTo)' /\ SerialDb(work, RowsUpTo, KnownUpTo)'
    <3>1. SerialDb(disk, KeptUpTo, KeptUpTo) /\ SerialDb(work, RowsUpTo, KnownUpTo)
      BY DEF Whole, Truthful, HistoryOK
    <3>2. ASSUME NEW d, NEW n \in Int, NEW m \in Int, SerialDb(d, n, m)
          PROVE  SerialDb(d, n, m)'
      BY <2>1, <2>6, <3>2, SerialSent
    <3>3. SerialDb(disk, KeptUpTo, KeptUpTo)'
      <4>1. PICK d, k : d = disk /\ k = KeptUpTo
        OBVIOUS
      <4>2. SerialDb(d, k, k)'
        BY <2>7, <3>1, <3>2, <4>1
      <4>3. disk' = d /\ KeptUpTo' = k
        BY <1>1, <2>5, <4>1
      <4> QED
        BY <4>2, <4>3 DEF SerialDb, SentBy
    <3>4. SerialDb(work, RowsUpTo, KnownUpTo)'
      <4>1. PICK d, n, m : d = work /\ n = RowsUpTo /\ m = KnownUpTo
        OBVIOUS
      <4>2. SerialDb(d, n, m)'
        BY <2>7, <3>1, <3>2, <4>1
      <4>3. work' = d /\ RowsUpTo' = n /\ KnownUpTo' = m
        BY <1>1, <2>4, <2>5, <4>1
      <4> QED
        BY <4>2, <4>3 DEF SerialDb, SentBy
    <3> QED
      BY <3>3, <3>4
  <2>9. HistoryOK'
    BY <1>1, <2>8 DEF Whole, Truthful, HistoryOK, Current, Partial, Complete
  <2>10. ASSUME NEW r \in Req
         PROVE  /\ BorneOut(disk, r, reply[r], Base + Answered)'
                /\ BorneOut(work, r, reply[r], Base + Answered)'
    <3>1. /\ BorneOut(disk, r, reply[r], Base + Answered)
          /\ BorneOut(work, r, reply[r], Base + Answered)
      BY DEF Whole, Truthful, AnswersTrue
    <3> QED
      BY <1>1, <2>1, <2>3, <2>6, <2>7, <3>1, BorneOutSent DEF BorneOut, SentBy
  <2>11. ASSUME pc \in {"item", "answer"}, NEW i \in 1 .. Len(results),
                tx = "begun" \/ pc = "answer"
         PROVE  BorneOut(work, batch[i], results[i], Base + i)'
    <3>1. BorneOut(work, batch[i], results[i], Base + i)
      BY <2>11 DEF Whole, Truthful, AnswersTrue
    <3> QED
      BY <1>1, <2>1, <2>3, <2>6, <2>7, <3>1, BorneOutSent DEF BorneOut, SentBy
  <2>12. AnswersTrue'
    BY <1>1, <2>10, <2>11 DEF AnswersTrue
  <2> QED
    BY <1>2, <2>9, <2>12 DEF Truthful
<1>4. CASE pc = "stopped"
  <2>1. UNCHANGED <<queue, sent>> /\ reply' = [reply EXCEPT ![c] = Mute(c, "closed")]
    BY <1>4 DEF Send
  <2>2. Base' = Base
    BY <1>1, <2>1 DEF Base
  <2>3. Untouched(disk, c)
    BY <1>1, <1>4, AtRest, NeverSentUntouched
  <2>4. ASSUME NEW r \in Req PROVE BorneOut(disk, r, reply'[r], Base)
    <3>1. CASE r = c
      <4>1. reply'[r] = Mute(c, "closed")
        BY <1>1, <2>1, <3>1, LineTypes DEF Calls
      <4> QED
        BY <2>3, <3>1, <4>1, ClosedBorneOut
    <3>2. CASE r # c
      <4>1. reply'[r] = reply[r]
        BY <1>1, <2>1, <3>2, LineTypes DEF Calls
      <4> QED
        BY <1>4, <4>1, AtRest
    <3> QED
      BY <3>1, <3>2
  <2>5. Base \in Int /\ KeptUpTo <= Base
    BY <1>1, <1>4, Places, AtRest
  <2> QED
    BY <1>1, <1>2, <1>4, <2>1, <2>2, <2>4, <2>5, AtRest, TruthfulRest
<1> QED
  BY <1>3, <1>4

(***************************************************************************)
(* The end of the thread and of the process: what is not committed and     *)
(* what is still queued is gone, and has left nothing.                     *)
(***************************************************************************)
LEMMA TruthfulExit == ASSUME Whole, Exit PROVE Truthful'
<1>1. /\ Inv /\ Orderly /\ pc = "exiting" /\ pc' = "stopped"
      /\ UNCHANGED <<sent, batch, idx, deferred, tx, violated, work, disk>> /\ queue' = << >>
      /\ reply' = [c \in Calls |-> IF c \in Sent /\ Unanswered(c) THEN Mute(c, "closed")
                                                                 ELSE reply[c]]
  BY DEF Whole, Strong, Exit, task, sqlite
<1>2. Len(queue') = 0 /\ Len(batch) = 0 /\ Len(deferred) = 0
  BY <1>1 DEF Orderly, HandsFree
<1>3. Base' \in Int /\ Base <= Base' /\ Base \in Int
  BY <1>1, <1>2, LineTypes DEF Base
<1>4. TxOK'
  BY <1>1, AtRest DEF TxOK
<1>5. ASSUME NEW r \in Req PROVE BorneOut(disk, r, reply'[r], Base')
  <2>1. CASE r \in Sent /\ Unanswered(r)
    <3>1. reply'[r] = Mute(r, "closed")
      BY <1>1, <2>1 DEF Calls
    <3>2. PICK p \in 1 .. Len(sent) : sent[p] = r
      BY <2>1 DEF Sent
    <3>3. p > Base
      BY <1>1, <2>1, <3>2, AtRest, Places DEF Orderly, AnsweredPrefix, Calls
    <3>4. Untouched(disk, r)
      BY <1>1, <1>3, <3>2, <3>3, AtRest, Places, LaterUntouched
    <3> QED
      BY <3>1, <3>4, ClosedBorneOut
  <2>2. CASE ~(r \in Sent /\ Unanswered(r))
    <3>1. reply'[r] = reply[r]
      BY <1>1, <2>2 DEF Calls
    <3> QED
      BY <1>1, <1>3, <3>1, AtRest, BorneOutMore
  <2> QED
    BY <2>1, <2>2
<1>6. KeptUpTo <= Base'
  BY <1>1, <1>3, AtRest
<1> QED
  BY <1>1, <1>3, <1>4, <1>5, <1>6, AtRest, TruthfulRest

LEMMA TruthfulCrash == ASSUME Whole, Crash PROVE Truthful'
<1>1. /\ Inv /\ Orderly /\ pc' = "recv" /\ idx' = 1
      /\ UNCHANGED <<sent, disk>> /\ work' = disk /\ tx' = "auto" /\ violated' = FALSE
      /\ queue' = << >> /\ batch' = << >> /\ deferred' = << >>
      /\ reply' = [c \in Calls |-> IF c \in Sent /\ Unanswered(c) THEN Mute(c, "lost")
                                                                 ELSE reply[c]]
  BY DEF Whole, Strong, Crash, RollBack, Close
<1>2. Base' = Len(sent) /\ Len(sent) \in Int
  BY <1>1, LineTypes DEF Base
<1>3. KeptUpTo <= Len(sent) /\ Base + Answered <= Len(sent) /\ Base + Answered \in Int
  <2>1. KeptUpTo <= Base + Len(batch)
    <3>1. pc = "item" => idx <= Len(batch) + 1
      BY <1>1 DEF Inv, InHand
    <3> QED
      BY <1>1, <3>1, Places, LineTypes DEF KeptUpTo, RowsUpTo
  <2>2. Base + Len(batch) <= Len(sent)
    BY <1>1, LineTypes DEF Base
  <2> QED
    BY <1>1, <2>1, <2>2, Places, LineTypes
<1>4. TxOK'
  BY <1>1 DEF TxOK
<1>5. ASSUME NEW r \in Req PROVE BorneOut(disk, r, reply'[r], Len(sent))
  <2>1. CASE r \in Sent /\ Unanswered(r)
    <3>1. reply'[r] = Mute(r, "lost")
      BY <1>1, <2>1 DEF Calls
    <3> QED
      BY <3>1, ClosedBorneOut
  <2>2. CASE ~(r \in Sent /\ Unanswered(r))
    <3>1. reply'[r] = reply[r]
      BY <1>1, <2>2 DEF Calls
    <3>2. BorneOut(disk, r, reply[r], Base + Answered)
      BY DEF Whole, Truthful, AnswersTrue
    <3> QED
      BY <1>2, <1>3, <3>1, <3>2, BorneOutMore
  <2> QED
    BY <2>1, <2>2
<1> QED
  BY <1>1, <1>2, <1>3, <1>4, <1>5, TruthfulRest

-----------------------------------------------------------------------------
(***************************************************************************)
(* The work on one request.                                                *)
(***************************************************************************)
\* A request in hand that was not answered has been told nothing.
LEMMA Unheard ==
  ASSUME Inv, Orderly, NEW i \in 1 .. Len(batch), i > Answered
  PROVE  batch[i] \in Req /\ reply[batch[i]].status = "none"
<1>1. batch[i] \in Req /\ batch[i] = sent[Base + i] /\ Base + i \in 1 .. Len(sent)
  BY Places, LineTypes
<1>2. Base + i > Base + Answered
  BY Places
<1> QED
  BY <1>1, <1>2 DEF Orderly, AnsweredPrefix, Unanswered, Calls

\* What was told before stays true when a request in hand leaves its effects.
LEMMA RepliesGrown ==
  ASSUME Inv, Orderly, Answered = 0, NEW i \in 1 .. Len(batch), NEW d, NEW e,
         Grown(d, e, batch[i]), \A r \in Req : BorneOut(d, r, reply[r], Base + Answered)
  PROVE  \A r \in Req : BorneOut(e, r, reply[r], Base)
<1>1. Base \in Nat /\ Base + Answered = Base /\ EachSentOnce
  BY Places
<1>2. Base + i \in 1 .. Len(sent) /\ batch[i] = sent[Base + i] /\ Base < Base + i
  BY <1>1, Places
<1>3. ASSUME NEW r \in Req PROVE BorneOut(e, r, reply[r], Base)
  <2>1. CASE r = batch[i]
    <3>1. reply[r].status = "none"
      BY <2>1, Unheard
    <3> QED
      BY <3>1, NothingToldYet
  <2>2. CASE r # batch[i]
    BY <1>1, <1>2, <2>2, BorneOutGrown
  <2> QED
    BY <2>1, <2>2
<1> QED
  BY <1>3

\* The request being executed, and what Whole says then.
LEMMA AtWork ==
  ASSUME Whole, pc \in {"apply", "begin", "exec", "commit"}
  PROVE  /\ Inv /\ Orderly /\ EachSentOnce /\ Base \in Nat /\ Answered = 0 /\ Len(batch) = 1
         /\ Current \in Req /\ Current = sent[Base + 1] /\ Base + 1 \in 1 .. Len(sent)
         /\ work \in Databases /\ disk \in Databases
         /\ KeptUpTo = Base /\ SerialDb(disk, Base, Base) /\ WholeDb(disk, {})
         /\ Untouched(disk, Current)
         /\ \A r \in Req : /\ BorneOut(disk, r, reply[r], Base)
                           /\ BorneOut(work, r, reply[r], Base)
<1>1. Inv /\ Orderly /\ EachSentOnce /\ Base \in Nat /\ Answered = 0 /\ Base + 0 = Base
  BY Places DEF Whole, Strong, Answered
<1>2. Len(batch) = 1 /\ work \in Databases /\ disk \in Databases
  BY <1>1 DEF Inv, TypeOK, DatabaseOK, InHand
<1>3. Current \in Req /\ Current = sent[Base + 1] /\ Base + 1 \in 1 .. Len(sent)
  <2>1. batch \in Seq(Req) /\ 1 \in 1 .. Len(batch)
    BY <1>1, <1>2, LineTypes
  <2>2. batch[1] \in Req /\ batch[1] = sent[Base + 1] /\ Base + 1 \in 1 .. Len(sent)
    BY <1>1, <2>1, Places
  <2> QED
    BY <2>2 DEF Current
<1>4. KeptUpTo = Base
  BY DEF KeptUpTo
<1>5. SerialDb(disk, Base, Base) /\ WholeDb(disk, {})
  BY <1>4 DEF Whole, Truthful, HistoryOK
<1>6. Untouched(disk, Current)
  BY <1>1, <1>3, <1>5, LaterUntouched
<1>7. \A r \in Req : BorneOut(disk, r, reply[r], Base) /\ BorneOut(work, r, reply[r], Base)
  BY <1>1 DEF Whole, Truthful, AnswersTrue
<1> QED
  BY <1>1, <1>2, <1>3, <1>4, <1>5, <1>6, <1>7

\* The responses are made: the transaction is over, and the database on disk
\* bears them out.
LEMMA TruthfulAnswering ==
  ASSUME Whole, pc # "answer", pc' = "answer", idx' = 1,
         UNCHANGED <<queue, sent, batch, deferred, reply>>,
         NEW f, work' = f, disk' = f, tx' = "auto", violated' = FALSE,
         SerialDb(f, Base + Len(batch), Base + Len(batch)), WholeDb(f, {}),
         \A r \in Req : BorneOut(f, r, reply[r], Base),
         \A i \in 1 .. Len(results') : BorneOut(f, batch[i], results'[i], Base + i)
  PROVE  Truthful'
<1>1. Base' = Base /\ Answered' = 0 /\ Base + 0 = Base
  BY Places DEF Base, Answered, Whole, Strong
<1>2. RowsUpTo' = Base + Len(batch)
  BY <1>1 DEF RowsUpTo
<1>3. KnownUpTo' = Base + Len(batch) /\ KeptUpTo' = Base + Len(batch)
  BY <1>2 DEF KnownUpTo, KeptUpTo
<1>4. TxOK'
  BY DEF TxOK
<1>5. HistoryOK'
  BY <1>2, <1>3, HistorySettled
<1>6. Base' + Answered' = Base
  BY <1>1
<1>7. AnswersTrue'
  BY <1>1, <1>6, AnswersSettled
<1> QED
  BY <1>4, <1>5, <1>7 DEF Truthful

\* The one request in hand is answered before or instead of its commit.
LEMMA TruthfulOne ==
  ASSUME Whole, pc \in {"apply", "begin", "exec", "commit"}, pc' = "answer", idx' = 1,
         UNCHANGED <<queue, sent, batch, deferred, reply>>,
         work' = disk, disk' = disk, tx' = "auto", violated' = FALSE,
         NEW a, results' = <<a>>, BorneOut(disk, Current, a, Base + 1)
  PROVE  Truthful'
<1>1. SerialDb(disk, Base + Len(batch), Base + Len(batch))
  BY AtWork, SerialMore
<1>2. Len(results') = 1 /\ results'[1] = a /\ batch[1] = Current
  BY DEF Current
<1>3. \A i \in 1 .. Len(results') : BorneOut(disk, batch[i], results'[i], Base + i)
  BY <1>2
<1> QED
  BY <1>1, <1>3, AtWork, TruthfulAnswering

LEMMA TruthfulStatementFails ==
  ASSUME Whole, pc = "exec", StatementFails, UNCHANGED <<queue, sent, batch, deferred, reply>>
  PROVE  Truthful'
<1>1. BorneOut(disk, Current, Failed(Current, "error"), Base + 1)
  BY AtWork, FailedBorneOut
<1> QED
  BY <1>1, TruthfulOne DEF StatementFails, RollBack, Close, Answering

LEMMA TruthfulApply == ASSUME Whole, Apply PROVE Truthful'
<1>1. /\ pc = "apply" /\ UNCHANGED <<queue, sent, batch, deferred, reply, tx, violated, work, disk>>
  BY DEF Apply, channel, sqlite
<1>2. tx = "auto" /\ work = disk /\ ~violated
  BY <1>1, AtRest
<1>3. violated \in BOOLEAN /\ SoundDb(disk)
  BY DEF Whole, Strong, Sound, Inv, TypeOK, DatabaseOK
<1>4. CASE \E answer \in EarlyAnswers(work, Current) : Answering(<<answer>>)
  <2>1. PICK answer \in EarlyAnswers(disk, Current) : Answering(<<answer>>)
    BY <1>2, <1>4
  <2>2. BorneOut(disk, Current, answer, Base + 1)
    BY <1>1, <1>3, AtWork, EarlyBorneOut
  <2> QED
    BY <1>1, <1>2, <1>3, <2>1, <2>2, TruthfulOne DEF Answering
<1>5. CASE Answering(<<Failed(Current, "error")>>)
  <2>1. BorneOut(disk, Current, Failed(Current, "error"), Base + 1)
    BY <1>1, AtWork, FailedBorneOut
  <2> QED
    BY <1>1, <1>2, <1>3, <1>5, <2>1, TruthfulOne DEF Answering
<1>6. CASE pc' = "begin" /\ UNCHANGED <<results, idx>>
  <2>1. idx = 1
    BY <1>1 DEF Whole, Truthful, TxOK
  <2>2. TxOK'
    BY <1>1, <1>2, <1>6, <2>1 DEF TxOK
  <2>3. Base' = Base
    BY <1>1 DEF Base
  <2> QED
    BY <1>1, <1>6, <2>2, <2>3, AtWork, TruthfulQuiet
<1> QED
  BY <1>4, <1>5, <1>6 DEF Apply

\* A transaction is open on the request, with its first operations executed or
\* all of it done.
LEMMA TruthfulWorking ==
  ASSUME Whole, pc \in {"begin", "exec"}, pc' \in {"exec", "commit"},
         UNCHANGED <<queue, sent, batch, deferred, reply, disk>>, tx' = "begun", TxOK',
         NEW w, work' = w,
         SerialDb(w, Base + 1, IF pc' = "exec" THEN Base ELSE Base + 1),
         WholeDb(w, IF pc' = "exec" THEN {Current} ELSE {}),
         pc' = "exec" => Partial', pc' = "commit" => Complete',
         \A r \in Req : BorneOut(w, r, reply[r], Base)
  PROVE  Truthful'
<1>1. /\ Base' = Base /\ Answered' = 0 /\ Base + 0 = Base /\ Base' + Answered' = Base
      /\ Current' = Current
  BY AtWork DEF Base, Answered, Current
<1>2. RowsUpTo' = Base + 1
  BY <1>1 DEF RowsUpTo
<1>3. KnownUpTo' = (IF pc' = "exec" THEN Base ELSE Base + 1) /\ KeptUpTo' = Base
  BY <1>1, <1>2 DEF KnownUpTo, KeptUpTo
<1>4. HistoryOK'
  <2>1. SerialDb(work, RowsUpTo, KnownUpTo)'
    BY <1>2, <1>3 DEF SerialDb, SentBy
  <2>2. SerialDb(disk, KeptUpTo, KeptUpTo)'
    <3>1. SerialDb(disk, Base, Base)
      BY AtWork
    <3> QED
      BY <1>3, <3>1 DEF SerialDb, SentBy
  <2>3. WholeDb(disk, {})'
    BY AtWork
  <2>4. WholeDb(work, IF pc = "exec" THEN {Current} ELSE {})'
    BY <1>1
  <2> QED
    BY <2>1, <2>2, <2>3, <2>4 DEF HistoryOK
<1>5. \A r \in Req : BorneOut(disk, r, reply[r], Base)
  BY AtWork
<1>6. AnswersTrue'
  BY <1>1, <1>5, AnswersSettled
<1> QED
  BY <1>4, <1>6 DEF Truthful

LEMMA TruthfulBegin == ASSUME Whole, Begin PROVE Truthful'
<1>1. /\ pc = "begin"
      /\ UNCHANGED <<queue, sent, batch, deferred, reply, violated, work, disk>>
  BY DEF Begin, channel
<1>2. tx = "auto" /\ work = disk /\ ~violated /\ idx = 1
  BY <1>1, AtRest DEF Whole, Truthful, TxOK
<1>3. CASE Answering(<<Failed(Current, "begin")>>) /\ UNCHANGED tx
  <2>1. BorneOut(disk, Current, Failed(Current, "begin"), Base + 1)
    BY <1>1, AtWork, FailedBorneOut
  <2>2. violated' = FALSE
    BY <1>1, <1>2 DEF Whole, Strong, Inv, TypeOK, DatabaseOK
  <2> QED
    BY <1>1, <1>2, <1>3, <2>1, <2>2, TruthfulOne DEF Answering
<1>4. CASE tx' = "begun" /\ pc' = "exec" /\ UNCHANGED <<idx, results>>
  <2>1. TxOK'
    BY <1>1, <1>2, <1>4 DEF TxOK
  <2>2. SerialDb(disk, Base + 1, Base)
    BY <1>1, AtWork, SerialMore
  <2>3. WholeDb(disk, {Current})
    BY <1>1, AtWork DEF WholeDb
  <2>4. Partial'
    <3>1. idx' = 1 /\ Current' = Current /\ work' = disk /\ disk.rows \in Seq(Rows)
      BY <1>1, <1>2, <1>4, AtWork DEF Current, Databases
    <3>2. OpCount[BodyOf[Current]] \in Nat /\ Len(disk.rows) \in Nat
      BY <1>1, <3>1, AtWork, RequestAssumption
    <3>3. BlockAt(disk, Current, Len(disk.rows), 0)
      BY <1>1, <3>2, AtWork DEF BlockAt, Untouched
    <3>4. ~CommittedIn(disk, Current)
      BY <1>1, AtWork DEF Untouched
    <3>5. Len(disk.rows) - (1 - 1) = Len(disk.rows) /\ 1 - 1 = 0
      BY <3>2
    <3> QED
      BY <3>1, <3>2, <3>3, <3>4, <3>5 DEF Partial
  <2> QED
    BY <1>1, <1>2, <1>4, <2>1, <2>2, <2>3, <2>4, AtWork, TruthfulWorking
<1> QED
  BY <1>3, <1>4 DEF Begin

LEMMA TruthfulExec == ASSUME Whole, Exec PROVE Truthful'
<1>1. /\ pc = "exec" /\ idx <= OpCount[BodyOf[Current]] /\ idx \in Nat \ {0}
      /\ UNCHANGED <<queue, sent, batch, deferred, reply>>
      /\ tx = "begun"
  BY DEF Exec, channel, Whole, Strong, Inv, TypeOK, TaskOK, Truthful, TxOK
<1>2. CASE StatementFails
  BY <1>1, <1>2, TruthfulStatementFails
<1>3. CASE /\ work' = Executed(work, Current, idx) /\ idx' = idx + 1
           /\ \/ UNCHANGED <<violated, offenders>>
              \/ "deferred" \in Faults /\ violated' = TRUE
           /\ UNCHANGED <<pc, results, tx, disk>>
  <2> DEFINE w == Executed(work, Current, idx)
  <2>1. /\ SerialDb(work, Base + 1, Base) /\ WholeDb(work, {Current}) /\ Partial
    <3>1. RowsUpTo = Base + 1 /\ KnownUpTo = Base
      BY <1>1 DEF RowsUpTo, KnownUpTo
    <3> QED
      BY <1>1, <3>1 DEF Whole, Truthful, HistoryOK
  <2>2. SerialDb(w, Base + 1, Base)
    BY <1>1, <2>1, AtWork, ExecutedSerial
  <2>3. \A f \in work.dedups : f.id # Current
    <3>1. Lookup(work, Current) = {} /\ KeysUnique(work)
      BY <1>1 DEF Whole, Strong, Sound, SoundDb
    <3> QED
      BY <3>1 DEF Lookup, KeysUnique
  <2>4. WholeDb(w, {Current})
    <3>1. WholeDb(w, {Current} \cup {Current})
      BY <1>1, <2>1, <2>3, AtWork, ExecutedWhole DEF Partial
    <3>2. {Current} \cup {Current} = {Current}
      OBVIOUS
    <3> QED
      BY <3>1, <3>2
  <2>5. /\ idx <= OpCount[BodyOf[Current]] + 1 /\ idx - 1 \in Nat /\ idx - 1 <= Len(work.rows)
        /\ BlockAt(work, Current, Len(work.rows) - (idx - 1), idx - 1)
        /\ ~CommittedIn(work, Current) /\ (idx - 1) + 1 = idx
    BY <1>1, <2>1 DEF Partial
  <2>6. BlockAt(w, Current, Len(w.rows) - idx, idx) /\ idx <= Len(w.rows)
    <3> DEFINE n == idx - 1
    <3>1. n + 1 = idx /\ n \in Nat
      BY <2>5
    <3>2. BlockAt(work, Current, Len(work.rows) - n, n) /\ n <= Len(work.rows)
      BY <2>5
    <3> HIDE DEF n
    <3>3. LET e == Executed(work, Current, n + 1)
          IN  BlockAt(e, Current, Len(e.rows) - (n + 1), n + 1) /\ n + 1 <= Len(e.rows)
      BY <1>1, <3>1, <3>2, AtWork, ExecutedGrowsBlock
    <3> QED
      BY <3>1, <3>3
  <2>7. ~CommittedIn(w, Current)
    BY <1>1, <2>5, AtWork DEF CommittedIn, Executed, Databases
  <2>8. Grown(work, w, Current)
    BY <1>1, AtWork, ExecutedGrown
  <2> HIDE DEF w
  <2>9. Partial'
    <3>1. work' = w /\ idx' = idx + 1 /\ Current' = Current
      BY <1>1, <1>3 DEF Current, w
    <3>2. (idx + 1) - 1 = idx /\ idx + 1 <= OpCount[BodyOf[Current]] + 1
      BY <1>1, AtWork, RequestAssumption
    <3> QED
      BY <2>6, <2>7, <3>1, <3>2 DEF Partial
  <2>10. \A r \in Req : BorneOut(w, r, reply[r], Base)
    <3>1. 1 \in 1 .. Len(batch) /\ Current = batch[1] /\ Answered = 0 /\ Inv /\ Orderly
      <4>1. Len(batch) = 1 /\ Answered = 0 /\ Inv /\ Orderly
        BY <1>1, AtWork
      <4> QED
        BY <4>1 DEF Current
    <3>2. \A r \in Req : BorneOut(work, r, reply[r], Base + Answered)
      BY DEF Whole, Truthful, AnswersTrue
    <3> QED
      BY <2>8, <3>1, <3>2, RepliesGrown
  <2>11. TxOK'
    BY <1>1, <1>3 DEF TxOK, Whole, Truthful
  <2>12. work' = w /\ pc' = "exec" /\ tx' = "begun"
    BY <1>1, <1>3 DEF w
  <2> QED
    BY <1>1, <1>3, <2>2, <2>4, <2>9, <2>10, <2>11, <2>12, TruthfulWorking
<1> QED
  BY <1>2, <1>3 DEF Exec

LEMMA TruthfulRecord == ASSUME Whole, Record PROVE Truthful'
<1>1. /\ pc = "exec" /\ idx > OpCount[BodyOf[Current]] /\ idx \in Nat \ {0}
      /\ UNCHANGED <<queue, sent, batch, deferred, reply>>
      /\ tx = "begun"
  BY DEF Record, channel, Whole, Strong, Inv, TypeOK, TaskOK, Truthful, TxOK
<1>2. CASE StatementFails
  BY <1>1, <1>2, TruthfulStatementFails
<1>3. CASE /\ work' = Recorded(work, Current) /\ pc' = "commit"
           /\ UNCHANGED <<idx, results, tx, violated, disk, offenders>>
  <2> DEFINE w == Recorded(work, Current)
  <2>1. /\ SerialDb(work, Base + 1, Base) /\ WholeDb(work, {Current}) /\ Partial
        /\ GaplessIn(work)
    <3>1. RowsUpTo = Base + 1 /\ KnownUpTo = Base
      BY <1>1 DEF RowsUpTo, KnownUpTo
    <3> QED
      BY <1>1, <3>1 DEF Whole, Truthful, HistoryOK, Strong, Sound, SoundDb
  <2>2. RanWhole(work, Current)
    <3>1. OpCount[BodyOf[Current]] \in Nat /\ work.rows \in Seq(Rows)
      BY <1>1, AtWork, RequestAssumption DEF Databases
    <3>2. idx - 1 = OpCount[BodyOf[Current]] /\ Len(work.rows) - (idx - 1) \in 0 .. Len(work.rows)
      BY <1>1, <2>1, <3>1 DEF Partial
    <3> QED
      BY <2>1, <3>2 DEF Partial, RanWhole
  <2>3. SerialDb(w, Base + 1, Base + 1)
    BY <1>1, <2>1, AtWork, RecordedSerial
  <2>4. WholeDb(w, {})
    BY <1>1, <2>1, <2>2, AtWork, RecordedWhole
  <2>5. /\ Grown(work, w, Current) /\ w.rows = work.rows
        /\ TrackCommits => [seq |-> LastSeq(w), req |-> Current] \in w.commits
    BY <1>1, AtWork, RecordedGrown
  <2>6. RanWhole(w, Current)
    BY <2>2, <2>5, SameRowsBlock
  <2> HIDE DEF w
  <2>7. Complete'
    <3>1. work' = w /\ Current' = Current
      BY <1>1, <1>3 DEF Current, w
    <3> QED
      BY <2>5, <2>6, <3>1 DEF Complete, LastSeq
  <2>8. \A r \in Req : BorneOut(w, r, reply[r], Base)
    <3>1. 1 \in 1 .. Len(batch) /\ Current = batch[1] /\ Answered = 0 /\ Inv /\ Orderly
      <4>1. Len(batch) = 1 /\ Answered = 0 /\ Inv /\ Orderly
        BY <1>1, AtWork
      <4> QED
        BY <4>1 DEF Current
    <3>2. \A r \in Req : BorneOut(work, r, reply[r], Base + Answered)
      BY DEF Whole, Truthful, AnswersTrue
    <3> QED
      BY <2>5, <3>1, <3>2, RepliesGrown
  <2>9. TxOK'
    BY <1>1, <1>3 DEF TxOK, Whole, Truthful
  <2>10. work' = w /\ pc' = "commit" /\ tx' = "begun"
    BY <1>1, <1>3 DEF w
  <2> QED
    BY <1>1, <1>3, <2>3, <2>4, <2>7, <2>8, <2>9, <2>10, TruthfulWorking
<1> QED
  BY <1>2, <1>3 DEF Record

LEMMA TruthfulCommit == ASSUME Whole, Commit PROVE Truthful'
<1>1. /\ pc = "commit" /\ UNCHANGED <<queue, sent, batch, deferred, reply>>
      /\ tx' = "auto" /\ violated' = FALSE
  BY DEF Commit, channel, Close, RollBack
<1>2. CASE disk' = work /\ work' = work /\ Answering(<<Committed(Current, LastSeq(work))>>)
  <2> DEFINE a == Committed(Current, LastSeq(work))
  <2>1. SerialDb(work, Base + 1, Base + 1) /\ WholeDb(work, {}) /\ Complete
    <3>1. RowsUpTo = Base + 1 /\ KnownUpTo = Base + 1
      BY <1>1 DEF RowsUpTo, KnownUpTo
    <3> QED
      BY <1>1, <3>1 DEF Whole, Truthful, HistoryOK
  <2>2. SentBy(Current, Base + 1)
    BY <1>1, AtWork DEF SentBy
  <2>3. BorneOut(work, Current, a, Base + 1)
    BY <1>1, <2>1, <2>2, AtWork, CommittedBorneOut DEF Complete
  <2> HIDE DEF a
  <2>4. results' = <<a>> /\ pc' = "answer" /\ idx' = 1
    BY <1>2 DEF Answering, a
  <2>5. Len(results') = 1 /\ results'[1] = a /\ batch[1] = Current
    BY <2>4 DEF Current
  <2>6. \A i \in 1 .. Len(results') : BorneOut(work, batch[i], results'[i], Base + i)
    BY <2>3, <2>5
  <2>7. SerialDb(work, Base + Len(batch), Base + Len(batch))
    BY <1>1, <2>1, AtWork
  <2> QED
    BY <1>1, <1>2, <2>1, <2>4, <2>6, <2>7, AtWork, TruthfulAnswering
<1>3. CASE RollBack /\ Answering(<<Failed(Current, "commit")>>)
  <2>1. BorneOut(disk, Current, Failed(Current, "commit"), Base + 1)
    BY <1>1, AtWork, FailedBorneOut
  <2> QED
    BY <1>1, <1>3, <2>1, TruthfulOne DEF RollBack, Answering
<1> QED
  BY <1>2, <1>3 DEF Commit

-----------------------------------------------------------------------------
(***************************************************************************)
(* The work on a batch.                                                    *)
(***************************************************************************)
LEMMA TruthfulBatchBegin == ASSUME Whole, BatchBegin PROVE Truthful'
<1>1. /\ pc = "batchBegin"
      /\ UNCHANGED <<queue, sent, batch, deferred, reply, violated, work, disk>>
      /\ Inv /\ Orderly
  BY DEF BatchBegin, channel, Whole, Strong
<1>2. tx = "auto" /\ work = disk /\ ~violated /\ violated \in BOOLEAN /\ idx = 1
  BY <1>1, AtRest DEF Inv, TypeOK, DatabaseOK, InHand
<1>3. Base \in Nat /\ Answered = 0 /\ Base + 0 = Base /\ EachSentOnce /\ Len(batch) \in Nat
  BY <1>1, Places, LineTypes DEF Answered
<1>4. /\ SerialDb(disk, Base, Base) /\ WholeDb(disk, {})
      /\ \A r \in Req : BorneOut(disk, r, reply[r], Base)
  BY <1>1, AtRest
<1>5. CASE Answering([i \in 1 .. Len(batch) |-> Failed(batch[i], "begin")]) /\ UNCHANGED tx
  <2>1. \A i \in 1 .. Len(batch) : Untouched(disk, batch[i])
    <3> TAKE i \in 1 .. Len(batch)
    <3>1. Base + i \in 1 .. Len(sent) /\ batch[i] = sent[Base + i] /\ Base < Base + i
      BY <1>1, <1>3, Places
    <3> QED
      BY <1>3, <1>4, <3>1, LaterUntouched
  <2>2. results' = [i \in 1 .. Len(batch) |-> Failed(batch[i], "begin")]
    BY <1>5 DEF Answering
  <2>3. Len(results') = Len(batch)
    BY <1>3, <2>2
  <2>4. \A i \in 1 .. Len(results') : BorneOut(disk, batch[i], results'[i], Base + i)
    <3> TAKE i \in 1 .. Len(results')
    <3>1. i \in 1 .. Len(batch) /\ results'[i] = Failed(batch[i], "begin")
      BY <2>2, <2>3
    <3> QED
      BY <2>1, <3>1, FailedBorneOut
  <2>5. SerialDb(disk, Base + Len(batch), Base + Len(batch))
    BY <1>3, <1>4, SerialMore
  <2>6. /\ pc # "answer" /\ pc' = "answer" /\ idx' = 1 /\ work' = disk /\ disk' = disk
        /\ tx' = "auto" /\ violated' = FALSE
    BY <1>1, <1>2, <1>5 DEF Answering
  <2> QED
    BY <1>1, <1>4, <2>4, <2>5, <2>6, TruthfulAnswering
<1>6. CASE tx' = "begun" /\ pc' = "item" /\ results' = << >> /\ UNCHANGED idx
  <2>1. Base' = Base /\ Answered' = 0 /\ Base' + Answered' = Base
    BY <1>1, <1>3, <1>6 DEF Base, Answered
  <2>2. RowsUpTo' = Base
    BY <1>2, <1>3, <1>6, <2>1 DEF RowsUpTo
  <2>3. KnownUpTo' = Base /\ KeptUpTo' = Base
    BY <1>6, <2>1, <2>2 DEF KnownUpTo, KeptUpTo
  <2>4. TxOK'
    BY <1>1, <1>2, <1>6 DEF TxOK, Whole, Truthful, Batchable
  <2>5. HistoryOK'
    BY <1>1, <1>2, <1>4, <1>6, <2>2, <2>3, HistorySettled
  <2>6. Len(results') = 0
    BY <1>6
  <2>7. AnswersTrue'
    BY <1>1, <1>2, <1>4, <2>1, <2>6, AnswersSettled
  <2> QED
    BY <2>4, <2>5, <2>7 DEF Truthful
<1> QED
  BY <1>5, <1>6 DEF BatchBegin

\* What Whole says of a batch with an open transaction, or one that was lost.
LEMMA AtBatch ==
  ASSUME Whole, pc = "item"
  PROVE  /\ Inv /\ Orderly /\ EachSentOnce /\ Base \in Nat /\ Answered = 0 /\ Base + 0 = Base
         /\ idx \in Nat \ {0} /\ idx <= Len(batch) + 1 /\ Len(results) = idx - 1
         /\ Len(batch) \in Nat /\ Len(results) \in Nat
         /\ work \in Databases /\ disk \in Databases /\ SoundDb(work)
         /\ RowsUpTo = Base + (idx - 1) /\ KnownUpTo = RowsUpTo
         /\ KeptUpTo = IF tx = "auto" THEN RowsUpTo ELSE Base
         /\ KeptUpTo \in Nat
         /\ SerialDb(work, Base + (idx - 1), Base + (idx - 1)) /\ WholeDb(work, {})
         /\ SerialDb(disk, KeptUpTo, KeptUpTo) /\ WholeDb(disk, {})
         /\ \A r \in Req : BorneOut(disk, r, reply[r], Base) /\ BorneOut(work, r, reply[r], Base)
         /\ tx = "begun" => \A i \in 1 .. Len(results) :
              BorneOut(work, batch[i], results[i], Base + i)
         /\ tx = "auto" => work = disk /\ "abort" \in Faults
         /\ tx \in {"auto", "begun"} /\ Batching
<1>1. Inv /\ Orderly /\ EachSentOnce /\ Base \in Nat /\ Answered = 0 /\ Base + 0 = Base
  BY Places DEF Whole, Strong, Answered
<1>2. /\ idx \in Nat \ {0} /\ idx <= Len(batch) + 1 /\ Len(results) = idx - 1
      /\ Len(batch) \in Nat /\ Len(results) \in Nat
  BY <1>1, LineTypes DEF Inv, InHand
<1>3. /\ work \in Databases /\ disk \in Databases /\ SoundDb(work)
      /\ tx \in {"auto", "begun"} /\ (tx = "auto" => work = disk /\ "abort" \in Faults)
      /\ Batching
  BY DEF Whole, Strong, Sound, Inv, TypeOK, DatabaseOK, Truthful, TxOK
<1>4. RowsUpTo = Base + (idx - 1)
  BY DEF RowsUpTo
<1>5. KnownUpTo = RowsUpTo /\ KeptUpTo = IF tx = "auto" THEN RowsUpTo ELSE Base
  BY DEF KnownUpTo, KeptUpTo
<1>6. KeptUpTo \in Nat
  BY <1>1, Places
<1>7. /\ SerialDb(work, Base + (idx - 1), Base + (idx - 1)) /\ WholeDb(work, {})
      /\ SerialDb(disk, KeptUpTo, KeptUpTo) /\ WholeDb(disk, {})
  BY <1>4, <1>5 DEF Whole, Truthful, HistoryOK
<1>8. /\ \A r \in Req : BorneOut(disk, r, reply[r], Base) /\ BorneOut(work, r, reply[r], Base)
      /\ tx = "begun" => \A i \in 1 .. Len(results) :
           BorneOut(work, batch[i], results[i], Base + i)
  BY <1>1 DEF Whole, Truthful, AnswersTrue
<1> QED
  BY <1>1, <1>2, <1>3, <1>4, <1>5, <1>6, <1>7, <1>8

\* One item of the batch is answered, and the batch goes on with databases
\* that bear everything out.
LEMMA TruthfulItem ==
  ASSUME Whole, pc = "item", pc' = "item", idx <= Len(batch), idx' = idx + 1, TxOK',
         UNCHANGED <<queue, sent, batch, deferred, reply>>,
         NEW w, work' = w, NEW f, disk' = f, NEW a, results' = Append(results, a),
         SerialDb(w, Base + idx, Base + idx), WholeDb(w, {}), WholeDb(f, {}),
         SerialDb(f, IF tx' = "auto" THEN Base + idx ELSE Base,
                     IF tx' = "auto" THEN Base + idx ELSE Base),
         \A r \in Req : BorneOut(f, r, reply[r], Base) /\ BorneOut(w, r, reply[r], Base),
         tx' = "begun" => /\ \A i \in 1 .. Len(results) :
                               BorneOut(w, batch[i], results[i], Base + i)
                          /\ BorneOut(w, Item, a, Base + idx)
  PROVE  Truthful'
<1>1. Base' = Base /\ Answered' = 0 /\ Base' + Answered' = Base /\ (idx + 1) - 1 = idx
  BY AtBatch DEF Base, Answered
<1>2. RowsUpTo' = Base + idx
  BY <1>1 DEF RowsUpTo
<1>3. KnownUpTo' = Base + idx /\ KeptUpTo' = IF tx' = "auto" THEN Base + idx ELSE Base
  BY <1>1, <1>2 DEF KnownUpTo, KeptUpTo
<1>4. HistoryOK'
  BY <1>2, <1>3, HistorySettled
<1>5. ASSUME NEW i \in 1 .. Len(results'), tx' = "begun" \/ pc' = "answer"
      PROVE  BorneOut(w, batch'[i], results'[i], Base + i)
  <2>1. results \in Seq(Replies) /\ Len(results) = idx - 1 /\ idx \in Nat
    BY AtBatch DEF Inv, TypeOK, TaskOK
  <2>2. /\ Len(results') = idx /\ results'[idx] = a
        /\ \A j \in 1 .. Len(results) : results'[j] = results[j]
    BY <2>1
  <2>3. CASE i = idx
    BY <1>5, <2>2, <2>3 DEF Item
  <2>4. CASE i \in 1 .. Len(results)
    BY <1>5, <2>2, <2>4
  <2> QED
    BY <2>1, <2>2, <2>3, <2>4
<1>6. AnswersTrue'
  BY <1>1, <1>5, AnswersSettled
<1> QED
  BY <1>4, <1>6 DEF Truthful

\* An item that leaves the databases as they were.
LEMMA TruthfulItemQuiet ==
  ASSUME Whole, pc = "item", pc' = "item", idx <= Len(batch), idx' = idx + 1, TxOK',
         UNCHANGED <<queue, sent, batch, deferred, reply, tx, work, disk>>,
         NEW a, results' = Append(results, a),
         BorneOut(work, Item, a, Base + idx)
  PROVE  Truthful'
<1>1. SerialDb(work, Base + idx, Base + idx)
  BY AtBatch, SerialMore
<1>2. SerialDb(disk, IF tx = "auto" THEN Base + idx ELSE Base,
                     IF tx = "auto" THEN Base + idx ELSE Base)
  BY <1>1, AtBatch
<1> QED
  BY <1>1, <1>2, AtBatch, TruthfulItem

\* The savepoint is released: the item's effects are in the open transaction,
\* or on disk when there is none any more.
LEMMA TruthfulSavepoint ==
  ASSUME Whole, pc = "item", pc' = "item", idx <= Len(batch), idx' = idx + 1,
         UNCHANGED <<queue, sent, batch, deferred, reply>>,
         ItemAnswers = {}, SavepointSucceeds
  PROVE  Truthful'
<1> DEFINE done == Executed(work, Item, 1)
           w == Recorded(done, Item)
           p == Base + idx
<1>1. /\ Item \in Req /\ Item = sent[p] /\ p \in 1 .. Len(sent) /\ Base \in Nat
      /\ Base + (idx - 1) < p /\ idx \in 1 .. Len(batch) /\ p \in Nat
      /\ idx > Answered
  <2>1. idx \in 1 .. Len(batch) /\ Inv /\ Orderly /\ Base \in Nat /\ Answered = 0
    BY AtBatch
  <2>2. batch[idx] \in Req /\ batch[idx] = sent[p] /\ p \in 1 .. Len(sent)
    BY <2>1, Places, Unheard
  <2> QED
    BY <2>1, <2>2 DEF Item
<1>2. Untouched(work, Item)
  <2>1. Base + (idx - 1) \in Int /\ EachSentOnce
    BY <1>1, AtBatch
  <2> QED
    BY <1>1, <2>1, AtBatch, LaterUntouched
<1>3. OpCount[BodyOf[Item]] = 1
  BY <1>1 DEF Whole, Truthful, TxOK, Batchable, Item
<1>4. /\ SoundDb(done) /\ done \in Databases
      /\ SerialDb(done, p, Base + (idx - 1))
  <2>1. SoundDb(work) /\ Accounted(work, {})
    BY DEF Whole, Strong, Sound
  <2>2. SoundDb(done)
    BY <1>1, <2>1, AtBatch, ExecutedSound
  <2>3. done \in Databases
    BY <1>1, AtBatch, ExecutedType
  <2>4. Base + (idx - 1) \in Int /\ Base + (idx - 1) <= p /\ 1 \in Nat
    BY <1>1
  <2>5. SerialDb(done, p, Base + (idx - 1))
    BY <1>1, <2>4, AtBatch, ExecutedSerial
  <2> QED
    BY <2>2, <2>3, <2>5
<1>5. \A f \in work.dedups : f.id # Item
  <2>1. Lookup(work, Item) = {} /\ KeysUnique(work)
    BY NoEarlyAnswer DEF ItemAnswers, Whole, Strong, Sound, SoundDb
  <2> QED
    BY <2>1 DEF Lookup, KeysUnique
<1>6. WholeDb(done, {Item})
  <2>1. WholeDb(done, {} \cup {Item})
    BY <1>1, <1>2, <1>5, AtBatch, ExecutedWhole DEF Untouched
  <2>2. {} \cup {Item} = {Item}
    OBVIOUS
  <2> QED
    BY <2>1, <2>2
<1>7. RanWhole(done, Item)
  <2>1. Len(work.rows) \in Nat
    BY AtBatch DEF Databases
  <2>2. BlockAt(work, Item, Len(work.rows) - 0, 0)
    BY <1>2, <2>1 DEF BlockAt, Untouched
  <2>3. BlockAt(done, Item, Len(done.rows) - 1, 1) /\ 1 <= Len(done.rows)
    <3> DEFINE n == 0
    <3>1. n \in Nat /\ n + 1 = 1 /\ n <= Len(work.rows)
      BY <2>1
    <3>2. BlockAt(work, Item, Len(work.rows) - n, n)
      BY <2>2
    <3> HIDE DEF n
    <3>3. LET e == Executed(work, Item, n + 1)
          IN  BlockAt(e, Item, Len(e.rows) - (n + 1), n + 1) /\ n + 1 <= Len(e.rows)
      BY <1>1, <3>1, <3>2, AtBatch, ExecutedGrowsBlock
    <3> QED
      BY <3>1, <3>3
  <2>4. Len(done.rows) \in Nat
    BY <1>4 DEF Databases
  <2>5. Len(done.rows) - 1 \in 0 .. Len(done.rows)
    BY <2>3, <2>4
  <2> QED
    BY <1>3, <2>3, <2>5 DEF RanWhole
<1>8. Grown(work, done, Item)
  BY <1>1, AtBatch, ExecutedGrown
<1>9. SerialDb(w, p, p)
  <2>1. GaplessIn(done) /\ Base + (idx - 1) \in Int /\ EachSentOnce
    BY <1>1, <1>4, AtBatch DEF SoundDb
  <2> HIDE DEF done, p
  <2> QED
    BY <1>1, <1>4, <2>1, RecordedSerial
<1>10. WholeDb(w, {})
  BY <1>1, <1>4, <1>6, <1>7, RecordedWhole
<1>11. /\ Grown(done, w, Item) /\ w.rows = done.rows
       /\ TrackCommits => [seq |-> LastSeq(w), req |-> Item] \in w.commits
  BY <1>1, <1>4, RecordedGrown
<1>12. RanWhole(w, Item)
  BY <1>7, <1>11, SameRowsBlock
<1> HIDE DEF done
<1>13. Grown(work, w, Item)
  BY <1>8, <1>11, GrownTwice
<1>14. work' = w /\ disk' = IF tx = "begun" THEN disk ELSE w
  BY DEF SavepointSucceeds, Released, done
<1>15. results' = Append(results, Committed(Item, LastSeq(w))) /\ tx' = tx
  BY <1>14 DEF SavepointSucceeds
<1> HIDE DEF w
<1>16. BorneOut(w, Item, Committed(Item, LastSeq(w)), p)
  <2>1. SentBy(Item, p)
    BY <1>1 DEF SentBy
  <2> QED
    BY <1>1, <1>11, <1>12, <2>1, CommittedBorneOut
<1>17. \A r \in Req : BorneOut(w, r, reply[r], Base)
  <2>1. \A r \in Req : BorneOut(work, r, reply[r], Base + Answered)
    BY AtBatch
  <2> QED
    BY <1>1, <1>13, <2>1, AtBatch, RepliesGrown DEF Item
<1>18. tx = "begun" => \A i \in 1 .. Len(results) : BorneOut(w, batch[i], results[i], Base + i)
  <2> SUFFICES ASSUME tx = "begun", NEW i \in 1 .. Len(results)
               PROVE  BorneOut(w, batch[i], results[i], Base + i)
    OBVIOUS
  <2>1. /\ i \in 1 .. Len(batch) /\ i > Answered /\ i # idx /\ Base + i \in Int /\ Base + i < p
        /\ Inv /\ Orderly /\ EachSentOnce
    BY <1>1, AtBatch
  <2>2. batch[i] \in Req /\ batch[i] # Item
    <3>1. batch[i] \in Req /\ batch[i] = sent[Base + i] /\ Base + i \in 1 .. Len(sent)
      BY <2>1, Places, Unheard
    <3>2. Base + i # p
      BY <2>1
    <3> HIDE DEF p
    <3> QED
      BY <1>1, <2>1, <3>1, <3>2 DEF EachSentOnce
  <2>3. BorneOut(work, batch[i], results[i], Base + i)
    BY AtBatch
  <2> HIDE DEF p
  <2> QED
    BY <1>1, <1>13, <2>1, <2>2, <2>3, BorneOutGrown
<1>19. TxOK'
  <2>1. pc = "item" /\ violated \in BOOLEAN /\ tx \in {"auto", "begun"}
    BY DEF Whole, Strong, Inv, TypeOK, DatabaseOK
  <2> QED
    BY <1>14, <1>15, <2>1 DEF TxOK, Whole, Truthful, Batchable, SavepointSucceeds
<1>20. CASE tx = "begun"
  <2>1. SerialDb(disk, Base, Base) /\ WholeDb(disk, {})
    BY <1>20, AtBatch
  <2>2. disk' = disk
    BY <1>14, <1>20
  <2> QED
    BY <1>9, <1>10, <1>14, <1>15, <1>16, <1>17, <1>18, <1>19, <1>20, <2>1, <2>2, AtBatch,
       TruthfulItem
<1>21. CASE tx = "auto"
  BY <1>9, <1>10, <1>14, <1>15, <1>17, <1>19, <1>21, TruthfulItem
<1> QED
  BY <1>20, <1>21, AtBatch

LEMMA TruthfulBatchItem == ASSUME Whole, BatchItem PROVE Truthful'
<1>1. /\ pc = "item" /\ pc' = "item" /\ idx <= Len(batch) /\ idx' = idx + 1
      /\ UNCHANGED <<queue, sent, batch, deferred, reply>>
  BY DEF BatchItem, channel
<1>2. /\ Inv /\ EachSentOnce /\ idx \in 1 .. Len(batch) /\ Base \in Nat /\ Item \in Req
      /\ Item = sent[Base + idx] /\ Base + idx \in 1 .. Len(sent) /\ Base + (idx - 1) < Base + idx
  <2>1. idx \in 1 .. Len(batch) /\ Inv /\ Orderly /\ Base \in Nat /\ Answered = 0 /\ EachSentOnce
    BY <1>1, AtBatch
  <2>2. batch[idx] \in Req /\ batch[idx] = sent[Base + idx] /\ Base + idx \in 1 .. Len(sent)
    BY <2>1, Places, Unheard
  <2> QED
    BY <2>1, <2>2 DEF Item
<1>3. Untouched(work, Item)
  <2>1. Base + (idx - 1) \in Int
    BY <1>2
  <2> QED
    BY <1>1, <1>2, <2>1, AtBatch, LaterUntouched
<1>4. BorneOut(work, Item, Failed(Item, "error"), Base + idx)
  BY <1>3, FailedBorneOut
<1>5. UNCHANGED sqlite => TxOK'
  BY <1>1 DEF sqlite, TxOK, Whole, Truthful, Batchable
<1>6. CASE \E answer \in ItemAnswers : results' = Append(results, answer) /\ UNCHANGED sqlite
  <2>1. PICK a \in EarlyAnswers(work, Item) : results' = Append(results, a) /\ UNCHANGED sqlite
    BY <1>6 DEF ItemAnswers
  <2>2. Base + (idx - 1) \in Int /\ Base + idx \in Int /\ Base + (idx - 1) <= Base + idx
    BY <1>2
  <2>3. BorneOut(work, Item, a, Base + idx)
    BY <1>1, <1>2, <1>3, <2>2, AtBatch, EarlyBorneOut
  <2> QED
    BY <1>1, <1>5, <2>1, <2>3, TruthfulItemQuiet DEF sqlite
<1>7. CASE SavepointFails
  BY <1>1, <1>4, <1>5, <1>7, TruthfulItemQuiet DEF SavepointFails, sqlite
<1>8. CASE SavepointAborts
  <2>1. /\ work' = disk /\ disk' = disk /\ tx' = "auto" /\ violated' = FALSE /\ "abort" \in Faults
        /\ results' = Append(results, Failed(Item, "error"))
    BY <1>8 DEF SavepointAborts, RollBack, Close
  <2>2. TxOK'
    BY <1>1, <2>1 DEF TxOK, Whole, Truthful, Batchable
  <2>3. SerialDb(disk, Base + idx, Base + idx)
    <3>1. KeptUpTo \in Int /\ Base + idx \in Int /\ KeptUpTo <= Base + idx
      BY <1>1, <1>2, AtBatch
    <3> QED
      BY <1>1, <3>1, AtBatch, SerialMore
  <2> QED
    BY <1>1, <2>1, <2>2, <2>3, AtBatch, TruthfulItem
<1>9. CASE ItemAnswers = {} /\ SavepointSucceeds
  BY <1>1, <1>9, TruthfulSavepoint
<1> QED
  BY <1>6, <1>7, <1>8, <1>9 DEF BatchItem

LEMMA TruthfulBatchCommit == ASSUME Whole, BatchCommit PROVE Truthful'
<1>1. /\ pc = "item" /\ idx > Len(batch) /\ pc' = "answer" /\ idx' = 1
      /\ UNCHANGED <<queue, sent, batch, deferred, reply>>
      /\ tx' = "auto" /\ violated' = FALSE
  BY DEF BatchCommit, channel, Close, RollBack, Answering
<1>2. /\ Inv /\ Orderly /\ EachSentOnce /\ Base \in Nat /\ idx - 1 = Len(batch)
      /\ Len(results) = Len(batch) /\ Len(batch) \in Nat
  BY <1>1, AtBatch
<1>3. CASE /\ tx = "begun" /\ work' = work /\ disk' = work /\ results' = results
  <2>1. /\ SerialDb(work, Base + Len(batch), Base + Len(batch)) /\ WholeDb(work, {})
        /\ \A r \in Req : BorneOut(work, r, reply[r], Base)
        /\ \A i \in 1 .. Len(results) : BorneOut(work, batch[i], results[i], Base + i)
    BY <1>1, <1>2, <1>3, AtBatch
  <2> QED
    BY <1>1, <1>3, <2>1, TruthfulAnswering
<1>4. CASE /\ tx = "auto" \/ violated \/ "commit" \in Faults
           /\ work' = disk /\ disk' = disk
           /\ results' = [i \in 1 .. Len(results) |-> Overridden(results[i])]
  <2>1. SerialDb(disk, Base + Len(batch), Base + Len(batch)) /\ WholeDb(disk, {})
    <3>1. KeptUpTo \in Int /\ Base + Len(batch) \in Int /\ KeptUpTo <= Base + Len(batch)
      BY <1>1, <1>2, AtBatch
    <3> QED
      BY <1>1, <3>1, AtBatch, SerialMore
  <2>2. ~Steadfast
    BY <1>1, <1>4, AtBatch DEF Steadfast, Whole, Truthful, TxOK
  <2>3. ASSUME Undivided, NEW i \in 1 .. Len(batch) PROVE Untouched(disk, batch[i])
    <3>1. tx = "begun" /\ SerialDb(disk, Base, Base)
      BY <1>1, <2>3, AtBatch DEF Undivided
    <3>2. Base + i \in 1 .. Len(sent) /\ batch[i] = sent[Base + i] /\ Base < Base + i
      BY <1>2, Places
    <3> QED
      BY <1>2, <3>1, <3>2, LaterUntouched
  <2>4. ASSUME NEW i \in 1 .. Len(results')
        PROVE  BorneOut(disk, batch[i], results'[i], Base + i)
    <3>1. i \in 1 .. Len(batch) /\ results'[i] = Overridden(results[i]) /\ i \in 1 .. Len(results)
      BY <1>2, <1>4
    <3>2. results[i].status \in {"committed", "failed"}
      BY <1>2, <3>1 DEF Orderly, VerdictsGiven, Verdict
    <3>3. results'[i].status = "failed"
      BY <3>1, <3>2 DEF Overridden, Failed
    <3> QED
      BY <2>2, <2>3, <3>1, <3>3 DEF BorneOut
  <2> QED
    BY <1>1, <1>4, <2>1, <2>4, AtBatch, TruthfulAnswering
<1> QED
  BY <1>3, <1>4 DEF BatchCommit, RollBack, Answering

(***************************************************************************)
(* Handing the answers out, in the order of the batch.                     *)
(***************************************************************************)
LEMMA TruthfulAnswer == ASSUME Whole, Answer PROVE Truthful'
<1>1. /\ pc = "answer" /\ UNCHANGED <<queue, sent, deferred, tx, violated, work, disk>>
      /\ reply' = [reply EXCEPT ![batch[idx]] = results[idx]]
  BY DEF Answer, channel, sqlite
<1>2. /\ Inv /\ Orderly /\ Base \in Nat /\ Answered = idx - 1 /\ idx \in 1 .. Len(batch)
      /\ Len(results) = Len(batch) /\ Len(batch) \in Nat /\ Len(sent) \in Nat
      /\ Base + idx \in Nat
  <2>1. Inv /\ Orderly /\ Base \in Nat /\ Answered = idx - 1
    BY <1>1, Places DEF Whole, Strong, Answered
  <2>2. idx \in 1 .. Len(batch) /\ Len(batch) \in Nat /\ Len(sent) \in Nat
    BY <1>1, <2>1, LineTypes
  <2>3. Len(results) = Len(batch)
    BY <1>1, <2>1 DEF Inv, InHand
  <2> QED
    BY <2>1, <2>2, <2>3
<1>3. tx = "auto" /\ work = disk /\ ~violated
  BY <1>1 DEF Whole, Truthful, TxOK
<1>4. /\ RowsUpTo = Base + Len(batch) /\ KnownUpTo = Base + Len(batch)
      /\ KeptUpTo = Base + Len(batch)
  BY <1>1 DEF RowsUpTo, KnownUpTo, KeptUpTo
<1>5. SerialDb(disk, Base + Len(batch), Base + Len(batch)) /\ WholeDb(disk, {})
  BY <1>4 DEF Whole, Truthful, HistoryOK
<1>6. \A r \in Req : BorneOut(disk, r, reply'[r], Base + idx)
  <2> TAKE r \in Req
  <2>1. CASE r = batch[idx]
    <3>1. reply'[r] = results[idx]
      BY <1>1, <1>2, <2>1, LineTypes DEF Calls
    <3>2. BorneOut(disk, r, results[idx], Base + idx)
      BY <1>1, <1>2, <1>3, <2>1 DEF Whole, Truthful, AnswersTrue
    <3> QED
      BY <3>1, <3>2
  <2>2. CASE r # batch[idx]
    <3>1. reply'[r] = reply[r]
      BY <1>1, <1>2, <2>2, LineTypes DEF Calls
    <3>2. BorneOut(disk, r, reply[r], Base + Answered)
      BY DEF Whole, Truthful, AnswersTrue
    <3>3. Base + Answered <= Base + idx /\ Base + Answered \in Int /\ Base + idx \in Int
      BY <1>2
    <3> QED
      BY <3>1, <3>2, <3>3, BorneOutMore
  <2> QED
    BY <2>1, <2>2
<1>7. CASE MoreToAnswer /\ idx' = idx + 1 /\ UNCHANGED <<pc, batch, results>>
  <2>1. Base' = Base /\ Base' + Answered' = Base + idx
    BY <1>1, <1>2, <1>7 DEF Base, Answered
  <2>2. /\ RowsUpTo' = Base + Len(batch) /\ KnownUpTo' = Base + Len(batch)
        /\ KeptUpTo' = Base + Len(batch)
    BY <1>1, <1>7, <2>1 DEF RowsUpTo, KnownUpTo, KeptUpTo
  <2>3. TxOK'
    BY <1>1, <1>3, <1>7 DEF TxOK
  <2>4. HistoryOK'
    BY <1>1, <1>3, <1>5, <1>7, <2>2, HistorySettled
  <2>5. \A i \in 1 .. Len(results) : BorneOut(disk, batch[i], results[i], Base + i)
    BY <1>1, <1>3 DEF Whole, Truthful, AnswersTrue
  <2>6. AnswersTrue'
    BY <1>1, <1>3, <1>6, <1>7, <2>1, <2>5, AnswersSettled
  <2> QED
    BY <2>3, <2>4, <2>6 DEF Truthful
<1>8. CASE /\ ~MoreToAnswer /\ idx' = 1 /\ batch' = << >> /\ results' = << >>
           /\ pc' = AfterAnswers
  <2>1. idx = Len(batch) /\ Len(batch') = 0 /\ pc' \in {"deferred", "recv"}
    BY <1>2, <1>8 DEF MoreToAnswer, AfterAnswers
  <2>2. Base' = Base + idx
    BY <1>1, <1>2, <2>1, LineTypes DEF Base
  <2>3. TxOK'
    BY <1>1, <1>3, <2>1 DEF TxOK
  <2>4. KeptUpTo <= Base + idx
    BY <1>2, <1>4, <2>1
  <2> QED
    BY <1>1, <1>2, <1>3, <1>6, <2>1, <2>2, <2>3, <2>4, TruthfulRest
<1> QED
  BY <1>7, <1>8 DEF Answer

-----------------------------------------------------------------------------
LEMMA TruthfulInit == Init => Truthful
<1> SUFFICES ASSUME Init PROVE Truthful
  OBVIOUS
<1>1. /\ pc = "recv" /\ tx = "auto" /\ violated = FALSE /\ work = EmptyDb /\ disk = EmptyDb
      /\ \A r \in Req : reply[r] = Mute(r, "none")
  BY DEF Init, Calls
<1>2. TxOK
  BY <1>1 DEF TxOK
<1>3. EmptyDb.rows = << >> /\ EmptyDb.commits = {} /\ EmptyDb.dedups = {}
  BY DEF EmptyDb
<1>4. \A n, m : SerialDb(EmptyDb, n, m)
  BY <1>3 DEF SerialDb
<1>5. WholeDb(EmptyDb, {})
  BY <1>3 DEF WholeDb
<1>6. HistoryOK
  BY <1>1, <1>4, <1>5 DEF HistoryOK
<1>7. AnswersTrue
  BY <1>1, ClosedBorneOut DEF AnswersTrue
<1> QED
  BY <1>2, <1>6, <1>7 DEF Truthful

LEMMA TruthfulStep == Whole /\ [Next]_vars => Truthful'
<1> SUFFICES ASSUME Whole, [Next]_vars PROVE Truthful'
  OBVIOUS
<1>1. CASE \E c \in Commands : Send(c)
  BY <1>1, TruthfulSend
<1>2. CASE Hangup \/ Stopped \/ UNCHANGED vars
  BY <1>2, TruthfulFrame DEF Hangup, Stopped, vars, task, sqlite
<1>3. CASE WriterStep
  BY <1>3, TruthfulReceive, TruthfulReceiveNone, TruthfulDrain, TruthfulTakeDeferred,
     TruthfulApply, TruthfulBegin, TruthfulExec, TruthfulRecord, TruthfulCommit,
     TruthfulBatchBegin, TruthfulBatchItem, TruthfulBatchCommit, TruthfulAnswer, TruthfulExit
     DEF WriterStep
<1>4. CASE Crash
  BY <1>4, TruthfulCrash
<1> QED
  BY <1>1, <1>2, <1>3, <1>4 DEF Next

(***************************************************************************)
(* Both databases hold whole requests in the order of arrival, and every   *)
(* answer, given or about to be given, is borne out by them: whatever      *)
(* fails, is thrown out of its transaction, or dies.                       *)
(***************************************************************************)
THEOREM HistoryTruthful == Spec => [](TypeOK /\ InHand /\ Sound /\ Orderly /\ Truthful)
<1>1. Init => Whole
  BY InvInit, SoundInit, OrderlyInit, TruthfulInit DEF Whole, Strong
<1>2. Whole /\ [Next]_vars => Whole'
  BY InvStep, SoundStep, OrderlyStep, TruthfulStep DEF Whole, Strong
<1>3. Whole => TypeOK /\ InHand /\ Sound /\ Orderly /\ Truthful
  BY DEF Whole, Strong, Inv
<1> QED
  BY <1>1, <1>2, <1>3, PTL DEF Spec

(***************************************************************************)
(* Rows reach the disk in the order in which their requests entered the    *)
(* queue: a batch, a request put aside in the middle of a drain, or a lost *)
(* transaction never lets a later write overtake an earlier one.           *)
(***************************************************************************)
THEOREM ArrivalOrderCorrect == Spec => []ArrivalOrder
<1>1. TypeOK /\ Orderly /\ Truthful => ArrivalOrder
  <2> SUFFICES ASSUME TypeOK, Orderly, Truthful,
                      NEW i \in 1 .. Len(disk.rows), NEW j \in 1 .. Len(disk.rows),
                      i < j, disk.rows[i][1] # disk.rows[j][1]
               PROVE  Before(disk.rows[i][1], disk.rows[j][1])
    BY DEF ArrivalOrder
  <2>1. SerialDb(disk, KeptUpTo, KeptUpTo) /\ EachSentOnce
    BY DEF Truthful, HistoryOK, Orderly
  <2>2. PICK p \in 1 .. Len(sent) : sent[p] = disk.rows[i][1]
    BY <2>1 DEF SerialDb, SentBy
  <2>3. PICK q \in 1 .. Len(sent) : sent[q] = disk.rows[j][1]
    BY <2>1 DEF SerialDb, SentBy
  <2>4. p <= q /\ p # q
    BY <2>1, <2>2, <2>3 DEF SerialDb
  <2>5. Position(disk.rows[i][1]) = p /\ Position(disk.rows[j][1]) = q
    BY <2>1, <2>2, <2>3 DEF Position, EachSentOnce
  <2>6. disk.rows[i][1] \in Sent /\ disk.rows[j][1] \in Sent
    BY <2>2, <2>3 DEF Sent
  <2> QED
    BY <2>4, <2>5, <2>6 DEF Before
<1> QED
  BY <1>1, HistoryTruthful, PTL

(***************************************************************************)
(* The durable rows are those of the recorded requests, each whole and     *)
(* recorded once, in the order of their commit_seq.                        *)
(***************************************************************************)
THEOREM SerialHistoryCorrect == Spec => []SerialHistory
<1>1. TypeOK /\ Sound /\ Orderly /\ Truthful => SerialHistory
  <2> SUFFICES ASSUME TypeOK, Sound, Orderly, Truthful, TrackCommits
               PROVE  /\ \A c \in disk.commits : RanWhole(disk, c.req)
                      /\ \A i \in 1 .. Len(disk.rows) : CommittedIn(disk, disk.rows[i][1])
                      /\ \A i, j \in 1 .. Len(disk.rows) : \A c, d \in disk.commits :
                           (i < j /\ disk.rows[i][1] = c.req /\ disk.rows[j][1] = d.req)
                             => c.seq <= d.seq
                      /\ \A c1, c2 \in disk.commits : c1.req = c2.req => c1 = c2
    BY DEF SerialHistory
  <2>1. /\ SerialDb(disk, KeptUpTo, KeptUpTo) /\ WholeDb(disk, {}) /\ EachSentOnce
        /\ GaplessIn(disk) /\ disk.commits \subseteq Commits
    BY DEF Truthful, HistoryOK, Orderly, Sound, SoundDb, TypeOK, DatabaseOK, Databases
  <2>2. /\ \A c \in disk.commits : RanWhole(disk, c.req)
        /\ \A i \in 1 .. Len(disk.rows) : CommittedIn(disk, disk.rows[i][1])
    BY <2>1 DEF WholeDb
  <2>3. ASSUME NEW i \in 1 .. Len(disk.rows), NEW j \in 1 .. Len(disk.rows),
               NEW c \in disk.commits, NEW d \in disk.commits,
               i < j, disk.rows[i][1] = c.req, disk.rows[j][1] = d.req
        PROVE  c.seq <= d.seq
    <3>1. PICK p \in 1 .. Len(sent) : sent[p] = c.req
      BY <2>1 DEF SerialDb, SentBy
    <3>2. PICK q \in 1 .. Len(sent) : sent[q] = d.req
      BY <2>1 DEF SerialDb, SentBy
    <3>3. p <= q
      BY <2>1, <2>3, <3>1, <3>2 DEF SerialDb
    <3> QED
      BY <2>1, <3>1, <3>2, <3>3 DEF SerialDb
  <2>4. ASSUME NEW c1 \in disk.commits, NEW c2 \in disk.commits, c1.req = c2.req
        PROVE  c1 = c2
    <3>1. PICK p \in 1 .. Len(sent) : sent[p] = c1.req
      BY <2>1 DEF SerialDb, SentBy
    <3>2. c1.seq <= c2.seq /\ c2.seq <= c1.seq
      BY <2>1, <2>4, <3>1 DEF SerialDb
    <3>3. c1.seq \in Nat /\ c2.seq \in Nat
      BY <2>1 DEF Commits
    <3>4. c1.seq = c2.seq
      BY <3>2, <3>3
    <3> QED
      BY <2>1, <3>4 DEF GaplessIn
  <2> QED
    BY <2>2, <2>3, <2>4
<1> QED
  BY <1>1, HistoryTruthful, PTL

(***************************************************************************)
(* A write a caller was told is committed is on disk, whole, under the     *)
(* number it was told, and stays there: also in a batch that was thrown    *)
(* out of its transaction or whose COMMIT failed.                          *)
(***************************************************************************)
THEOREM DurableCorrect == Spec => []CommittedIsDurable
<1>1. Truthful => CommittedIsDurable
  BY DEF Truthful, AnswersTrue, BorneOut, CommittedIsDurable, Has
<1> QED
  BY <1>1, HistoryTruthful, PTL

(***************************************************************************)
(* What was still queued when the writer left, or was sent after that, has *)
(* left nothing: a caller told GatewayClosed can send it elsewhere.        *)
(***************************************************************************)
THEOREM ClosedCorrect == Spec => []ClosedNeverRan
<1>1. Truthful => ClosedNeverRan
  BY DEF Truthful, AnswersTrue, BorneOut, ClosedNeverRan, Has, Unran
<1> QED
  BY <1>1, HistoryTruthful, PTL

(***************************************************************************)
(* Nothing of a request answered as failed is on disk, now or later, if no *)
(* batch can be thrown out of its transaction in the middle.  Without that *)
(* hypothesis the statement is false, and batch_abort_durable shows how.   *)
(***************************************************************************)
THEOREM RolledBackCorrect == ASSUME Undivided PROVE Spec => []FailedMeansRolledBack
<1>1. Truthful => FailedMeansRolledBack
  BY DEF Truthful, AnswersTrue, BorneOut, FailedMeansRolledBack, Has, Unran
<1> QED
  BY <1>1, HistoryTruthful, PTL

(***************************************************************************)
(* A refused key met another write that stays on disk, if no batch can     *)
(* fail as a whole after it answered a conflict with one of its own items. *)
(***************************************************************************)
THEOREM ConflictCorrect == ASSUME Steadfast PROVE Spec => []ConflictIsReal
<1>1. Truthful => ConflictIsReal
  BY DEF Truthful, AnswersTrue, BorneOut, ConflictIsReal, Has
<1> QED
  BY <1>1, HistoryTruthful, PTL

=============================================================================
