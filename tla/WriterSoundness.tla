--------------------------- MODULE WriterSoundness ---------------------------
(***************************************************************************)
(* Proof that an idempotency key takes effect at most once, that its       *)
(* record is atomic with the write it stands for, and that the commit      *)
(* sequence has no gaps: for every set of requests, every batch size and   *)
(* every combination of statement errors, lost transactions, failed        *)
(* commits and crashes.                                                    *)
(***************************************************************************)
EXTENDS WriterProofs

-----------------------------------------------------------------------------
(***************************************************************************)
(* What the statements of a request do to a sound database.                *)
(***************************************************************************)
LEMMA ExecutedSound ==
  ASSUME NEW d \in Databases, NEW r \in Req, NEW i \in Nat,
         SoundDb(d), NEW X, Accounted(d, X)
  PROVE  /\ SoundDb(Executed(d, r, i))
         /\ Accounted(Executed(d, r, i), X \cup {r})
         /\ Lookup(Executed(d, r, i), r) = Lookup(d, r)
<1> DEFINE e == Executed(d, r, i)
<1>1. /\ e.rows = Append(d.rows, <<r, i>>) /\ d.rows \in Seq(Rows)
      /\ e.counter = d.counter /\ e.commits = d.commits /\ e.dedups = d.dedups
  BY DEF Executed, Databases
<1>2. SoundDb(e)
  BY <1>1 DEF SoundDb, GaplessIn, KeysUnique, RecordsMatch
<1>3. Lookup(e, r) = Lookup(d, r)
  BY <1>1 DEF Lookup
<1>4. ASSUME NEW k \in 1 .. Len(e.rows), Deduplicated(e.rows[k][1])
      PROVE  e.rows[k][1] \in X \cup {r} \/ \E f \in e.dedups : f.id = e.rows[k][1]
  <2>1. CASE k = Len(d.rows) + 1
    <3>1. e.rows[k] = <<r, i>>
      BY <1>1, <2>1
    <3> QED
      BY <3>1
  <2>2. CASE k # Len(d.rows) + 1
    <3>1. k \in 1 .. Len(d.rows) /\ e.rows[k] = d.rows[k]
      BY <1>1, <2>2
    <3> QED
      BY <1>1, <1>4, <3>1 DEF Accounted
  <2> QED
    BY <2>1, <2>2
<1>5. Accounted(e, X \cup {r})
  BY <1>1, <1>4 DEF Accounted
<1> QED
  BY <1>2, <1>3, <1>5

\* Only the inserted commit is new, and it has the next number.
LEMMA TrackedSound ==
  ASSUME NEW d \in Databases, NEW r \in Req, GaplessIn(d)
  PROVE  GaplessIn(Tracked(d, r))
<1> DEFINE t == Tracked(d, r)
           new == [seq |-> d.counter + 1, req |-> r]
<1>1. /\ t.counter = d.counter + 1 /\ t.commits = d.commits \cup {new}
      /\ d.counter \in Nat /\ d.commits \subseteq Commits
  BY DEF Tracked, Databases
<1>2. \A c \in d.commits : c.seq \in 1 .. d.counter
  BY DEF GaplessIn
<1>3. new.seq = d.counter + 1
  OBVIOUS
<1> HIDE DEF t, new
<1>4. \A c \in t.commits : c.seq \in 1 .. t.counter
  BY <1>1, <1>2, <1>3
<1>5. ASSUME NEW n \in 1 .. t.counter PROVE \E c \in t.commits : c.seq = n
  <2>1. CASE n = d.counter + 1
    BY <1>1, <1>3, <2>1
  <2>2. CASE n # d.counter + 1
    <3>1. n \in 1 .. d.counter
      BY <1>1, <2>2
    <3> QED
      BY <1>1, <3>1 DEF GaplessIn
  <2> QED
    BY <2>1, <2>2
<1>6. ASSUME NEW c1 \in t.commits, NEW c2 \in t.commits, c1.seq = c2.seq
      PROVE  c1 = c2
  <2>1. CASE c1 \in d.commits /\ c2 \in d.commits
    BY <1>6, <2>1 DEF GaplessIn
  <2>2. CASE c1 = new \/ c2 = new
    <3>1. \A c \in d.commits : c.seq # d.counter + 1
      BY <1>1, <1>2
    <3> QED
      BY <1>1, <1>3, <1>6, <2>2, <3>1
  <2> QED
    BY <1>1, <2>1, <2>2
<1> QED
  BY <1>4, <1>5, <1>6 DEF GaplessIn, t

\* Both bookkeeping inserts of a request whose key is not remembered yet.
LEMMA RecordedSound ==
  ASSUME NEW d \in Databases, NEW r \in Req,
         SoundDb(d), Accounted(d, {r}), Lookup(d, r) = {}
  PROVE  SoundDb(Recorded(d, r)) /\ Accounted(Recorded(d, r), {})
<1> DEFINE t == IF TrackCommits THEN Tracked(d, r) ELSE d
           n == LastSeq(t)
           e == Recorded(d, r)
           new == [key |-> KeyOf[r], body |-> BodyOf[r], id |-> r, seq |-> n]
<1>1. /\ t \in Databases /\ t.rows = d.rows /\ t.dedups = d.dedups
      /\ t.commits = d.commits \cup (IF TrackCommits THEN {[seq |-> n, req |-> r]} ELSE {})
  BY TrackedType DEF Tracked, Databases, LastSeq
<1>2. GaplessIn(t)
  BY TrackedSound DEF SoundDb
<1>3. Lookup(t, r) = {}
  BY <1>1 DEF Lookup
<1>4. /\ e.rows = d.rows /\ e.counter = t.counter /\ e.commits = t.commits
      /\ e.dedups = d.dedups \cup (IF Deduplicated(r) THEN {new} ELSE {})
  BY <1>1, <1>3 DEF Recorded, Remembered, Databases
<1>5. new.key = KeyOf[r] /\ new.id = r /\ new.seq = n
  OBVIOUS
<1>6. Deduplicated(r) => \A f \in d.dedups : f.key # KeyOf[r]
  BY DEF Lookup
<1>7. GaplessIn(e)
  BY <1>2, <1>4 DEF GaplessIn
<1> HIDE DEF t, n, e, new
<1>8. KeysUnique(e)
  BY <1>4, <1>5, <1>6 DEF SoundDb, KeysUnique
<1>9. RecordsMatch(e)
  <2> SUFFICES ASSUME TrackCommits PROVE RecordsMatch(e)
    BY DEF RecordsMatch
  <2>1. e.commits = d.commits \cup {[seq |-> n, req |-> r]}
    BY <1>1, <1>4
  <2>2. \A f \in e.dedups : [seq |-> f.seq, req |-> f.id] \in e.commits
    BY <1>4, <1>5, <2>1 DEF SoundDb, RecordsMatch
  <2>3. ASSUME NEW c \in e.commits, Deduplicated(c.req)
        PROVE  \E f \in e.dedups : f.id = c.req /\ f.seq = c.seq
    <3>1. CASE c \in d.commits
      BY <1>4, <2>3, <3>1 DEF SoundDb, RecordsMatch
    <3>2. CASE c = [seq |-> n, req |-> r]
      BY <1>4, <1>5, <2>3, <3>2
    <3> QED
      BY <2>1, <3>1, <3>2
  <2> QED
    BY <2>2, <2>3 DEF RecordsMatch
<1>10. Accounted(e, {})
  <2>1. Deduplicated(r) => \E f \in e.dedups : f.id = r
    BY <1>4, <1>5
  <2>2. ASSUME NEW k \in 1 .. Len(e.rows), Deduplicated(e.rows[k][1])
        PROVE  \E f \in e.dedups : f.id = e.rows[k][1]
    BY <1>4, <2>1, <2>2 DEF Accounted
  <2>3. ASSUME NEW c \in e.commits, Deduplicated(c.req)
        PROVE  \E f \in e.dedups : f.id = c.req
    BY <1>1, <1>4, <2>1, <2>3 DEF Accounted
  <2> QED
    BY <2>2, <2>3 DEF Accounted
<1> QED
  BY <1>7, <1>8, <1>9, <1>10 DEF SoundDb, e

\* An empty lookup is what lets a request go on to execute.
LEMMA NoEarlyAnswer ==
  ASSUME NEW d, NEW r, EarlyAnswers(d, r) = {}
  PROVE  Lookup(d, r) = {}
BY DEF EarlyAnswers

-----------------------------------------------------------------------------
(***************************************************************************)
(* Sound is inductive together with Inv.  Most steps either leave both     *)
(* databases alone or end the transaction.                                 *)
(***************************************************************************)
Strong == Inv /\ Sound

LEMMA SoundInit == Init => Sound
<1> SUFFICES ASSUME Init PROVE Sound
  OBVIOUS
<1>1. SoundDb(EmptyDb) /\ Accounted(EmptyDb, {})
  BY DEF EmptyDb, SoundDb, GaplessIn, KeysUnique, RecordsMatch, Accounted
<1> QED
  BY <1>1 DEF Init, Sound

\* The databases and the request being executed stay.
LEMMA SoundFrame ==
  ASSUME Sound, UNCHANGED <<work, disk>>,
         \/ UNCHANGED <<pc, batch>>
         \/ pc # "exec" /\ pc' \notin {"begin", "exec"}
  PROVE  Sound'
<1>1. SoundDb(disk)' /\ Accounted(disk, {})' /\ SoundDb(work)'
  BY DEF Sound, SoundDb, GaplessIn, KeysUnique, RecordsMatch, Accounted
<1>2. CASE UNCHANGED <<pc, batch>>
  BY <1>1, <1>2 DEF Sound, Accounted, Current, Lookup
<1>3. CASE pc # "exec" /\ pc' \notin {"begin", "exec"}
  BY <1>1, <1>3 DEF Sound, Accounted
<1> QED
  BY <1>2, <1>3

\* Once no request is being executed, both databases are complete.
LEMMA SoundSettled ==
  ASSUME NEW w, NEW f, SoundDb(w), Accounted(w, {}), SoundDb(f), Accounted(f, {}),
         work' = w, disk' = f, pc' \notin {"begin", "exec"}
  PROVE  Sound'
BY DEF Sound

LEMMA SoundRollBack ==
  ASSUME Sound, RollBack, pc' \notin {"begin", "exec"}
  PROVE  Sound'
BY SoundSettled DEF Sound, RollBack

LEMMA SoundCommitted ==
  ASSUME Sound, pc # "exec", work' = work, disk' = work, pc' \notin {"begin", "exec"}
  PROVE  Sound'
BY SoundSettled DEF Sound

-----------------------------------------------------------------------------
\* Outside "exec", a match on a command opens no transaction.
LEMMA SoundTake ==
  ASSUME Strong, pc # "exec", NEW c \in Commands, Take(c), UNCHANGED <<work, disk>>
  PROVE  Sound'
<1>1. pc' \in {"drain", "apply", "recv", "exiting"}
  BY DEF Take
<1> QED
  BY <1>1, SoundFrame DEF Strong

LEMMA SoundReceive == ASSUME Strong, Receive PROVE Sound'
<1>1. Head(queue) \in Commands
  BY DEF Strong, Inv, TypeOK, ChannelOK, Receive
<1> QED
  BY <1>1, SoundTake DEF Receive, sqlite

LEMMA SoundTakeDeferred == ASSUME Strong, TakeDeferred PROVE Sound'
<1>1. deferred[1] \in Commands
  BY DEF Strong, Inv, TypeOK, TaskOK, InHand, TakeDeferred
<1> QED
  BY <1>1, SoundTake DEF TakeDeferred, sqlite

LEMMA SoundApply == ASSUME Strong, Apply PROVE Sound'
<1>1. pc = "apply" /\ UNCHANGED <<work, disk, batch>>
  BY DEF Apply, sqlite
<1>2. CASE pc' = "answer"
  BY <1>1, <1>2, SoundFrame DEF Strong
<1>3. CASE EarlyAnswers(work, Current) = {} /\ pc' = "begin"
  <2>1. Lookup(work, Current) = {}
    BY <1>3, NoEarlyAnswer
  <2>2. Lookup(work, Current)' = {}
    BY <1>1, <2>1 DEF Lookup, Current
  <2> QED
    BY <1>1, <1>3, <2>2 DEF Strong, Sound
<1> QED
  BY <1>2, <1>3 DEF Apply, Answering

\* The transaction starts from a database that accounts for every request.
LEMMA SoundBegin == ASSUME Strong, Begin PROVE Sound'
<1>1. pc = "begin" /\ UNCHANGED <<work, disk, batch>>
  BY DEF Begin
<1>2. CASE pc' = "answer"
  BY <1>1, <1>2, SoundFrame DEF Strong
<1>3. CASE pc' = "exec"
  <2>1. Accounted(work, {Current})
    BY <1>1 DEF Strong, Sound, Accounted
  <2> QED
    BY <1>1, <1>3, <2>1 DEF Strong, Sound, Current, Lookup
<1> QED
  BY <1>2, <1>3 DEF Begin, Answering

LEMMA SoundExec == ASSUME Strong, Exec PROVE Sound'
<1>1. pc = "exec" /\ batch' = batch /\ Current \in Req /\ work \in Databases /\ idx \in Nat
  BY CurrentType DEF Exec, Strong, Inv, TypeOK, DatabaseOK, TaskOK
<1>2. CASE StatementFails
  BY <1>2, SoundRollBack DEF StatementFails, Answering, Strong
<1>3. CASE work' = Executed(work, Current, idx) /\ UNCHANGED <<pc, disk>>
  <2>1. SoundDb(work) /\ Accounted(work, {Current}) /\ Lookup(work, Current) = {}
    BY <1>1 DEF Strong, Sound
  <2>2. {Current} \cup {Current} = {Current}
    OBVIOUS
  <2>3. /\ SoundDb(Executed(work, Current, idx))
        /\ Accounted(Executed(work, Current, idx), {Current})
        /\ Lookup(Executed(work, Current, idx), Current) = {}
    BY <1>1, <2>1, <2>2, ExecutedSound
  <2>4. Current' = Current
    BY <1>1 DEF Current
  <2> QED
    BY <1>1, <1>3, <2>3, <2>4 DEF Strong, Sound
<1> QED
  BY <1>2, <1>3 DEF Exec

LEMMA SoundRecord == ASSUME Strong, Record PROVE Sound'
<1>1. pc = "exec" /\ Current \in Req /\ work \in Databases
  BY CurrentType DEF Record, Strong, Inv, TypeOK, DatabaseOK
<1>2. CASE StatementFails
  BY <1>2, SoundRollBack DEF StatementFails, Answering, Strong
<1>3. CASE work' = Recorded(work, Current) /\ pc' = "commit" /\ disk' = disk
  <2>1. SoundDb(work) /\ Accounted(work, {Current}) /\ Lookup(work, Current) = {}
    BY <1>1 DEF Strong, Sound
  <2>2. SoundDb(Recorded(work, Current)) /\ Accounted(Recorded(work, Current), {})
    BY <1>1, <2>1, RecordedSound
  <2> QED
    BY <1>3, <2>2, SoundSettled DEF Strong, Sound
<1> QED
  BY <1>2, <1>3 DEF Record

LEMMA SoundCommit == ASSUME Strong, Commit PROVE Sound'
<1>1. pc = "commit" /\ pc' = "answer"
  BY DEF Commit, Answering
<1>2. CASE work' = work /\ disk' = work
  BY <1>1, <1>2, SoundCommitted DEF Strong
<1>3. CASE RollBack
  BY <1>1, <1>3, SoundRollBack DEF Strong
<1> QED
  BY <1>2, <1>3 DEF Commit

-----------------------------------------------------------------------------
\* A batch item sees what the items before it recorded, in the database of the
\* open transaction; this is what keeps a key unique within a batch.
LEMMA SoundBatchItem == ASSUME Strong, BatchItem PROVE Sound'
<1>1. /\ pc = "item" /\ pc' = pc /\ idx \in 1 .. Len(batch) /\ batch \in Seq(Req)
      /\ work \in Databases
  BY DEF BatchItem, Strong, Inv, TypeOK, TaskOK, DatabaseOK
<1>2. Item \in Req
  BY <1>1 DEF Item
<1>3. SoundDb(work) /\ Accounted(work, {}) /\ SoundDb(disk) /\ Accounted(disk, {})
  BY <1>1 DEF Strong, Sound
<1>4. CASE UNCHANGED sqlite
  BY <1>1, <1>4, SoundFrame DEF Strong, sqlite
<1>5. CASE ItemAnswers = {} /\ SavepointSucceeds
  <2> DEFINE done == Executed(work, Item, 1)
             after == Recorded(done, Item)
  <2>1. Lookup(work, Item) = {}
    BY <1>5, NoEarlyAnswer DEF ItemAnswers
  <2>2. {} \cup {Item} = {Item}
    OBVIOUS
  <2>3. /\ done \in Databases /\ SoundDb(done) /\ Accounted(done, {Item})
        /\ Lookup(done, Item) = {}
    <3>1. /\ SoundDb(done) /\ Accounted(done, {} \cup {Item})
          /\ Lookup(done, Item) = Lookup(work, Item)
      BY <1>1, <1>2, <1>3, ExecutedSound
    <3>2. done \in Databases
      BY <1>1, <1>2, ExecutedType
    <3> QED
      BY <2>1, <2>2, <3>1, <3>2
  <2>4. SoundDb(after) /\ Accounted(after, {})
    BY <1>2, <2>3, RecordedSound
  <2>5. work' = after /\ disk' \in {disk, after}
    BY <1>5 DEF SavepointSucceeds, Released
  <2> QED
    BY <1>1, <1>3, <2>4, <2>5, SoundSettled
<1>6. CASE SavepointAborts
  BY <1>1, <1>6, SoundRollBack DEF SavepointAborts, Strong
<1> QED
  BY <1>4, <1>5, <1>6 DEF BatchItem, SavepointFails

LEMMA SoundBatchCommit == ASSUME Strong, BatchCommit PROVE Sound'
<1>1. pc = "item" /\ pc' = "answer"
  BY DEF BatchCommit, Answering
<1>2. CASE work' = work /\ disk' = work
  BY <1>1, <1>2, SoundCommitted DEF Strong
<1>3. CASE RollBack
  BY <1>1, <1>3, SoundRollBack DEF Strong
<1> QED
  BY <1>2, <1>3 DEF BatchCommit

\* The steps that touch no database and execute no request.
LEMMA SoundElsewhere ==
  ASSUME Strong, ReceiveNone \/ Drain \/ BatchBegin \/ Answer \/ Exit
  PROVE  Sound'
<1>1. CASE Drain
  <2>1. pc = "drain" /\ pc' \in {"drain", "apply", "batchBegin"}
    BY <1>1 DEF Drain
  <2> QED
    BY <1>1, <2>1, SoundFrame DEF Drain, sqlite, Strong
<1>2. CASE BatchBegin
  BY <1>2, SoundFrame DEF BatchBegin, Answering, Strong
<1>3. CASE Answer
  <2>1. pc = "answer" /\ pc' \in {"answer", "deferred", "recv"}
    BY <1>3 DEF Answer, AfterAnswers
  <2> QED
    BY <1>3, <2>1, SoundFrame DEF Answer, sqlite, Strong
<1>4. CASE ReceiveNone \/ Exit
  BY <1>4, SoundFrame DEF ReceiveNone, Exit, sqlite, Strong
<1> QED
  BY <1>1, <1>2, <1>3, <1>4

LEMMA SoundStep == Strong /\ [Next]_vars => Sound'
<1> SUFFICES ASSUME Strong, [Next]_vars PROVE Sound'
  OBVIOUS
<1>1. ASSUME NEW c \in Commands, Send(c) PROVE Sound'
  BY <1>1, SoundFrame DEF Send, sqlite, task, Strong
<1>2. CASE Hangup \/ Stopped \/ UNCHANGED vars
  BY <1>2, SoundFrame DEF Hangup, Stopped, vars, sqlite, task, Strong
<1>3. CASE WriterStep
  BY <1>3, SoundReceive, SoundTakeDeferred, SoundApply, SoundBegin, SoundExec, SoundRecord,
     SoundCommit, SoundBatchItem, SoundBatchCommit, SoundElsewhere DEF WriterStep
<1>4. CASE Crash
  BY <1>4, SoundRollBack DEF Crash, Strong
<1> QED
  BY <1>1, <1>2, <1>3, <1>4 DEF Next

(***************************************************************************)
(* Both databases, the durable one and the one the open transaction sees,  *)
(* stay sound.                                                             *)
(***************************************************************************)
THEOREM DatabasesSound == Spec => [](TypeOK /\ InHand /\ Sound)
<1>1. Init => Strong
  BY InvInit, SoundInit DEF Strong
<1>2. Strong /\ [Next]_vars => Strong'
  BY InvStep, SoundStep DEF Strong
<1>3. Strong <=> TypeOK /\ InHand /\ Sound
  BY DEF Strong, Inv
<1> QED
  BY <1>1, <1>2, <1>3, PTL DEF Spec

(***************************************************************************)
(* The commit_seq values on disk are 1, 2, ... without a gap or a repeat,  *)
(* although failed requests, savepoints and batches take numbers too.      *)
(***************************************************************************)
THEOREM GaplessCorrect == Spec => []SequenceGapless
<1>1. Sound => SequenceGapless
  BY DEF Sound, SoundDb, SequenceGapless
<1> QED
  BY <1>1, DatabasesSound, PTL

(***************************************************************************)
(* A key is remembered for exactly the requests that committed, with their *)
(* own commit_seq: the dedup record is atomic with the write.              *)
(***************************************************************************)
THEOREM DedupCorrect == Spec => []DedupRecordAtomic
<1>1. TypeOK /\ Sound => DedupRecordAtomic
  <2> SUFFICES ASSUME TypeOK, Sound, TrackCommits
               PROVE  {[seq |-> d.seq, req |-> d.id] : d \in disk.dedups}
                        = {c \in disk.commits : Deduplicated(c.req)}
    BY DEF DedupRecordAtomic
  <2>1. KeysUnique(disk) /\ RecordsMatch(disk) /\ disk.commits \subseteq Commits
    BY DEF Sound, SoundDb, TypeOK, DatabaseOK, Databases
  <2>2. ASSUME NEW d \in disk.dedups
        PROVE  [seq |-> d.seq, req |-> d.id] \in {c \in disk.commits : Deduplicated(c.req)}
    BY <2>1 DEF KeysUnique, RecordsMatch
  <2>3. ASSUME NEW c \in disk.commits, Deduplicated(c.req)
        PROVE  \E d \in disk.dedups : c = [seq |-> d.seq, req |-> d.id]
    <3>1. c = [seq |-> c.seq, req |-> c.req]
      BY <2>1 DEF Commits
    <3>2. PICK d \in disk.dedups : d.id = c.req /\ d.seq = c.seq
      BY <2>1, <2>3 DEF RecordsMatch
    <3> QED
      BY <3>1, <3>2
  <2> QED
    BY <2>2, <2>3
<1> QED
  BY <1>1, DatabasesSound, PTL

(***************************************************************************)
(* Of the requests that share an idempotency key at most one ever leaves a *)
(* row or a commit_seq in the durable database.                            *)
(***************************************************************************)
THEOREM OncePerKeyCorrect == Spec => []AtMostOncePerKey
<1>1. Sound => AtMostOncePerKey
  <2> SUFFICES ASSUME Sound,
                      NEW r \in Req, NEW s \in Req, Deduplicated(r), KeyOf[r] = KeyOf[s],
                      ~Unran(r), ~Unran(s)
               PROVE  r = s
    BY DEF AtMostOncePerKey
  <2>1. KeysUnique(disk) /\ Accounted(disk, {})
    BY DEF Sound, SoundDb
  <2>2. Deduplicated(s)
    BY DEF Deduplicated
  <2>3. ASSUME NEW q \in Req, Deduplicated(q), ~Unran(q)
        PROVE  \E e \in disk.dedups : e.id = q
    BY <2>1, <2>3 DEF Accounted, Unran, Untouched, CommittedIn
  <2>4. PICK e \in disk.dedups : e.id = r
    BY <2>3
  <2>5. PICK f \in disk.dedups : f.id = s
    BY <2>2, <2>3
  <2>6. e.key = f.key
    BY <2>1, <2>4, <2>5 DEF KeysUnique
  <2> QED
    BY <2>1, <2>4, <2>5, <2>6 DEF KeysUnique
<1> QED
  BY <1>1, DatabasesSound, PTL
=============================================================================
