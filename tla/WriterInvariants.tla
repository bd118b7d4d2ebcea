-------------------------- MODULE WriterInvariants --------------------------
(***************************************************************************)
(* What the writer promises its callers, stated over Writer.tla.  These    *)
(* are the formulas the runs of MCWriter check, and the inductive          *)
(* invariants with which they are proved: Sound in WriterSoundness,        *)
(* Orderly and Truthful in WriterHistoryProofs, LogGrows in                *)
(* WriterRefinementProofs.                                                 *)
(***************************************************************************)
EXTENDS Writer, SequencesExt

ChannelOK ==
  /\ queue \in Seq(Commands) /\ Len(queue) <= Capacity
  /\ sent \in Seq(Commands)
  /\ senders \in BOOLEAN

TaskOK ==
  /\ pc \in PCs
  /\ batch \in Seq(Req) /\ idx \in Nat \ {0} /\ results \in Seq(Replies)
  /\ deferred \in Seq(Commands) /\ Len(deferred) <= 1

DatabaseOK ==
  /\ tx \in {"auto", "begun"} /\ violated \in BOOLEAN
  /\ work \in Databases /\ disk \in Databases

AnswersOK ==
  /\ reply \in [Calls -> Replies]
  /\ latency \in 0 .. LatencyCap
  /\ offenders \subseteq Req
  /\ crashes \in 0 .. MaxCrashes

TypeOK == ChannelOK /\ TaskOK /\ DatabaseOK /\ AnswersOK

(***************************************************************************)
(* What the thread holds at each point of its loop.  TypeOK is inductive   *)
(* only together with it: it says which of batch, results and deferred a   *)
(* step may take apart (the unwrap of batch.pop in writer.rs 196, and the  *)
(* pairing of senders and responses in apply_batch).                       *)
(***************************************************************************)
InHand ==
  /\ pc \in {"drain", "batchBegin", "item"} => batch # << >>
  /\ pc \in {"drain", "batchBegin"} => idx = 1
  /\ pc \in {"apply", "begin", "exec", "commit"} => Len(batch) = 1
  /\ pc = "item" => Len(results) = idx - 1 /\ idx <= Len(batch) + 1
  /\ pc = "answer" => Len(results) = Len(batch) /\ idx <= Len(batch)
  /\ pc = "deferred" => deferred # << >>

-----------------------------------------------------------------------------
\* The rows of request r in database d are those of its first n operations,
\* in one piece after the first k rows.
BlockAt(d, r, k, n) ==
  /\ k + n <= Len(d.rows)
  /\ \A i \in 1 .. n : d.rows[k + i] = <<r, i>>
  /\ \A i \in 1 .. Len(d.rows) : d.rows[i][1] = r => i \in k + 1 .. k + n

\* Request r ran once and completely.
RanWhole(d, r) == \E k \in 0 .. Len(d.rows) : BlockAt(d, r, k, OpCount[BodyOf[r]])

CommittedIn(d, r) == \E c \in d.commits : c.req = r

\* Nothing in database d is of request r.
Untouched(d, r) ==
  ~CommittedIn(d, r) /\ \A i \in 1 .. Len(d.rows) : d.rows[i][1] # r

Unran(r) == Untouched(disk, r)

SameWrite(r, s) == Deduplicated(r) /\ KeyOf[r] = KeyOf[s] /\ BodyOf[r] = BodyOf[s]

Has(c, status) == reply[c].status = status

(***************************************************************************)
(* The commit sequence counts the committed requests: the numbers on disk  *)
(* are 1 .. counter, each given to exactly one request.  Rolled-back       *)
(* transactions and savepoints give their number back (writer.rs 389-411,  *)
(* 657-681).                                                               *)
(***************************************************************************)
GaplessIn(d) ==
  /\ \A c \in d.commits : c.seq \in 1 .. d.counter
  /\ \A n \in 1 .. d.counter : \E c \in d.commits : c.seq = n
  /\ \A c1, c2 \in d.commits : c1.seq = c2.seq => c1 = c2

SequenceGapless == GaplessIn(disk)

(***************************************************************************)
(* The durable rows are those of some requests run whole, once each, one   *)
(* after another in the order of their commit_seq: atomicity and serial    *)
(* order of apply_inner and apply_batch together.  Checked with            *)
(* track_commits on, where the order is recorded.                          *)
(***************************************************************************)
SerialHistory ==
  TrackCommits =>
    /\ \A c \in disk.commits : RanWhole(disk, c.req)
    /\ \A i \in 1 .. Len(disk.rows) : CommittedIn(disk, disk.rows[i][1])
    /\ \A i, j \in 1 .. Len(disk.rows) : \A c, d \in disk.commits :
         (i < j /\ disk.rows[i][1] = c.req /\ disk.rows[j][1] = d.req) => c.seq <= d.seq
    /\ \A c1, c2 \in disk.commits : c1.req = c2.req => c1 = c2

(***************************************************************************)
(* Two requests with one idempotency key never both take effect, however   *)
(* they are batched, rolled back, cut off by a crash or sent again.        *)
(***************************************************************************)
AtMostOncePerKey ==
  \A r, s \in Req :
     (r # s /\ Deduplicated(r) /\ KeyOf[r] = KeyOf[s]) => Unran(r) \/ Unran(s)

(***************************************************************************)
(* The idempotency record is atomic with the write it stands for: a key is *)
(* remembered for exactly the requests that committed, with the commit_seq *)
(* they committed under (the comment at writer.rs 413-418).                *)
(***************************************************************************)
DedupRecordAtomic ==
  TrackCommits =>
    {[seq |-> d.seq, req |-> d.id] : d \in disk.dedups}
      = {c \in disk.commits : Deduplicated(c.req)}

(***************************************************************************)
(* A caller told "committed" can rely on it: the write it is told about is *)
(* on disk, whole, under the number it is told, and is the caller's own or *)
(* an earlier one with the same key and operations.                        *)
(***************************************************************************)
CommittedIsDurable ==
  \A r \in Req : Has(r, "committed") =>
    LET origin == reply[r].id IN
    /\ origin = r \/ SameWrite(r, origin)
    /\ RanWhole(disk, origin)
    /\ TrackCommits => [seq |-> reply[r].seq, req |-> origin] \in disk.commits

(***************************************************************************)
(* "The transaction was rolled back" (request.rs 88, WriteStatus::Failed): *)
(* nothing of a request answered as failed is on disk, now or later, and   *)
(* its number was not used.                                                *)
(***************************************************************************)
FailedMeansRolledBack == \A r \in Req : Has(r, "failed") => Unran(r)

(***************************************************************************)
(* A caller told GatewayClosed can safely send the write elsewhere: what   *)
(* was still queued when the writer left never ran.                        *)
(***************************************************************************)
ClosedNeverRan == \A r \in Req : Has(r, "closed") => Unran(r)

(***************************************************************************)
(* A request refused as an idempotency conflict really met another write:  *)
(* one with its key and other operations is on disk (error.rs 45-49).      *)
(***************************************************************************)
ConflictIsReal ==
  \A r \in Req : (Has(r, "failed") /\ reply[r].why = "conflict") =>
    \E s \in Req : /\ KeyOf[s] = KeyOf[r] /\ BodyOf[s] # BodyOf[r]
                   /\ RanWhole(disk, s)

(***************************************************************************)
(* "A failure in one batched request rolls back only that request"         *)
(* (docs/integration.md 4.5): a request fails at COMMIT only if its own    *)
(* statements left a constraint violated.                                  *)
(***************************************************************************)
BatchIsolation ==
  \A r \in Req : (Has(r, "failed") /\ reply[r].why = "commit") => r \in offenders

-----------------------------------------------------------------------------
(***************************************************************************)
(* Why a key takes effect once: the inductive form of AtMostOncePerKey,    *)
(* DedupRecordAtomic and SequenceGapless, stated of the durable database   *)
(* and of the one the open transaction sees.                               *)
(***************************************************************************)
\* A key is remembered once, with the request it stands for.
KeysUnique(d) ==
  /\ \A e \in d.dedups : e.key = KeyOf[e.id] /\ Deduplicated(e.id)
  /\ \A e, f \in d.dedups : e.key = f.key => e = f

\* What is remembered is what was committed.
RecordsMatch(d) ==
  TrackCommits =>
    /\ \A e \in d.dedups : [seq |-> e.seq, req |-> e.id] \in d.commits
    /\ \A c \in d.commits : Deduplicated(c.req) =>
         \E e \in d.dedups : e.id = c.req /\ e.seq = c.seq

\* Every effect of a request with a key, but those of the requests in the set
\* unfinished, has its key remembered.
Accounted(d, unfinished) ==
  /\ \A i \in 1 .. Len(d.rows) :
       Deduplicated(d.rows[i][1]) =>
         d.rows[i][1] \in unfinished \/ \E e \in d.dedups : e.id = d.rows[i][1]
  /\ \A c \in d.commits :
       Deduplicated(c.req) => \E e \in d.dedups : e.id = c.req

SoundDb(d) == GaplessIn(d) /\ KeysUnique(d) /\ RecordsMatch(d)

Sound ==
  /\ SoundDb(disk) /\ Accounted(disk, {})
  /\ SoundDb(work) /\ Accounted(work, IF pc = "exec" THEN {Current} ELSE {})
  /\ pc \in {"begin", "exec"} => Lookup(work, Current) = {}

-----------------------------------------------------------------------------
Position(c) == CHOOSE i \in 1 .. Len(sent) : sent[i] = c

Before(c, d) == c \in Sent /\ d \in Sent /\ Position(c) < Position(d)

(***************************************************************************)
(* The channel's order is the order of effect: rows reach the disk in the  *)
(* order in which their requests entered the queue, batched or not, and    *)
(* with a multi-operation request put aside in the middle of a drain.      *)
(***************************************************************************)
ArrivalOrder ==
  \A i, j \in 1 .. Len(disk.rows) :
     (i < j /\ disk.rows[i][1] # disk.rows[j][1])
       => Before(disk.rows[i][1], disk.rows[j][1])

(***************************************************************************)
(* Calls are answered in the order they were queued.  For a checkpoint     *)
(* this makes it a barrier: when it returns, every write queued before it  *)
(* has been decided and answered.                                          *)
(***************************************************************************)
AnsweredInOrder ==
  \A c, d \in Calls : (Before(c, d) /\ ~Unanswered(d)) => ~Unanswered(c)

(***************************************************************************)
(* A oneshot channel is used once: an answer that was given is not given   *)
(* again or changed, by a deferred command handled twice, by the drop of   *)
(* the queue, or by a crash.                                               *)
(***************************************************************************)
AnsweredOnce ==
  [][\A c \in Calls : ~Unanswered(c) => reply'[c] = reply[c]]_vars

-----------------------------------------------------------------------------
(***************************************************************************)
(* Why the order is kept: the inductive form of AnsweredInOrder and        *)
(* AnsweredOnce.  The commands in hand, the one set aside and the queue    *)
(* are, in this order, the end of what was sent; the calls before them and *)
(* the answered part of the batch are those that have an answer.           *)
(***************************************************************************)
Base == Len(sent) - (Len(batch) + Len(deferred) + Len(queue))

Answered == IF pc = "answer" THEN idx - 1 ELSE 0

InLine ==
  /\ Len(batch) + Len(deferred) + Len(queue) <= Len(sent)
  /\ \A i \in 1 .. Len(batch) : batch[i] = sent[Base + i]
  /\ \A i \in 1 .. Len(deferred) : deferred[i] = sent[Base + Len(batch) + i]
  /\ \A i \in 1 .. Len(queue) : queue[i] = sent[Base + Len(batch) + Len(deferred) + i]

EachSentOnce == \A i, j \in 1 .. Len(sent) : sent[i] = sent[j] => i = j

AnsweredPrefix ==
  \A i \in 1 .. Len(sent) :
    sent[i] \in Calls => (Unanswered(sent[i]) <=> i > Base + Answered)

\* Where the thread holds nothing.
HandsFree ==
  /\ pc \in {"recv", "deferred", "exiting", "stopped"} => batch = << >>
  /\ pc \in {"recv", "drain", "exiting", "stopped"} => deferred = << >>
  /\ pc = "stopped" => queue = << >>

Verdict(a) == a.status \in {"committed", "failed"}

VerdictsGiven == \A i \in 1 .. Len(results) : Verdict(results[i])

Orderly == InLine /\ EachSentOnce /\ AnsweredPrefix /\ HandsFree /\ VerdictsGiven

-----------------------------------------------------------------------------
(***************************************************************************)
(* Why effects keep that order and answers stay true.                      *)
(***************************************************************************)
\* r is one of the first n commands sent.
SentBy(r, n) == \E p \in 1 .. Len(sent) : p <= n /\ sent[p] = r

\* The connection: inside a transaction, between two, or thrown out of one.
TxOK ==
  /\ pc \in {"exec", "commit"} => tx = "begun"
  /\ pc \notin {"exec", "commit", "item"} => tx = "auto"
  /\ tx = "auto" => work = disk /\ ~violated
  /\ violated => "deferred" \in Faults
  /\ pc = "item" /\ tx = "auto" => "abort" \in Faults
  /\ pc \in {"apply", "begin"} => idx = 1
  /\ pc \in {"drain", "batchBegin", "item"} =>
       Batching /\ \A i \in 1 .. Len(batch) : Batchable(batch[i])

\* How many requests of the batch may have left rows, or a record, in work;
\* and how many may have left something on disk.
RowsUpTo == Base + CASE pc \in {"exec", "commit"} -> 1
                     [] pc = "item"              -> idx - 1
                     [] pc = "answer"            -> Len(batch)
                     [] OTHER                    -> 0
KnownUpTo == IF pc = "exec" THEN Base ELSE RowsUpTo
KeptUpTo == IF pc = "answer" \/ (pc = "item" /\ tx = "auto") THEN RowsUpTo ELSE Base

\* The rows of d are of the first n requests sent, its records of the first m,
\* both in the order of sending.
SerialDb(d, n, m) ==
  /\ \A i \in 1 .. Len(d.rows) : SentBy(d.rows[i][1], n)
  /\ \A c \in d.commits : SentBy(c.req, m)
  /\ \A e \in d.dedups : SentBy(e.id, m)
  /\ \A i, j \in 1 .. Len(d.rows), p, q \in 1 .. Len(sent) :
       (i < j /\ sent[p] = d.rows[i][1] /\ sent[q] = d.rows[j][1]) => p <= q
  /\ \A c1, c2 \in d.commits, p, q \in 1 .. Len(sent) :
       (sent[p] = c1.req /\ sent[q] = c2.req /\ p <= q) => c1.seq <= c2.seq

\* Every request in d ran whole and, but those in unfinished, is recorded.
WholeDb(d, unfinished) ==
  /\ \A i \in 1 .. Len(d.rows) :
       \/ d.rows[i][1] \in unfinished
       \/ RanWhole(d, d.rows[i][1]) /\ (TrackCommits => CommittedIn(d, d.rows[i][1]))
  /\ \A c \in d.commits : RanWhole(d, c.req)
  /\ \A e \in d.dedups : RanWhole(d, e.id) /\ e.body = BodyOf[e.id]

\* The request being executed has left its first operations at the end of
\* work, and no record.
Partial ==
  /\ idx <= OpCount[BodyOf[Current]] + 1
  /\ idx - 1 <= Len(work.rows)
  /\ BlockAt(work, Current, Len(work.rows) - (idx - 1), idx - 1)
  /\ ~CommittedIn(work, Current)

\* After the last operation: all of the request is at hand to be committed.
Complete ==
  /\ RanWhole(work, Current)
  /\ TrackCommits => [seq |-> LastSeq(work), req |-> Current] \in work.commits

HistoryOK ==
  /\ SerialDb(disk, KeptUpTo, KeptUpTo) /\ WholeDb(disk, {})
  /\ SerialDb(work, RowsUpTo, KnownUpTo)
  /\ WholeDb(work, IF pc = "exec" THEN {Current} ELSE {})
  /\ pc = "exec" => Partial
  /\ pc = "commit" => Complete

\* When an answer of "failed" is sure to mean what it says: no batch can lose
\* its transaction in the middle.
Undivided == ~(Batching /\ "abort" \in Faults)

\* When a conflict is sure to be with a write that stays: the other write was
\* on disk before, or the batch it is in cannot fail as a whole.
Steadfast == ~Batching \/ {"abort", "deferred", "commit"} \cap Faults = {}

\* Answer a, given to request r, is borne out by database d and was decided
\* by the first n requests sent.
BorneOut(d, r, a, n) ==
  /\ a.status = "committed" =>
       /\ a.id \in Req /\ SentBy(a.id, n)
       /\ a.id = r \/ SameWrite(r, a.id)
       /\ RanWhole(d, a.id)
       /\ TrackCommits => [seq |-> a.seq, req |-> a.id] \in d.commits
  /\ (a.status = "failed" /\ Undivided) => Untouched(d, r)
  /\ a.status = "closed" => Untouched(d, r)
  /\ (a.status = "failed" /\ a.why = "conflict" /\ Steadfast) =>
       \E s \in Req : /\ SentBy(s, n) /\ KeyOf[s] = KeyOf[r] /\ BodyOf[s] # BodyOf[r]
                      /\ RanWhole(d, s)

AnswersTrue ==
  /\ \A r \in Req : /\ BorneOut(disk, r, reply[r], Base + Answered)
                     /\ BorneOut(work, r, reply[r], Base + Answered)
  /\ pc \in {"item", "answer"} => \A i \in 1 .. Len(results) :
       (tx = "begun" \/ pc = "answer") =>
         BorneOut(work, batch[i], results[i], Base + i)

Truthful == TxOK /\ HistoryOK /\ AnswersTrue

-----------------------------------------------------------------------------
(***************************************************************************)
(* Why a commit only adds to the durable log: the open transaction keeps   *)
(* every number on disk, and has at most one new one for each request of   *)
(* the batch it is done with.                                              *)
(***************************************************************************)
Numbered == CASE pc = "commit" -> 1
              [] pc = "item"   -> idx - 1
              [] OTHER         -> 0

Prolongs ==
  /\ disk.counter <= work.counter /\ work.counter <= disk.counter + Numbered
  /\ disk.commits \subseteq work.commits
  /\ \A c \in work.commits \ disk.commits :
       c.seq > disk.counter /\ \E i \in 1 .. Len(batch) : c.req = batch[i]

\* A response that is no commit carries no number.
Unnumbered ==
  \A i \in 1 .. Len(results) : results[i].status = "failed" => results[i].seq = NoSeq

LogGrows == Prolongs /\ Unnumbered

(***************************************************************************)
(* Every call that entered the queue is answered, if only by GatewayClosed *)
(* or by the death of the process, and no caller waits for ever.           *)
(***************************************************************************)
EveryCallAnswered == \A c \in Calls : (c \in Sent) ~> ~Unanswered(c)

(***************************************************************************)
(* A queued Shutdown ends the thread, also when it is found in the middle  *)
(* of a drain (or the process dies first).                                 *)
(***************************************************************************)
ShutdownCompletes == (Shutdown \in ToSet(queue)) ~> (pc = "stopped" \/ crashes > 0)
=============================================================================
