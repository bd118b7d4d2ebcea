------------------------------ MODULE Database ------------------------------
(***************************************************************************)
(* What the writer keeps in SQLite: the rows its callers' statements       *)
(* produce, the table squeuelite_commits (section 12 of the source's       *)
(* comments) and the table squeuelite_requests (section 13).  A database   *)
(* is a value, so that the open transaction and the durable file are two   *)
(* databases, and a rollback is forgetting one of them.                    *)
(*                                                                         *)
(* A request's SQL is abstracted to a body: what tells two requests apart  *)
(* is whether their operations are equal (the request_hash), how many      *)
(* operations there are, and whether validate_sql refuses one of them.     *)
(***************************************************************************)
EXTENDS Naturals, Sequences, FiniteSets

CONSTANTS
  Req,            \* write requests (WriteRequest); one retry is another request
  Key, NoKey,     \* idempotency keys; NoKey is idempotency_key = None
  Body,           \* operation lists, up to equality of their JSON
  KeyOf, BodyOf,  \* the key and the operations of a request
  OpCount,        \* how many operations a body has
  Rejected,       \* the bodies validate_sql refuses under the configuration
  TrackCommits,   \* GatewayConfig::track_commits
  Idempotency     \* GatewayConfig::idempotency

ASSUME RequestAssumption ==
  /\ NoKey \notin Key
  /\ KeyOf \in [Req -> Key \cup {NoKey}]
  /\ BodyOf \in [Req -> Body]
  /\ OpCount \in [Body -> Nat]
  /\ Rejected \subseteq Body

ASSUME SwitchAssumption ==
  /\ TrackCommits \in BOOLEAN
  /\ Idempotency \in BOOLEAN

(***************************************************************************)
(* A commit_seq of None is written 0: the AUTOINCREMENT numbers start at 1.*)
(***************************************************************************)
NoSeq == 0

\* A row written by the i-th operation of request r is <<r, i>>.
Rows    == Req \X Nat
Commits == [seq : Nat, req : Req]
Dedups  == [key : Key, body : Body, id : Req, seq : Nat]

Databases == [rows : Seq(Rows), counter : Nat,
              commits : SUBSET Commits, dedups : SUBSET Dedups]

\* After run_migrations on a new file: the tables are there and empty.
EmptyDb == [rows |-> << >>, counter |-> 0, commits |-> {}, dedups |-> {}]

(***************************************************************************)
(* The answers to a call.  "closed" is Error::GatewayClosed, "lost" the    *)
(* silence after a crash of the process, "done" the Ok(()) of a            *)
(* checkpoint.  why says which path made a failure.                        *)
(***************************************************************************)
Statuses == {"none", "committed", "failed", "closed", "lost", "done"}
Causes   == {"", "rejected", "conflict", "error", "begin", "commit"}

Committed(id, seq) == [status |-> "committed", id |-> id, seq |-> seq, why |-> ""]
Failed(id, why)    == [status |-> "failed", id |-> id, seq |-> NoSeq, why |-> why]
Mute(id, status)   == [status |-> status, id |-> id, seq |-> NoSeq, why |-> ""]

-----------------------------------------------------------------------------
(***************************************************************************)
(* The statements of one request.                                          *)
(***************************************************************************)
Deduplicated(r) == Idempotency /\ KeyOf[r] # NoKey

\* Execute one operation of the request.
Executed(db, r, i) == [db EXCEPT !.rows = Append(@, <<r, i>>)]

\* SELECT ... FROM squeuelite_requests WHERE idempotency_key = ?1
Lookup(db, r) == {d \in db.dedups : Deduplicated(r) /\ d.key = KeyOf[r]}

\* Mutant of Tracked: the number is read before the row is inserted.
TrackedEarly(db, r) ==
  [db EXCEPT !.counter = @ + 1,
             !.commits = @ \cup {[seq |-> db.counter, req |-> r]}]

\* INSERT INTO squeuelite_commits; the AUTOINCREMENT counter is part of the
\* database, so a rollback takes it back.
Tracked(db, r) ==
  [db EXCEPT !.counter = @ + 1,
             !.commits = @ \cup {[seq |-> db.counter + 1, req |-> r]}]

\* last_insert_rowid(), when commits are tracked.
LastSeq(db) == IF TrackCommits THEN db.counter ELSE NoSeq

\* INSERT OR IGNORE INTO squeuelite_requests: a key already there stays.
Remembered(db, r) ==
  IF Deduplicated(r) /\ Lookup(db, r) = {}
    THEN [db EXCEPT !.dedups = @ \cup
            {[key |-> KeyOf[r], body |-> BodyOf[r], id |-> r, seq |-> LastSeq(db)]}]
    ELSE db

\* Mutant of Recorded: the dedup record is written before the commit_seq.
RecordedSwapped(db, r) ==
  IF TrackCommits THEN Tracked(Remembered(db, r), r) ELSE Remembered(db, r)

\* Both bookkeeping inserts, in the transaction of the request's operations.
Recorded(db, r) == Remembered(IF TrackCommits THEN Tracked(db, r) ELSE db, r)

\* Mutant of EarlyAnswers: the request_hash is not compared.
EarlyAnswersUnhashed(db, r) ==
  IF BodyOf[r] \in Rejected
    THEN {Failed(r, "rejected")}
    ELSE {Committed(d.id, d.seq) : d \in Lookup(db, r)}

\* validate_sql over every operation, then the idempotency lookup: the
\* answers that need no execution.  No answer means: go on and execute.
EarlyAnswers(db, r) ==
  IF BodyOf[r] \in Rejected
    THEN {Failed(r, "rejected")}
    ELSE {IF d.body = BodyOf[r] THEN Committed(d.id, d.seq)
                                ELSE Failed(r, "conflict") : d \in Lookup(db, r)}
=============================================================================
