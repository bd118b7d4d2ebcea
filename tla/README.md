# SqueueLite in TLA+

SqueueLite is a write gateway for SQLite: many callers, one writer thread that
owns the only writing connection. This directory holds a model of it, checked
with TLC on small instances, and proofs about the model, checked with TLAPS for
every value of the constants. Paths below are relative to the repository root
unless they start with `tla/`.

## 1. Inventory

| component | code | state | operations |
|---|---|---|---|
| writer actor | `src/writer.rs` | the connection and its open transaction, the command in hand or the collected batch, `deferred_cmd`, the latency ring | `run` (receive, drain, defer), `apply`/`apply_inner` (one request, one transaction), `apply_batch`/`apply_savepoint` (one savepoint per request), checkpoint, shutdown |
| database | SQLite, `run_migrations` | the callers' rows, `squeuelite_commits` (`commit_seq`), `squeuelite_requests` (idempotency) | transactions, savepoints, recovery |
| in-process gateway | `src/inprocess.rs` | the bounded channel, the join handle | `open`, `handle`, `shutdown`, `Drop` |
| gateway handle | `src/inprocess.rs` | one `Sender` per clone | `execute` under three overflow policies, `checkpoint`, `queue_depth`, `latency_snapshot` |
| start-up | `apply_pragmas`, `run_migrations` | PRAGMAs, the internal tables | once per process |
| SQL screening | `validate_sql`, `params_from` | none | a pure decision on each operation |
| JSON-RPC dispatcher | `src/jsonrpc.rs` | none of its own | `dispatch`: parse, validate, `execute`/`stats`/`health`/`checkpoint` |
| statistics | `src/stats.rs` | four atomic counters | increments around `execute().await`, a snapshot of four loads |
| UDS sidecar | `src/sidecar.rs` | listener, one task per connection | accept loop, line loop, graceful shutdown |
| HTTP gateway | `src/http.rs` | listener, one task per request | `POST /rpc`, `GET /health`, graceful serve |
| UDS client | `src/client.rs` | one connection, at most one request in flight | `execute`, `transaction`, admin calls, all through `send_line` |
| binary | `src/bin/squeuelite-gateway.rs` | both transports over one gateway, a broadcast channel | start-up, Ctrl-C, ordered shutdown |
| thin clients | `clients/` | a connection | the line protocol in seven languages |

**How they interact.** A handle puts a `Command` (`Write`, `Checkpoint`,
`Shutdown`) with a oneshot reply channel into a bounded mpsc channel. The writer
thread takes commands one at a time, or drains a batch, talks to SQLite, and
answers on the oneshot channels. Both transports call the same `dispatch`, which
holds a clone of the handle. `shutdown` sends a command like any other and then
joins the thread. The latency ring is shared under a mutex, the counters are
atomics.

**What is hard.** Callers enqueue between any two steps of the writer, also
behind a `Shutdown`. A command popped in the middle of a drain that cannot join
the batch has to wait without being lost, overtaken or handled twice. A request
fails after part of it has run; SQLite may undo one statement, or roll back the
whole transaction under the code; the failure may show only at `COMMIT`. The
process may die between the commit and the answer; a retry under the same key may
be queued before, with or after the first attempt. Above the channel there are
timeouts, cancelled futures, connections that close and transports that stop in
some order. `PROJECT.json` lists these at the line where each bites.

**What makes each component correct.**

- *Writer and database*: a request runs whole or not at all, in arrival order; the
  verdict given to the caller agrees with what is on disk, for ever; a key takes
  effect at most once and its record is atomic with the write; `commit_seq` counts
  the commits; each caller is answered exactly once; `Shutdown` ends the thread.
- *Gateway and handle*: a call told `GatewayOverloaded` or `GatewayClosed` never
  runs; waiting senders are served first come first served and none hangs after
  shutdown; dropping every sender stops the thread.
- *Dispatcher and statistics*: each outcome is counted once and says the truth about
  the write; a torn snapshot is off by no more than what happened while it was taken.
- *Transports and what they carry*: the same request gets the same reply from both,
  and the client returns the verdict the gateway gave.
- *Connections and client*: the n-th reply belongs to the n-th request unless a call
  was cancelled, and every reply is true of the write it answers.
- *Process*: shutdown stops accepting, lets HTTP finish, then closes the gateway, and
  ends; no client waits for ever.
- *Files*: what a mode, a checkpoint or an orderly shutdown made safe survives.

## 2. Modules

| module | what it is |
|---|---|
| `Database` | a database as a value, and what the statements of one request do to it |
| `Writer` | the writer thread, its channel, its callers and crashes: the actions |
| `WriterInvariants` | what the writer promises: invariants, action and liveness properties |
| `WriteLog` | the abstract contract: a log of writes and one verdict per request |
| `WriterRefinement` | `Writer` mapped to `WriteLog`, and to `WriterLoop` |
| `WriterLoop` | the loop of `Writer::run` as the channel sees it: which commands the thread holds |
| `InProcess` | callers with handles, the owner, the channel with waiting senders, around `WriterLoop` |
| `InProcessProperties` | what the in-process gateway promises |
| `InProcessProofs` | proof of its safety properties |
| `Rpc` | `dispatch` around its awaits, over `InProcess`; the counters and their snapshot |
| `Connection` | a `Client` and the task that serves it, with the lines between them; extends `Rpc` |
| `Service` | the binary with its servers, Ctrl-C and shutdown; extends `Connection` |
| `ServiceProperties` | what the process promises to clients, operator and readers of statistics |
| `Wire` | one request on both transports: checks, limits, reply, and what the client makes of it |
| `Durability` | journal and sync modes, checkpoints, readers, power loss; stands alone |
| `MCWriter`, `MCInProcess`, `MCService` | constants for TLC |
| `WriterProofs` | proof that the types and the writer's bookkeeping are invariant |
| `WriterSoundness` | proof of idempotency, atomic dedup records and gapless numbers |
| `WriterHistoryProofs` | proof of the order of answers and effects, and that every verdict is true |
| `WriterRefinementProofs` | proof that `Writer` implements `WriterLoop` and `WriteLog` |
| `ServiceProofs` | proof of the counters, the snapshot and what the clients of the process are told |
| `WireProofs`, `DurabilityProofs` | proofs of every property of `Wire` and of `Durability` |

### 2.1 `Database`

A request's SQL is abstracted to a *body*. What the code distinguishes about it is
kept: equality of the operations (the `request_hash`), their number (only
single-operation requests are batched), and whether `validate_sql` refuses one
(`Rejected`). `validate_sql` looks at the SQL text and at the configuration only,
so the refused bodies are a constant set. A row written by operation `i` of request
`r` is `<<r, i>>`, so that the durable rows tell who wrote them and in which order.

`Recorded` is the two bookkeeping inserts of `apply_inner` and `apply_savepoint`,
`EarlyAnswers` the answers given without executing anything: the refusal, the
stored response of an idempotency hit, or the conflict when the key is there with
other operations. The stored response carries the first request's `request_id`, as
the code's does. The AUTOINCREMENT counter is part of the database value because
SQLite keeps it in a table and rolls it back with the rest.

### 2.2 `Writer`

`pc` names the places in `Writer::run` where another party can tell the order of
things: after a command was taken, between two statements, between the answers of a
batch, before and after the shutdown checkpoint.

| code | actions |
|---|---|
| `blocking_recv`, the `match` on a command | `Receive`, `ReceiveNone`, `Take` |
| the `while` loop around `try_recv`, `deferred_cmd` | `Drain`, `SetAside`, `TakeDeferred` |
| `apply`, `apply_inner` | `Apply`, `Begin`, `Exec` (one per operation), `Record`, `Commit` |
| `apply_batch`, `apply_savepoint`, `sp_fail` | `BatchBegin`, `BatchItem`, `BatchCommit` |
| `respond_to.send` | `Answer` |
| `break`, the final checkpoint, the end of the thread | `Exit` |
| `Sender::send` of some caller; the last sender dropped | `Send`, `Hangup` |
| process death and restart on the same file | `Crash` |

There are two databases: `work` is what the connection sees, `disk` what the last
commit left. A commit copies `work` to `disk`, a rollback (a dropped
`rusqlite::Transaction`) copies `disk` to `work`. One item of a batch is one step:
the transaction is open, nobody else sees into it, and a crash inside it and a crash
before it leave the same state.

SQLite's outcomes are the constant `Faults`:

- `error`: a statement fails and only that statement is undone. At a key lookup
  outside a transaction it makes the request fail, as `apply` does;
- `abort`: a statement fails and SQLite rolls back the whole transaction
  (`INSERT OR ROLLBACK`, `RAISE(ROLLBACK)`, a full disk). In a batch the
  `ROLLBACK TO` of `sp_fail` then fails, the code ignores that, and the following
  savepoints are transactions of their own: `Released` says so;
- `deferred`: a statement succeeds and leaves a deferred constraint violated, which
  makes `COMMIT` fail. A violated constraint stays violated until the transaction
  ends: no later statement of the model repairs it;
- `begin`, `commit`: these fail for a reason that is no statement's.

The history variables `sent` (what entered the queue, in order) and `offenders`
(who violated a deferred constraint) are read by properties and, `sent` only, by
`Send`, `Exit` and `Crash`, to send each call once and to answer those whose
senders are dropped.

### 2.3 `WriteLog` and the refinement

`WriteLog` knows no queue, transaction or SQLite. There is a log that only grows,
in order of arrival, in which no key occurs twice; and each request gets at most one
verdict: "committed" names a place in the log that holds the request or an equal one
with its key, "failed" and "closed" say that it is not in the log and never will be,
"lost" (the caller of a dead process) says nothing. The mapping reads the log off
`squeuelite_commits` in the order of its numbers (`LogOf`), and the order of arrival off
`sent`, which holds checkpoints and `Shutdown` too (`Other` of `WriteLog`). A batch
appends all its requests in one step.

### 2.4 `WriterLoop` and `InProcess`

The writer is too large to put processes around its channel, and they do not care
what it does to SQLite. `WriterLoop` keeps the part of `Writer::run` that they do
care about (receive, drain, defer, answer in order, leave), and `ImplementsLoop`
says that `Writer` is an instance of it, whatever SQLite does (checked and proved). `InProcess`
extends it with the other end of `src/inprocess.rs`:

| code | actions |
|---|---|
| `execute`, `checkpoint` up to the first await or early return | `Call` |
| `send().await` resumed with a slot | `Push`; for shutdown `PushShutdown` |
| `tokio::time::timeout` | `Expire` |
| a caller's future dropped at an await | `Cancel`; for shutdown `CancelShutdown` |
| `handle()`, `clone()`, a handle dropped | `GetHandle`, `DropHandle` |
| `shutdown`: the send, then the join | `BeginShutdown`, `Join` |
| `Drop` | `DropGateway` |
| the writer thread | the actions of `WriterLoop`, with the slot each receive frees and the stage of the caller each answer ends |

A caller is a task with a handle that calls again and again; it is also the
identity of its command, so a task whose call was cancelled after it was queued
waits (`abandoned`) until the writer is done with the command. The channel is
tokio's and modelled from its use: a semaphore of `Capacity` permits, first come
first served, a freed slot granted to the first waiting send and used when its task
runs again, both ends closed by the drop of the receiver. One window inside tokio is
left out: a send that has its slot and pushes while the receiver is being dropped.
`SingleThreaded` stops every task while `shutdown` blocks its thread in `join`.
Each handle has its own overflow policy in the model; the code gives all of them the
gateway's, which is the instance where they are equal.

### 2.5 `Rpc`, `Connection` and `Service`

Three layers around `InProcess`, each extending the one below: the same callers with
their handles, now as request tasks.

| code | actions |
|---|---|
| `dispatch_execute`, `dispatch_checkpoint` up to the await, `accepted` counted | `Dispatch` |
| from the await to the reply, the outcome counted | `Settle` (`Answer` of a connection, `Respond200` of HTTP) |
| an HTTP handler dropped with its client | `DropRequest` |
| `dispatch_stats`: four relaxed loads, in any order | `BeginSnapshot`, `Load`, `ReturnSnapshot` |
| `send_line` written, failed, its future dropped in `write_all` | `SendLine`, `SendFails`, `CutLine` |
| `send_line` read, at the end of the stream, its future dropped in `read_line` | `ReadReply`, `ReadEof`, `CancelRead` |
| `handle_connection`: a line, the rest of a stream, its end, a reply | `TakeLine`, `TakeRest`, `SeeEof`, `Answer` |
| `accept_loop`; its error; `select!` in `run` and `run_uds_inline` | `Accept`, `AcceptFails`, `UdsHears` |
| `HttpGateway::serve`, bind, the signal, the graceful end | `BindHttp`, `HttpHears`, `HttpEnds` |
| `main`: `subscribe` and `spawn`, the joins, `inner.shutdown()`, return | `SpawnUds`, `SpawnHttp`, `ServersEnded`, `ShutDown`, `FinishShutdown`, `Exit` |
| Ctrl-C, with or without the broadcast channel | `PressCtrlC` |

Both cases of `main` are initial states of one `Service`: the socket alone (where
`SidecarGateway` owns the gateway and a failed bind drops it) and HTTP with or without
the socket. A line is a record of the call it was written for and its form: an execute,
one over the limit, or what a cut line and the next one make together. `Merged` says
what that can be: never an execute. The writer's verdict on a write is chosen when it
answers (`Judge`) and kept in the history variable `fate`, so that every reply can be
held against it.

Not in these layers: a stream has no capacity, so `write_all` blocks nobody; a reply
is read whole or not at all (a `read_line` dropped in the middle of a reply would lose
the bytes it has).

### 2.6 `Wire`

The values of one request, without interleaving: which checks it fails (any one or two
of the twelve of `dispatch` and `dispatch_execute`, in the code's order), its size next
to `MAX_LINE_BYTES`, whether it is text and authorized, and the gateway's outcome. The
same request is given to `UdsReply` and `HttpReply`, and the first to `WriteResponse` or
`AdminResult`, which are `send_request` and the admin methods of the client. A reply is
the record of what a program reads of it: id, code or HTTP status, status, `commit_seq`,
error. `P95Index` is the index of `latency_snapshot` for a ring of any fill; the
floating-point expression of the code gives the same integer (0.95 as a double is a
little less than 19/20, and `ceil` of the product takes that back; 1024 samples are far
from where it would not).

### 2.7 `Durability`

Commits are a number, `commit_seq`; the main file, the WAL and the disk each have a
prefix of them (`inFile`, `committed`, `synced`). `ApplyPragmas` opens the file with any
pair of modes, `Commit`, `Checkpoint`, `Shutdown`, `AutoCheckpoint` do what SQLite
documents for them, readers of other processes hold snapshots, and `Killed` and
`PowerLoss` end a life of the process. What SQLite does is external; what the code
contributes is which pragmas and checkpoints it asks for, when, and that the answer of
`checkpoint()` does not tell a blocked checkpoint from a complete one. `kept` is what a
user may rely on under each mode.

## 3. Runs

The `writer_` runs use two to four bodies, one key and the constants of
`tla/MCWriter.tla`.

| run | shows |
|---|---|
| `writer_single` | no batching, every kind of fault, two operations each, a write, its retry and a conflicting write under one key, one crash |
| `writer_batch` | batches of up to three, a retry in the same batch, a multi-operation request, a checkpoint and `Shutdown` found while draining, a refused request; the writer implements `WriterLoop` |
| `writer_batch_abort` | batches whose transaction SQLite rolls back under them, failed commits, a crash |
| `writer_live` | every queued call is answered, `Shutdown` ends the thread, and the writer implements `WriteLog` |
| `inprocess` | a caller under each overflow policy and a checkpoint, on a runtime with one thread: slots are conserved, what returned has left nothing behind, nobody is closed out without a shutdown, nothing is left after one; every call and the shutdown return, the last handle ends the thread |
| `service` | a client of the socket and an HTTP connection in every transport of the binary: which reply goes to which call, that it is true, that no call hangs, and how Ctrl-C ends the process |
| `statistics` | HTTP handlers that may be dropped, a checkpoint and a reader of the statistics: what the counters and a torn snapshot may claim |
| `durability` | every mode, two readers, restarts and losses of power: which commits survive, what an empty WAL means |
| `wire` | every method, check, size and outcome: both transports agree, the verdict reaches the caller of the client, the p95 is the nearest rank |
| `batch_abort_durable`, `batch_isolation`, `own_reply` | the code does something a comment or document says it does not (section 5) |

**Why these bounds are enough.** A key matters through three roles: the request
that commits, a retry with equal operations, and a request with other operations; the
instances have one of each, and every arrival order of them occurs. Two operations
are the smallest number with a state "some, not all of it ran". A batch of three
has a first, a middle and a last item, so that something can go wrong before and
after an item that succeeds. A queue of two or three slots is both full and empty in
every run. One crash separates a life of the process from the next; the second life
starts from any durable state the first can leave, and the crash forgets everything
else but the answers. A latency ring of one entry is full after the first commit.
Faults are switched off where a run does not ask about them, to keep it small:
between them the runs use all five, and `writer_single` all five at once.

In `inprocess` two slots for four callers and the owner give a queue that is empty,
partly full, and full with a line of up to three behind it; a third slot adds no new
relation between the three places a send can be. The single thread is the harder
runtime for a shutdown.

In `service` one client makes two calls (`MaxCalls`), the smallest number with a reply
left for the next call, and one HTTP connection one request (`MaxRequests`); one slot
makes the two compete for it. Two clients of the socket would share nothing but the
queue, which `inprocess` fills from four sides. `statistics` needs handlers and no
socket: two requests of each connection let a snapshot begin, be overtaken and end. In
`durability` two readers can hold two different snapshots of three commits
(`MaxCommits`), so that a checkpoint stops at neither end; restarts and losses of power
are not bounded. In `wire` a limit of 4 has one size below, at and above it, two failing
checks show their order, and the ring takes every fill up to the 1024 of the code.

**Fairness.** `FairSpec` of `Writer` assumes weak fairness of `WriterStep` only: the thread
takes its next step if it has one. The operating system schedules it, and each of
its blocking calls is modelled as a step that is enabled when it would return. SQLite
calls return: `busy_timeout` bounds the wait for another process's lock. Nothing is
assumed of callers, of a sender that never hangs up, or of crashes. `FairSpec` of
`InProcess` assumes weak fairness of the thread, of each send that was granted a slot
(its task was woken, the runtime polls it; not while the runtime's thread is blocked)
and of `Join`; no caller has to call, no timer has to fire, no future has to be dropped.
`FairServe` adds what the multi-threaded runtime of the binary polls: `main`, each
server, each connection task, and a client that waits in `read_line`. No client has to
call, to be patient or to go away, no timer has to fire, Ctrl-C need not be pressed, and
`accept` need not fail. One HTTP assumption is part of `HttpServes`: a client that has
begun a request sends the rest of it, or goes. A writer stopped for good (`Stopped`), a
process that has ended, or one whose signal nobody heard (`Deaf`) are the states where
nothing need happen, so that deadlock checking stays on in every run.

## 4. Proofs

Every invariant, action property and refinement a passing run checks is a theorem, for
every value of the constants; liveness is not. Assumed: the named assumptions on the
constants (`RequestAssumption`, `SwitchAssumption`, `WriterAssumption`,
`InProcessAssumption`, `RpcAssumption`, `ConnectionAssumption`, `DurabilityAssumption`,
`WireAssumption`). No theorem bounds the requests, keys, operations, queue, batch size,
number of crashes, callers, clients or calls, and `Faults` is any subset of the five.
Three theorems have a hypothesis of their own:

- `RolledBackCorrect` and `WriterImplementsLog` ask for `Undivided`: no batches, or no
  statement that makes SQLite roll the whole transaction back. Without it the code does
  what `batch_abort_durable` shows. Batches are off by default (`batch: None`).
- `ConflictCorrect` asks for `Steadfast`: no batches, or neither such a statement nor a
  failing `COMMIT`. In a batch a request may conflict with an item before it, and be
  told so, although the batch then fails and the item with it.
- `WriterImplementsLog` also asks for `track_commits` and `idempotency`, both on by
  default: without the first there is no table to read the log off, without the second
  a key means nothing.

By component:

- `TypeCorrect`. `TypeOK` alone is not inductive: `Answer` takes `results[idx]`,
  and that is a response only if there is one for every request in hand. `InHand`
  says what the thread holds at each `pc` (one request while it runs alone, `idx - 1`
  responses in the middle of a batch, one per request when it answers, a command
  in `deferred` when it says so). One lemma per action, and one step per group
  of the invariant under it.
- `DatabasesSound` and its consequences `GaplessCorrect`, `DedupCorrect`,
  `OncePerKeyCorrect`. At the durable database alone `AtMostOncePerKey` says
  nothing about why it stays true. `Sound` therefore speaks of `disk` and of `work`,
  which becomes `disk` at a commit: every effect of a request with a key is
  *accounted for* by a record of its key (except, while a request runs alone, that
  request's own), and a key has one record. The heart is that a request executes only
  after an empty lookup in the database it then changes (`NoEarlyAnswer`,
  `pc \in {"begin", "exec"} => Lookup(work, Current) = {}`), also inside a batch,
  where the lookup sees the uncommitted records of the items before it. It holds
  with aborted batches too: the item that commits on its own commits its record.

- `LineOrderly` and its consequences `AnswerOrderCorrect`, `AnsweredOnceCorrect`
  (`WriterHistoryProofs`). `AnsweredInOrder` speaks of answers only; what makes it stay
  true is where the other commands are. `Orderly` says that batch, deferred command and
  queue are, in this order, the last commands of `sent`, each sent once, and that the
  answered calls are exactly those before position `Base + Answered`. A command handled
  twice, lost, or put back behind its successor breaks `InLine` at once.
- `HistoryTruthful` and its consequences `ArrivalOrderCorrect`, `SerialHistoryCorrect`,
  `DurableCorrect`, `ClosedCorrect`, `RolledBackCorrect`, `ConflictCorrect`. `Truthful`
  has three parts. `TxOK`: where a transaction is open, and that outside one `work` is
  `disk`. `HistoryOK`: the rows and records of both databases are those of the first
  `KeptUpTo` (`RowsUpTo`, `KnownUpTo`) commands sent, in that order, and every request
  there ran whole, but for the one at `exec`, whose first `idx - 1` rows are the end of
  `work`. `AnswersTrue`: every answer given is borne out by *both* databases (so that
  neither a commit nor a rollback makes it a lie), every answer about to be given by
  the one its transaction will leave (`BorneOut`). What a batch does after SQLite threw
  it out of its transaction is covered: `KeptUpTo` moves with the items there. That a
  failed answer is true for ever needs no more than order: a request has its rows only
  while it is in hand, and an answered one is before `Base`.
- `WriterImplementsLog` (`WriterRefinementProofs`). `Truthful` says that each verdict
  agrees with the log; that a commit is an `Extend` needs in addition that the open
  transaction only adds to what is on disk. `Prolongs` says that: `work` has the commits
  of `disk` and, under higher numbers, at most one for each item done with (`Numbered`),
  all of requests in the batch, which are undecided because the line is `Orderly`.
  `Lawful` then follows from the serial order and from the uniqueness of keys
  (`LogLawful`). `Unnumbered` gives the position 0 of a failure. Every other step is one
  abstract action (`Arrive`, `Decide`, `Refuse`, `Lose`) or a stutter.

- Every safety property of `InProcess` (`TypeCorrect`, `SlotsCorrect`,
  `OnePlaceCorrect`, `ReturnedCorrect`, `ClosedCorrect`, `DownCorrect` in
  `InProcessProofs`), for any number of callers, any capacity, batch size, policies
  and runtime, from `InProcessAssumption`. The invariant is `InOnePlace` with the count
  of slots and what the end of the thread implies: a command is in exactly one of the
  line, the granted slots, the queue, the batch and `deferred_cmd`, without
  repetition, and a caller's stage says which. Without it nothing prevents a withdrawn
  send from giving back a slot twice, or a returned call from being found in the queue.
  The proof has three layers that meet only in two sets, `Sending` and `Active`:
  lemmas about the line (`SlotFreed`, `Withdrawn`, ...), lemmas about the thread
  (`Received`, `Drained`, ...), and what callers and owner believe (`OneStageMoves`,
  `NoStageMoves`, `OwnerMoves`).

- `WriterImplementsLoop` (`WriterRefinementProofs`): every behaviour of `Writer`, with any
  faults, any crashes and any batch size, is one of `WriterLoop`, so that what
  `InProcess` assumes of its thread is a theorem about the detailed one. The loop is
  shown in its command at `pc`s where SQLite works (`Working`): those actions stutter,
  the others are one loop step each. The mapping of the commands left to answer is
  `SubSeq(batch, idx, Len(batch))`, so `Answer` needs `idx \in 1 .. Len(batch)` from
  `InHand`, and the lemmas about subsequences.

- `ServeInvHolds` and its consequences `CountersCorrect`, `SnapshotCorrect`,
  `HttpNeverClosedCorrect` (`ServiceProofs`), for any number of clients, connections and
  requests. Every step of the process is first shown to be, for requests and counters,
  one of six kinds (`RpcStep`). The invariant of `InProcess` is kept by all of them, so
  that its theorems hold of the whole process. Added to it are `BusyOK` (a handler is
  inside its await just while its call is pending or has returned to it), `VerdictOK` (a
  verdict waits for exactly the writes that were served and not settled), `CountsOK` and
  `SnapshotOK`. `CountsOK` bounds the counters by the writes the thread may still decide
  (`Outstanding`, which an abandoned command does not leave) and those told and not yet
  counted (`ToldCommitted`), by cardinalities that a step changes by one at most.
  `SnapshotOK` bounds what was loaded by what was there when each load happened.
- `SessionsHold` and its consequences `RepliesInOrderCorrect`, `RepliesTrueCorrect`
  (`ServiceProofs`). Between a client and its task the replies on their way, the request
  being served, the lines on their way and the unfinished line are, in this order, calls
  with growing numbers; a line that is still to be served is `Fresh` (no later call was
  answered or executed); a client that dropped nothing has at most the call it waits for
  in all of these (`PatientOK`), which is why its next reply is its own; and what a reply
  says is what the thread decided (`FateOK`).

- `KeptCorrect`, `EmptyWalCorrect` (`DurabilityProofs`), for any readers and any number
  of commits, from `DurabilityAssumption`. The invariant `Synced` orders the prefixes:
  what is kept is synced, what is synced is committed, and in WAL mode the main file
  never has what is not synced, which is why a loss of power cannot leave the file with a
  later commit and without an earlier one. It needs the types of the modes too.
- `TransportsAgreeCorrect`, `VerdictSurvivesCorrect`, `NearestRankCorrect`
  (`WireProofs`), for any limit, ids, commit numbers, errors and ring, from
  `WireAssumption`. `Answered` says that the replies present are those of the two
  transports to this request with this outcome; the rest is the case analysis.
  `P95IsNearestRank` is arithmetic, for every positive number of samples.

Only model-checked: liveness (`EveryCallAnswered`, `ShutdownCompletes`,
`EveryCallReturns`, `ShutdownReturns`, `LastSenderEndsThread`, `EveryClientCallEnds`,
`CtrlCStops`). It needs fairness and `ENABLED`, which this prover does not reason about.

## 5. Where the code and its documents differ

1. `batch_abort_durable`: after SQLite has rolled back a batch's transaction, later
   items of the batch commit one by one, the outer `COMMIT` fails, and the items are
   answered `Failed`, "the transaction was rolled back" (`src/request.rs`, line 88).
2. `batch_isolation`: one request that leaves a deferred constraint violated fails its
   whole batch (`docs/integration.md`, lines 329-330, says only itself).
3. `own_reply`: a call whose future was dropped (a timeout around it) leaves its request
   in flight, and the next call returns the reply to it, under its own `request_id`
   (`src/client.rs`, lines 11-12: "one outstanding request at a time"). What does hold is
   `RepliesInOrder`: replies come in order, and match as long as no call was dropped.

`FailedMeansRolledBack` is checked, and proved (`RolledBackCorrect`), where it does hold:
without batches under every fault, and in batches without `abort`.

Remarks without a run of their own, met while modelling:

- The comment at `src/writer.rs`, lines 469-472, allows for gaps in `commit_seq`;
  `GaplessCorrect` proves there are none, because SQLite rolls the AUTOINCREMENT counter
  back with the row.
- A retry under its key gets the first request's `request_id` (`src/request.rs`, line 45,
  says its own is echoed back): `EarlyAnswers`.
- The comment on `InProcessGateway` (`src/inprocess.rs`, lines 29-32) says that dropping it
  leaves no `Sender` and ends the thread; every `GatewayHandle` holds one, and the thread
  serves it. What does hold is `LastSenderEndsThread`.
- A Ctrl-C sent between the `spawn` of its handler and the `subscribe` of the servers is
  lost, and the handler sends once: the states `Deaf` (`src/bin/squeuelite-gateway.rs`,
  line 33, promises a graceful shutdown of both servers).
- `src/jsonrpc.rs`, lines 95-96, says that the two transports "enforce an identical
  ceiling"; the socket counts the newline and HTTP does not, so they disagree at exactly
  `MAX_LINE_BYTES`. A body that is not UTF-8 is answered by HTTP and ends the connection
  of the socket.
- `checkpoint()` answers Ok although a reader stopped the checkpoint short
  (`docs/integration.md`, line 412, recommends it before a backup): `KeepCheckpoint` has
  to ask for `Open = {}`.
- `wal_size_bytes` is documented to be `None` after a full checkpoint (`src/stats.rs`);
  `TRUNCATE` leaves an empty file, and it is 0.
- `checkpoint` on a closed gateway is answered with -32000, `execute` with -32002.
- Under `NORMAL`, the default, a loss of power takes back acknowledged commits and their
  numbers are given again.
- `validate_sql` compares the first whitespace-separated token, so that a forbidden
  keyword followed at once by `;` passes, although they are "always forbidden"
  (`src/writer.rs`, lines 724-726).

## 6. Not modelled, and why

- The text of SQL, of errors and of JSON; the hash function (two bodies are equal or
  not); time. A latency is not a number here, only an entry in the ring.
- `validate_sql` and `params_from` as functions of text and JSON values: pure, without
  state, and covered by unit tests value by value; `Rejected` stands for the first.
- Other processes that read or write the file, except as `begin`, `error` and
  `commit` faults and as the readers of `Durability`. A database in memory.
- SQL that works against the gateway itself: callers' statements do not write
  `squeuelite_commits` or `squeuelite_requests`, and do not begin or end transactions.
  `validate_sql` refuses the plain forms of both and documents what it lets through
  (`src/writer.rs`, lines 739-742).
- A panic of the writer thread. Its callers would see the channel close.
- A second gateway process on the same database or socket path.
- Ctrl-C before its handler is registered, which kills the process: `Crash`.
- HTTP clients that begin a request and never finish it: they hold the graceful shutdown
  up for as long as they like, which is axum's behaviour, not the gateway's.
- Parts of a reply lost to a cancelled `read_line`; the permissions of the socket file;
  argument parsing but for the rule about transports; where the bearer token comes from;
  `GET /health`; the thin clients.

## 7. Plan

In this order:

1. `Screening`: the five rules of `validate_sql` over tokens and flags, against the
   documented list.
2. A theorem on when `BatchIsolation` does hold (no batches, and no `COMMIT` that fails
   without a violated constraint), to set beside the run that shows when it does not.
