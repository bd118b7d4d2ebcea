--------------------------------- MODULE Wire ---------------------------------
(***************************************************************************)
(* What one request becomes on its way: the line or body a transport       *)
(* accepts, the checks and the reply of jsonrpc::dispatch, the reading of  *)
(* the reply by client.rs.  The same request is put to both transports,    *)
(* with the same outcome of the writer.                                    *)
(*                                                                         *)
(* A request is known by its id, its method, its size, and the checks it   *)
(* fails.  A reply is known by what programs read of it.                   *)
(***************************************************************************)
EXTENDS Integers, Sequences, FiniteSets, FiniteSetsExt

CONSTANTS
  Ids,         \* ids that requests carry
  Null,        \* the id null
  MAX_LINE_BYTES,
  CommitSeqs,  \* what a commit has for commit_seq, NoSeq without track_commits
  Reasons,     \* errors of a failed write
  MaxSamples   \* LATENCY_BUF_CAP

ASSUME WireAssumption == Null \notin Ids /\ CommitSeqs \subseteq Nat /\ MAX_LINE_BYTES \in Nat /\ MaxSamples \in Nat

NoSeq == 0   \* None; commit_seq counts from 1

Methods == {"execute", "stats", "health", "checkpoint"}

VARIABLES
  request,  \* the request
  outcome,  \* what the gateway answered to it
  samples,  \* how many commits the latency ring holds
  uds,      \* the reply of the sidecar
  http,     \* the reply of the HTTP gateway
  result    \* what the client returns for the reply of the sidecar

vars == <<request, outcome, samples, uds, http, result>>

-----------------------------------------------------------------------------
(* dispatch. *)

\* What dispatch and dispatch_execute check, in this order.
Checks == << "json", "array", "structure", "jsonrpc", "method", "known_method",
             "params", "actor_id", "operations", "operation", "sql", "op_params" >>

\* Only execute has parameters.
Failing(req) ==
  {i \in req.fails : req.method = "execute" \/ i <= 6}

ErrorCode(i) ==
  CASE i = 1      -> -32700
    [] i \in 2..5 -> -32600
    [] i = 6      -> -32601
    [] OTHER      -> -32602

\* A result has code 0.
Reply(id, code, status, seq, error) ==
  [id |-> id, code |-> code, status |-> status, seq |-> seq, error |-> error]

ErrJson(id, code, error) == Reply(id, code, "none", NoSeq, error)

OkJson(id, status, seq) == Reply(id, 0, status, seq, "none")

\* The id is known once the structure is.
Invalid(req) ==
  LET i == Min(Failing(req)) IN ErrJson(IF i <= 3 THEN Null ELSE req.id, ErrorCode(i), Checks[i])

DispatchExecute(id, out) ==
  CASE out.status = "committed"  -> OkJson(id, "committed", out.seq)
    [] out.status = "failed"     -> ErrJson(id, -32000, out.error)
    [] out.status = "overloaded" -> ErrJson(id, -32001, "overloaded")
    [] out.status = "closed"     -> ErrJson(id, -32002, "closed")

DispatchCheckpoint(id, out) ==
  IF out.status = "committed" THEN OkJson(id, "ok", NoSeq)
  ELSE ErrJson(id, -32000, IF out.status = "closed" THEN "closed" ELSE out.error)

\* Mutant: the index is rounded down.
P95Floor(n) == (19 * n) \div 20

\* The place, from 0, of the 95th percentile among n > 0 sorted latencies:
\* ceil(0.95 * n) - 1.
P95Index(n) == (19 * n + 19) \div 20 - 1

\* The result of stats is known here by the rank of its p95, which is 0 without
\* samples, like the latency.
DispatchStats(id, n) == OkJson(id, "stats", IF n = 0 THEN 0 ELSE P95Index(n) + 1)

Answer(req, out, n) ==
  CASE req.method = "execute"    -> DispatchExecute(req.id, out)
    [] req.method = "stats"      -> DispatchStats(req.id, n)
    [] req.method = "health"     -> OkJson(req.id, "ok", NoSeq)
    [] req.method = "checkpoint" -> DispatchCheckpoint(req.id, out)

Dispatch(req, out, n) ==
  IF Failing(req) = {} THEN Answer(req, out, n) ELSE Invalid(req)

-----------------------------------------------------------------------------
(* The transports. *)

NoReply == Reply(Null, 1, "none", NoSeq, "none")

\* read_line counts the \n.  A line that is not UTF-8 is an error of read_line.
UdsReply(req, out, n) ==
  IF ~req.utf8 THEN NoReply
  ELSE IF req.size + 1 > MAX_LINE_BYTES THEN ErrJson(Null, -32600, "too_long")
  ELSE Dispatch(req, out, n)

\* Mutant: the limit that axum has when it is given none.
BodyLimitAxum == 2 * MAX_LINE_BYTES

BodyLimit == MAX_LINE_BYTES

\* An HTTP status that is not 200 stands as the code.
HttpReply(req, out, n) ==
  IF req.size > BodyLimit THEN ErrJson(Null, 413, "too_long")
  ELSE IF ~req.authorized THEN ErrJson(Null, 401, "unauthorized")
  ELSE IF ~req.utf8 THEN ErrJson(Null, -32700, "not_utf8")
  ELSE Dispatch(req, out, n)

-----------------------------------------------------------------------------
(* The client. *)

\* The requests that Client writes.
FromClient(req) == req.utf8 /\ req.fails = {} /\ req.id # Null

Response(status, seq, error) == [status |-> status, seq |-> seq, error |-> error]

NoResult == Response("none", NoSeq, "none")

\* Mutant: a commit is told by its number.
WriteResponseBySeq(reply) ==
  IF reply.seq # NoSeq THEN Response("committed", reply.seq, "none")
                       ELSE Response("failed", NoSeq, reply.error)

\* The reply to execute, as send_request reads it: any error is a failed write.
WriteResponse(reply) ==
  IF reply.code = 0 THEN Response(IF reply.status = "committed" THEN "committed" ELSE "failed",
                                  reply.seq, "none")
                    ELSE Response("failed", NoSeq, reply.error)

\* The reply to another method: Error::Protocol with the error in it, or the result.
AdminResult(reply) == Response(IF reply.code = 0 THEN "ok" ELSE "protocol", reply.seq, reply.error)

-----------------------------------------------------------------------------

\* None, one or two checks fail, sizes are those around the limit.
Requests ==
  [id : Ids \cup {Null}, method : Methods, size : MAX_LINE_BYTES - 1 .. MAX_LINE_BYTES + 1,
   fails : {{i, j} : i, j \in DOMAIN Checks} \cup {{}}, utf8 : BOOLEAN, authorized : BOOLEAN]

Outcomes(method) ==
  LET Failures == {Response("failed", NoSeq, e) : e \in Reasons} \cup {Response("closed", NoSeq, "none")} IN
  CASE method = "execute"    -> Failures \cup {Response("committed", n, "none") : n \in CommitSeqs}
                                         \cup {Response("overloaded", NoSeq, "none")}
    [] method = "checkpoint" -> Failures \cup {Response("committed", NoSeq, "none")}
    [] OTHER                 -> {NoResult}

Init ==
  /\ request \in Requests
  /\ outcome = NoResult /\ samples = 0
  /\ uds = NoReply /\ http = NoReply /\ result = NoResult

Serve ==
  /\ outcome = NoResult /\ uds = NoReply /\ http = NoReply
  /\ outcome' \in Outcomes(request.method)
  /\ samples' \in IF request.method = "stats" /\ request.fails = {} THEN 0..MaxSamples ELSE {0}
  /\ uds' = UdsReply(request, outcome', samples')
  /\ http' = HttpReply(request, outcome', samples')
  /\ UNCHANGED <<request, result>>

Return ==
  /\ uds # NoReply /\ FromClient(request) /\ result = NoResult
  /\ result' = IF request.method = "execute" THEN WriteResponse(uds) ELSE AdminResult(uds)
  /\ UNCHANGED <<request, outcome, samples, uds, http>>

\* HTTP always answers.
Done == http # NoReply /\ (~FromClient(request) \/ result # NoResult) /\ UNCHANGED vars

Next == Serve \/ Return \/ Done

Spec == Init /\ [][Next]_vars

-----------------------------------------------------------------------------

\* A request that HTTP authorizes gets the same reply from both transports, with
\* the same id, or is too long for both, or is not text.  The one exception is a
\* body of exactly MAX_LINE_BYTES, which is too long with its \n
\* (handle_connection and DefaultBodyLimit, dispatch).
TransportsAgree ==
  http # NoReply /\ request.authorized /\ request.utf8 /\ request.size # MAX_LINE_BYTES =>
    \/ uds = http
    \/ uds.error = "too_long" /\ http.code = 413

\* The client of the socket returns what the gateway returns in its process: the
\* verdict, the commit number if commits are numbered, the error of a failed
\* write.  An overloaded or closed gateway is a failed write to it, and so is a
\* line that is too long (dispatch_execute, then send_request).
VerdictSurvives ==
  result # NoResult /\ request.method = "execute" =>
    \/ result = outcome /\ outcome.status \in {"committed", "failed"}
    \/ /\ result.status = "failed" /\ result.seq = NoSeq
       /\ result.error = "too_long" \/ outcome.status \in {"overloaded", "closed"}

\* The p95 of the statistics is the nearest rank: the number of latencies up to it
\* is the smallest that makes 95 in 100 of them, for every fill of the ring
\* (latency_snapshot).
NearestRank ==
  request.method = "stats" /\ samples > 0 /\ uds.status = "stats" =>
    LET rank == uds.seq IN
      rank \in 1..samples /\ 20 * rank >= 19 * samples /\ 20 * (rank - 1) < 19 * samples
=============================================================================
