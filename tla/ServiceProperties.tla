-------------------------- MODULE ServiceProperties --------------------------
(***************************************************************************)
(* What the gateway process promises to its clients, to its operator and   *)
(* to whoever reads its statistics.                                        *)
(***************************************************************************)
EXTENDS Service

-----------------------------------------------------------------------------
(* Statistics. *)

\* Each accepted request is counted under one outcome, is being executed, or
\* lost its handler; and no counter says of a write what did not happen:
\* committed counts committed writes, failed and rejected count none of them
\* (dispatch_execute around its await, with handlers dropped there).
CountersTrue ==
  /\ counters["accepted"] = Finished + Cardinality(busy \cap Write) + dropped
  /\ counters["committed"] <= commits
  /\ commits + counters["failed"] + counters["rejected"] <= counters["accepted"]

\* A snapshot may show more finished than accepted requests, but only by as many
\* as were accepted while it was taken (the four loads of Stats::snapshot).
SnapshotBounds ==
  snapshot.on /\ snapshot.unread = {} =>
    snapshot.finished <= snapshot.accepted + (counters["accepted"] - snapshot.since)

-----------------------------------------------------------------------------
(* Clients of the socket. *)

Replied(u, n) == got[u][n].of # 0

\* Replies come in the order of the calls, none twice and none before its call;
\* a client that never dropped a call gets each reply for the call it answers
\* (send_line and handle_connection, which match replies by position).
RepliesInOrder ==
  \A u \in Uds : \A n \in 1..MaxCalls : Replied(u, n) =>
    /\ got[u][n].of <= n
    /\ \A m \in 1..n-1 : Replied(u, m) => got[u][m].of < got[u][n].of
    /\ (\A m \in 1..n-1 : got[u][m].what # "dropped") => got[u][n].of = n

\* Whatever call it is handed to, a reply tells the truth about the write it
\* answers: committed, failed, or never run and never to run, also with cut
\* lines, a shutdown and connections that end in between (dispatch_execute,
\* handle_connection).
RepliesTrue ==
  \A u \in Uds :
    LET Told == {got[u][n] : n \in 1..MaxCalls} \cup ToSet(toClient[u]) IN
      \A r \in Told : r.of # 0 =>
        fate[u][r.of] = IF r.what \in {"committed", "failed"} THEN r.what ELSE "none"

\* What client.rs:11 says, "In-flight requests are serialised (one outstanding
\* request at a time; no pipelining in the MVP)": a call returns its own reply.
OwnReply == \A u \in Uds : \A n \in 1..MaxCalls : Replied(u, n) => got[u][n].of = n

\* A call that waits for its reply ends, with it or with the end of the stream,
\* whenever the process is shut down (send_line).
EveryClientCallEnds == \A u \in Uds : reading[u] ~> ~reading[u]

-----------------------------------------------------------------------------
(* Shutdown. *)

\* An orderly shutdown closes the gateway after the last HTTP connection: no
\* HTTP client is told GatewayClosed, and none has a command left behind
\* (with_graceful_shutdown, then inner.shutdown in main).
HttpNeverClosed ==
  /\ \A h \in Http : stage[h] # "closed"
  /\ owner # "open" => busy \cap Http = {}

\* A Ctrl-C that both servers hear ends the process, through both servers, the
\* writer and its checkpoint (main, run, serve).
CtrlCStops == ({"uds", "http"} \subseteq heard) ~> exited
=============================================================================
