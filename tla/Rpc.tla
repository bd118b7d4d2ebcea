--------------------------------- MODULE Rpc ---------------------------------
(***************************************************************************)
(* jsonrpc::dispatch over a GatewayHandle, and the counters of stats.rs.   *)
(* A caller is a request task: the task of a UDS connection, or an HTTP    *)
(* handler, whose future is dropped when its client goes away.             *)
(*                                                                         *)
(* dispatch_execute runs in one step up to its await and in one step from  *)
(* there to the reply.  Requests that are answered without the writer      *)
(* (invalid ones, health) change nothing; Wire says how they are answered. *)
(***************************************************************************)
EXTENDS InProcess

CONSTANTS
  Uds,      \* tasks of UDS connections
  Http,     \* HTTP handlers
  Observed  \* does anybody ask for statistics?

ASSUME RpcAssumption == Uds \cup Http = Callers /\ Uds \cap Http = {} /\ Uds \subseteq Write /\ Observed \in BOOLEAN

Counters == {"accepted", "committed", "failed", "rejected"}

VARIABLES
  busy,      \* the tasks inside execute().await or checkpoint().await
  verdict,   \* what the writer answered to each task
  counters,  \* Stats
  commits,   \* the writes that committed
  dropped,   \* the executes whose handler was dropped at the await
  snapshot   \* Stats::snapshot in the making, see NoSnapshot

rpcVars == <<busy, verdict, counters, commits, dropped, snapshot>>

\* unread: the counters still to load; accepted, finished: what was loaded,
\* finished being the sum of three; since: accepted when the snapshot began.
NoSnapshot == [on |-> FALSE, unread |-> {}, accepted |-> 0, finished |-> 0, since |-> 0]

RpcInit ==
  /\ Init
  /\ busy = {}
  /\ verdict = [c \in Write |-> "none"]
  /\ counters = [f \in Counters |-> 0]
  /\ commits = 0 /\ dropped = 0
  /\ snapshot = NoSnapshot

Finished == counters["committed"] + counters["failed"] + counters["rejected"]

-----------------------------------------------------------------------------

\* Mutant: a request is counted as accepted only when it needed no waiting.
AdmittedQueued(c) ==
  IF c \in Write /\ stage'[c] = "queued" THEN {"accepted"} ELSE {}

\* A checkpoint is not counted.
Admitted(c) == IF c \in Write THEN {"accepted"} ELSE {}

Count(fs) == counters' = [f \in Counters |-> counters[f] + IF f \in fs THEN 1 ELSE 0]

\* A request reaches execute or checkpoint, which run up to their await.
Dispatch(c) ==
  /\ c \notin busy /\ busy' = busy \cup {c}
  /\ Call(c) /\ Count(Admitted(c))
  /\ UNCHANGED <<verdict, commits, dropped, snapshot>>

\* Mutant: no write counts once the gateway is being shut down.
OutcomeByOwner(c) ==
  IF owner = "open" /\ stage[c] = "served" /\ c \in Write THEN verdict[c] ELSE "closed"

\* What the await returned.
Outcome(c) == IF stage[c] = "served" /\ c \in Write THEN verdict[c] ELSE stage[c]

\* Mutant: an overloaded request falls through to the last arm as well.
CountedTwice(c) ==
  CASE Outcome(c) \in {"committed", "failed"} -> {Outcome(c)}
    [] Outcome(c) = "overloaded" -> {"rejected", "failed"}
    [] OTHER -> {"rejected"}

Counted(c) == IF Outcome(c) \in {"committed", "failed"} THEN {Outcome(c)} ELSE {"rejected"}

Forget(c) == verdict' = IF c \in Write THEN [verdict EXCEPT ![c] = "none"] ELSE verdict

\* The task runs again after its await, counts and has its reply.
Settle(c) ==
  /\ c \in busy /\ busy' = busy \ {c}
  /\ stage[c] \in {"served", "overloaded", "closed"}
  /\ Count(IF c \in Write THEN Counted(c) ELSE {})
  /\ Forget(c)
  /\ UNCHANGED <<vars, commits, dropped, snapshot>>

\* The client of an HTTP handler is gone: its future is dropped, at the await
\* or with the answer already there.
DropRequest(c) ==
  /\ c \in busy \cap Http /\ busy' = busy \ {c}
  /\ Cancel(c) \/ (stage[c] \in Returned /\ UNCHANGED vars)
  /\ dropped' = dropped + IF c \in Write THEN 1 ELSE 0
  /\ Forget(c)
  /\ UNCHANGED <<counters, commits, snapshot>>

\* The writer answers, and its verdict is on the way unless nobody waits.
Judge(v) ==
  /\ AnswerWrite
  /\ LET c == Head(batch) IN
       verdict' = IF stage[c] = "queued" THEN [verdict EXCEPT ![c] = v] ELSE verdict
  /\ commits' = commits + IF v = "committed" THEN 1 ELSE 0
  /\ UNCHANGED <<busy, counters, dropped, snapshot>>

\* Everything else the gateway does.
Alongside(A) == A /\ UNCHANGED rpcVars

-----------------------------------------------------------------------------
(* dispatch_stats: four loads with Ordering::Relaxed, in any order. *)

BeginSnapshot ==
  /\ Observed /\ ~snapshot.on
  /\ snapshot' = [NoSnapshot EXCEPT !.on = TRUE, !.unread = Counters,
                                    !.since = counters["accepted"]]
  /\ UNCHANGED <<vars, busy, verdict, counters, commits, dropped>>

Load(f) ==
  /\ f \in snapshot.unread
  /\ snapshot' = [snapshot EXCEPT
       !.unread   = @ \ {f},
       !.accepted = IF f = "accepted" THEN counters[f] ELSE @,
       !.finished = IF f # "accepted" THEN @ + counters[f] ELSE @]
  /\ UNCHANGED <<vars, busy, verdict, counters, commits, dropped>>

ReturnSnapshot ==
  /\ snapshot.on /\ snapshot.unread = {}
  /\ snapshot' = NoSnapshot
  /\ UNCHANGED <<vars, busy, verdict, counters, commits, dropped>>

SnapshotStep == BeginSnapshot \/ (\E f \in Counters : Load(f)) \/ ReturnSnapshot
=============================================================================
