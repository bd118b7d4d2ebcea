----------------------------- MODULE Connection -----------------------------
(***************************************************************************)
(* A Client of client.rs at one end of a Unix socket, handle_connection of *)
(* sidecar.rs at the other.  Both ends take a line at a time off their     *)
(* stream.  The future of a call can be dropped at either of send_line's   *)
(* two awaits; a write that is cut leaves the beginning of a line.         *)
(*                                                                         *)
(* A client is the same identifier as the task that serves it, and makes   *)
(* one connection.  Its calls are executes numbered from 1.                *)
(***************************************************************************)
EXTENDS Rpc

CONSTANTS
  MaxCalls,  \* bound on the calls of a client
  Forms      \* the lines clients send: "execute", "long" (over MAX_LINE_BYTES)

ASSUME ConnectionAssumption == MaxCalls \in Nat

VARIABLES
  link,      \* the client's end of the stream: "none" before connect, "up", "gone"
  task,      \* the server's end: "none" before accept, "up", "over"
  calls,     \* the calls each client has made
  reading,   \* is the client in read_line, for its last call?
  toServer,  \* lines written and not read
  fragment,  \* the unfinished line behind them: "none", "part", "whole" but its \n
  serving,   \* the call whose execute the server awaits
  toClient,  \* replies written and not read
  got,       \* what each call returned
  fate       \* what became of the write of each call

clientVars == <<link, calls, reading, got>>
serverVars == <<task, serving>>
wireVars   == <<toServer, fragment, toClient>>
connVars   == <<clientVars, serverVars, wireVars, fate>>

\* A call returns the reply to call "of", or no reply: an error of the stream
\* ("io", "eof"), or nothing because its future was dropped.
Result(of, what) == [of |-> of, what |-> what]
Pristine == Result(0, "none")

ConnInit ==
  /\ link = [u \in Uds |-> "none"] /\ task = [u \in Uds |-> "none"]
  /\ calls = [u \in Uds |-> 0] /\ reading = [u \in Uds |-> FALSE]
  /\ toServer = [u \in Uds |-> << >>] /\ fragment = [u \in Uds |-> "none"]
  /\ serving = [u \in Uds |-> 0] /\ toClient = [u \in Uds |-> << >>]
  /\ got = [u \in Uds |-> [n \in 1..MaxCalls |-> Pristine]]
  /\ fate = [u \in Uds |-> [n \in 1..MaxCalls |-> "none"]]

-----------------------------------------------------------------------------
(* The client. *)

Return(u, n, result) == got' = [got EXCEPT ![u][n] = result]

\* send_line begins; a client has one call at a time (&mut self).
NextCall(u) ==
  /\ link[u] = "up" /\ ~reading[u] /\ calls[u] < MaxCalls
  /\ calls' = [calls EXCEPT ![u] = @ + 1]

\* Behind the beginning of a line a whole one is not JSON any more, and may have
\* become too long with it.
Merged(u, form) ==
  IF fragment[u] = "none" THEN {form}
  ELSE IF form = "long" THEN {"long"} ELSE {"broken"} \cup (Forms \cap {"long"})

\* write_all ends, and the client waits for a line.
SendLine(u) ==
  /\ NextCall(u) /\ task[u] # "over"
  /\ \E form \in Forms : \E sent \in Merged(u, form) :
       toServer' = [toServer EXCEPT ![u] = Append(@, [call |-> calls'[u], form |-> sent])]
  /\ fragment' = [fragment EXCEPT ![u] = "none"]
  /\ reading' = [reading EXCEPT ![u] = TRUE]
  /\ UNCHANGED <<link, got, serverVars, toClient>>

SendFails(u) ==
  /\ NextCall(u) /\ task[u] = "over"
  /\ Return(u, calls'[u], Result(0, "io"))
  /\ UNCHANGED <<link, reading, serverVars, wireVars>>

\* The future is dropped in write_all, after it has written something.
CutLine(u) ==
  /\ NextCall(u) /\ task[u] # "over"
  /\ \E rest \in {"part", "whole"} :
       fragment' = [fragment EXCEPT ![u] = IF @ = "none" THEN rest ELSE "part"]
  /\ Return(u, calls'[u], Result(0, "dropped"))
  /\ UNCHANGED <<link, reading, serverVars, toServer, toClient>>

StopsReading(u, result) ==
  /\ reading[u] /\ reading' = [reading EXCEPT ![u] = FALSE]
  /\ Return(u, calls[u], result)
  /\ UNCHANGED <<link, calls, serverVars, toServer, fragment>>

ReadReply(u) ==
  /\ toClient[u] # << >>
  /\ StopsReading(u, Head(toClient[u]))
  /\ toClient' = [toClient EXCEPT ![u] = Tail(@)]

\* An empty read is Error::GatewayClosed; a server that left lines unread makes
\* it an error of the stream.
ReadEof(u) ==
  /\ toClient[u] = << >> /\ task[u] = "over"
  /\ \E what \in {"eof", "io"} : StopsReading(u, Result(0, what))
  /\ UNCHANGED toClient

\* The future is dropped in read_line.
CancelRead(u) == StopsReading(u, Result(0, "dropped")) /\ UNCHANGED toClient

\* The Client is dropped.
Disconnect(u) ==
  /\ link[u] = "up" /\ ~reading[u]
  /\ link' = [link EXCEPT ![u] = "gone"]
  /\ toClient' = [toClient EXCEPT ![u] = << >>]
  /\ UNCHANGED <<calls, reading, got, serverVars, toServer, fragment>>

ClientStep(u) ==
  /\ \/ SendLine(u) \/ SendFails(u) \/ CutLine(u)
     \/ ReadReply(u) \/ ReadEof(u) \/ CancelRead(u) \/ Disconnect(u)
  /\ UNCHANGED <<vars, rpcVars, fate>>

-----------------------------------------------------------------------------
(* The server. *)

\* Mutant: a line that is too long is skipped without a reply.
ReplyUnlessLong(u, result, last) ==
  /\ toClient' = IF link[u] = "up" /\ ~last THEN [toClient EXCEPT ![u] = Append(@, result)] ELSE toClient
  /\ task' = IF link[u] = "gone" THEN [task EXCEPT ![u] = "over"] ELSE task

\* Mutant: the task does not end after a line that is too long, and answers the
\* rest of it as if it were the next line.
ReplyToRest(u, result, last) ==
  /\ toClient' = IF link[u] = "up"
                 THEN [toClient EXCEPT ![u] = @ \o (IF last THEN <<result, result>> ELSE <<result>>)]
                 ELSE toClient
  /\ task' = IF link[u] = "gone" THEN [task EXCEPT ![u] = "over"] ELSE task

\* The reply to a line, after which the task ends if the write fails or if
\* the stream is of no more use.
Reply(u, result, last) ==
  /\ toClient' = IF link[u] = "up" THEN [toClient EXCEPT ![u] = Append(@, result)] ELSE toClient
  /\ task' = IF last \/ link[u] = "gone" THEN [task EXCEPT ![u] = "over"] ELSE task

\* The task reads a line only after it has written the reply to the last one.
Idle(u) == task[u] = "up" /\ u \notin busy

TakeLine(u) ==
  /\ toServer[u] # << >> /\ Idle(u)
  /\ toServer' = [toServer EXCEPT ![u] = Tail(@)]
  /\ LET line == Head(toServer[u]) IN
       \/ /\ line.form = "execute"
          /\ Dispatch(u) /\ serving' = [serving EXCEPT ![u] = line.call]
          /\ UNCHANGED <<task, toClient>>
       \/ /\ line.form # "execute"
          /\ Reply(u, Result(line.call, "invalid"), line.form = "long")
          /\ UNCHANGED <<vars, rpcVars, serving>>
  /\ UNCHANGED <<clientVars, fragment, fate>>

\* The rest of a stream that ended without \n is a line too.
TakeRest(u) ==
  /\ link[u] = "gone" /\ toServer[u] = << >> /\ fragment[u] = "whole" /\ Idle(u)
  /\ Dispatch(u) /\ serving' = [serving EXCEPT ![u] = calls[u]]
  /\ fragment' = [fragment EXCEPT ![u] = "none"]
  /\ UNCHANGED <<clientVars, task, toServer, toClient, fate>>

\* End of the stream, or an error instead of the rest of it.
SeeEof(u) ==
  /\ link[u] = "gone" /\ toServer[u] = << >> /\ Idle(u)
  /\ task' = [task EXCEPT ![u] = "over"]
  /\ UNCHANGED <<vars, rpcVars, clientVars, wireVars, serving, fate>>

Answer(u) ==
  /\ Settle(u) /\ Reply(u, Result(serving[u], Outcome(u)), FALSE)
  /\ serving' = [serving EXCEPT ![u] = 0]
  /\ UNCHANGED <<clientVars, toServer, fragment, fate>>

\* The task is over and its handle goes.
ReleaseHandle(u) ==
  /\ task[u] = "over" /\ Alongside(DropHandle(u))
  /\ UNCHANGED connVars

ServerStep(u) == TakeLine(u) \/ TakeRest(u) \/ SeeEof(u) \/ Answer(u) \/ ReleaseHandle(u)

\* The writer answers a write; fate is what it did.
JudgeCall ==
  /\ \E v \in {"committed", "failed"} :
       /\ Judge(v)
       /\ LET u == Head(batch) IN
            fate' = IF u \in Uds THEN [fate EXCEPT ![u][serving[u]] = v] ELSE fate
  /\ UNCHANGED <<clientVars, serverVars, wireVars>>
=============================================================================
