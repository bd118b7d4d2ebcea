------------------------- MODULE InProcessProperties -------------------------
(***************************************************************************)
(* What the in-process gateway promises to its callers and to its owner.   *)
(***************************************************************************)
EXTENDS InProcess

\* Every variable has its type; the channel holds no more than its capacity.
TypeOK ==
  /\ queue \in Seq(Commands) /\ batch \in Seq(Write) /\ deferred \in Seq(Commands)
  /\ loop \in {"recv", "drain", "serve", "deferred", "exiting", "stopped"}
  /\ stage \in [Callers -> Stages]
  /\ live \subseteq Callers
  /\ owner \in Owners
  /\ permits \in 0..Capacity
  /\ waiters \in Seq(Commands) /\ granted \subseteq Commands

Sending == ToSet(waiters) \cup granted
Held    == ToSet(batch) \cup ToSet(deferred)
Active  == ToSet(queue) \cup Held

-----------------------------------------------------------------------------

\* Each slot is free, granted or filled, whatever is withdrawn, and none is
\* free while a send waits for one (the permits behind execute's three
\* policies and queue_depth).
SlotsConserved ==
  /\ permits + Cardinality(granted) + Len(queue) = Capacity
  /\ permits > 0 => waiters = << >>

\* A call that returned, with GatewayOverloaded or GatewayClosed, or that was
\* withdrawn, has left no command behind that could still run (execute).
ReturnedLeavesNothing ==
  \A c \in Callers : stage[c] \in Returned => c \notin Sending \cup Active

\* The thread does not end while somebody could still send, and nobody is told
\* GatewayClosed, unless the owner asked for the shutdown: a gateway that is
\* dropped serves whoever still holds a handle (Drop, run).
ClosedOnlyByShutdown ==
  owner \notin {"joining", "down"} =>
    /\ loop \in {"exiting", "stopped"} => Senders = {}
    /\ \A c \in Callers : stage[c] # "closed"

\* When shutdown returns the thread is gone, and no command is anywhere.
DownMeansStopped ==
  owner = "down" =>
    /\ loop = "stopped" /\ Sending \cup Active = {}
    /\ \A c \in Callers : stage[c] \in Returned

-----------------------------------------------------------------------------

\* What the thread holds at each place of its loop.
ThreadShape ==
  /\ IsInjective(queue) /\ IsInjective(batch) /\ Len(deferred) <= 1
  /\ ToSet(queue) \cap Held = {} /\ ToSet(batch) \cap ToSet(deferred) = {}
  /\ deferred # << >> => loop \in {"serve", "deferred"} /\ deferred[1] \notin Single
  /\ loop = "deferred" => deferred # << >>
  /\ IF loop \in {"drain", "serve"} THEN batch # << >> ELSE batch = << >>
  /\ loop = "stopped" => Active = {}

\* Where a caller believes its call to be, and where it is.
StageAgrees ==
  /\ \A c \in Callers :
       /\ stage[c] = "sending" <=> c \in Sending
       /\ stage[c] \in {"queued", "abandoned"} <=> c \in Active
       /\ stage[c] \in Pending => c \in live
  /\ owner = "closing" <=> Shutdown \in Sending
  /\ Shutdown \in Active => owner = "joining"

\* Each command is in one place of the line, the granted slots, the queue and
\* the thread, the one its caller waits for it in; so the line has no two
\* entries of a caller, and nobody waits for a command that nobody has
\* (execute, shutdown and run together).
InOnePlace ==
  /\ ThreadShape
  /\ IsInjective(waiters) /\ ToSet(waiters) \cap granted = {}
  /\ StageAgrees
  /\ loop = "stopped" => Sending = {}

-----------------------------------------------------------------------------

\* A call that waits for a slot or for its answer returns, although the other
\* callers never stop calling and nobody's timer need fire (execute,
\* checkpoint).
EveryCallReturns == \A c \in Callers : stage[c] \in Pending ~> stage[c] \notin Pending

\* shutdown returns, although callers compete with it for slots, and also on
\* a runtime whose only thread it blocks (shutdown).
ShutdownReturns == owner \in {"closing", "joining"} ~> owner \in {"down", "dropped"}

\* Once every Sender is gone the thread ends without a Shutdown (Drop, run).
LastSenderEndsThread == (owner = "dropped" /\ live = {}) ~> loop = "stopped"
=============================================================================
