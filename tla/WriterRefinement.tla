-------------------------- MODULE WriterRefinement --------------------------
(***************************************************************************)
(* The writer implements the log: the log is the durable table             *)
(* squeuelite_commits read in the order of its seq, a commit of a batch    *)
(* extends it by every request of the batch at once, and an answer is an   *)
(* answer.  Stated for track_commits = true and idempotency = true, where  *)
(* that table exists and every key counts.                                 *)
(***************************************************************************)
EXTENDS WriterInvariants

\* The requests of database d in the order of their numbers.
LogOf(d) == [n \in 1 .. d.counter |->
               CHOOSE r \in Req : [seq |-> n, req |-> r] \in d.commits]

DurableLog == LogOf(disk)

\* What each caller of a write was told.
Told == [r \in Req |-> [status |-> reply[r].status, position |-> reply[r].seq]]

Log == INSTANCE WriteLog WITH
  Other  <- Ask \cup {Shutdown},
  asked  <- sent,
  log    <- DurableLog,
  answer <- Told

(***************************************************************************)
(* Every step of the writer, its callers and its crashes is a step of the  *)
(* log or leaves the log as it is: no answer contradicts what is on disk,  *)
(* and no request takes effect after it was answered, not even in a later  *)
(* life of the process.                                                    *)
(***************************************************************************)
ImplementsLog == Log!Spec

-----------------------------------------------------------------------------
(***************************************************************************)
(* The writer's loop: between taking a batch and the first answer nothing  *)
(* happens to the commands in hand.                                        *)
(***************************************************************************)
Loop == INSTANCE WriterLoop WITH
  Write    <- Req,
  Single   <- {r \in Req : Batchable(r)},
  loop     <- IF pc \in {"apply", "begin", "exec", "commit", "batchBegin", "item", "answer"}
                THEN "serve" ELSE pc,
  batch    <- IF pc = "answer" THEN SubSeq(batch, idx, Len(batch)) ELSE batch

(***************************************************************************)
(* Whatever SQLite does to a request, the writer takes commands off the    *)
(* channel and is done with them as the loop says: no command is skipped,  *)
(* held back or handled twice because a statement failed, a transaction    *)
(* was lost or a response was an old one.                                  *)
(***************************************************************************)
ImplementsLoop == Loop!LoopSpec
=============================================================================
