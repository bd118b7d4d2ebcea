------------------------------ MODULE WriteLog ------------------------------
(***************************************************************************)
(* What a gateway promises, without a queue, transactions or SQLite: there *)
(* is a log of the writes that took effect, and every request is answered  *)
(* at most once with a verdict that agrees with the log.                   *)
(*                                                                         *)
(*  - The log grows at its end, by one or several requests at once, in the *)
(*    order the requests came in, and no key occurs in it twice.           *)
(*  - "committed" names a position of the log that holds the request, or   *)
(*    an equal one with the same key.                                      *)
(*  - "failed" and "closed" say that the request is not in the log and     *)
(*    never will be, so that it is safe to send it again.                  *)
(*  - "lost" says nothing, which is what idempotency keys are for.         *)
(***************************************************************************)
EXTENDS Naturals, Sequences

CONSTANTS
  Req, NoKey, KeyOf, BodyOf,   \* as in Database
  Other                        \* what else a gateway is asked to do

VARIABLES asked,   \* the requests and other calls that came in, in order
          log,     \* the writes that took effect, in order
          answer   \* the verdict on each request, and its position in the log

vars == <<asked, log, answer>>

In(r, s) == \E i \in 1 .. Len(s) : s[i] = r

Place(r) == CHOOSE i \in 1 .. Len(asked) : asked[i] = r

Open(r) == answer[r].status = "none"

Verdict(status, position) == [status |-> status, position |-> position]

Init ==
  /\ asked = << >> /\ log = << >>
  /\ answer = [r \in Req |-> Verdict("none", 0)]

Arrive(c) ==
  /\ ~In(c, asked) /\ (c \in Req => Open(c))
  /\ asked' = Append(asked, c)
  /\ UNCHANGED <<log, answer>>

\* A log the gateway may have: in order of arrival, no key twice.
Lawful(l) ==
  \A i, j \in 1 .. Len(l) : i < j =>
    /\ Place(l[i]) < Place(l[j])
    /\ KeyOf[l[i]] = KeyOf[l[j]] => KeyOf[l[i]] = NoKey

Undecided == {r \in Req : In(r, asked) /\ Open(r) /\ ~In(r, log)}

Extend ==
  \E n \in 1 .. Len(asked) : \E writes \in [1 .. n -> Undecided] :
     /\ log' = log \o writes
     /\ Lawful(log')
     /\ UNCHANGED <<asked, answer>>

AnswerCommitted(r) ==
  \E i \in 1 .. Len(log) :
     /\ \/ log[i] = r
        \/ /\ KeyOf[r] # NoKey
           /\ KeyOf[log[i]] = KeyOf[r] /\ BodyOf[log[i]] = BodyOf[r]
     /\ answer' = [answer EXCEPT ![r] = Verdict("committed", i)]

AnswerFailed(r) ==
  /\ ~In(r, log)
  /\ answer' = [answer EXCEPT ![r] = Verdict("failed", 0)]

Decide(r) ==
  /\ Open(r) /\ In(r, asked)
  /\ AnswerCommitted(r) \/ AnswerFailed(r)
  /\ UNCHANGED <<asked, log>>

\* The gateway leaves, or was gone when the call came: some requests, none of
\* them in the log, are sent back.
Refuse ==
  /\ \E some \in SUBSET {r \in Req : Open(r) /\ ~In(r, log)} :
        answer' = [r \in Req |-> IF r \in some THEN Verdict("closed", 0) ELSE answer[r]]
  /\ UNCHANGED <<asked, log>>

\* The process dies: every open request goes unanswered.
Lose ==
  /\ answer' = [r \in Req |-> IF In(r, asked) /\ Open(r) THEN Verdict("lost", 0)
                                                         ELSE answer[r]]
  /\ UNCHANGED <<asked, log>>

Next ==
  \/ \E c \in Req \cup Other : Arrive(c)
  \/ \E r \in Req : Decide(r)
  \/ Extend \/ Refuse \/ Lose

Spec == Init /\ [][Next]_vars
=============================================================================
