----------------------------- MODULE WireProofs -----------------------------
(***************************************************************************)
(* The properties of Wire for any ids, limit, commit numbers, errors and   *)
(* length of the ring.  Everything follows from what the replies are: the  *)
(* two transports' answers to one request with one outcome.                *)
(***************************************************************************)
EXTENDS Wire, TLAPS

\* For every number of samples the index is one of the sorted latencies, enough
\* of them are at or below it, and one place earlier would be too early.
LEMMA P95IsNearestRank ==
  ASSUME NEW n \in Nat \ {0}
  PROVE  LET rank == P95Index(n) + 1 IN
           rank \in 1..n /\ 20 * rank >= 19 * n /\ 20 * (rank - 1) < 19 * n
  BY SMT DEF P95Index

\* The replies are there together, and are those to the request.
Answered ==
  /\ request \in Requests /\ samples \in Nat
  /\ \/ uds = NoReply /\ http = NoReply
     \/ /\ uds = UdsReply(request, outcome, samples)
        /\ http = HttpReply(request, outcome, samples)
        /\ outcome \in Outcomes(request.method)
  /\ \/ result = NoResult
     \/ /\ uds = UdsReply(request, outcome, samples) /\ uds # NoReply
        /\ outcome \in Outcomes(request.method)
        /\ FromClient(request)
        /\ result = IF request.method = "execute" THEN WriteResponse(uds) ELSE AdminResult(uds)

\* The types of what the transports look at.
LEMMA RequestFields ==
  ASSUME Answered
  PROVE  request.size \in Int /\ request.utf8 \in BOOLEAN /\ request.authorized \in BOOLEAN
  BY WireAssumption DEF Answered, Requests

\* Serve and Return make the replies and the result, and nothing changes them.
LEMMA AnsweredCorrect == Spec => []Answered
<1>1. Init => Answered
  BY WireAssumption DEF Init, Answered
<1>2. Answered /\ [Next]_vars => Answered'
  <2> SUFFICES ASSUME Answered, [Next]_vars PROVE Answered'
    OBVIOUS
  <2>1. CASE Serve
    BY <2>1, WireAssumption DEF Serve, Answered
  <2>2. CASE Return
    BY <2>2 DEF Return, Answered, NoReply
  <2>3. CASE UNCHANGED vars
    BY <2>3 DEF vars, Answered
  <2> QED BY <2>1, <2>2, <2>3 DEF Next, Done
<1> QED BY <1>1, <1>2, PTL DEF Spec

-----------------------------------------------------------------------------

\* Whoever reads the statistics sees the nearest rank.
THEOREM NearestRankCorrect == Spec => []NearestRank
<1>1. Answered => NearestRank
  <2> SUFFICES ASSUME Answered, request.method = "stats", samples > 0, uds.status = "stats"
               PROVE  LET rank == uds.seq IN
                        rank \in 1..samples /\ 20 * rank >= 19 * samples /\ 20 * (rank - 1) < 19 * samples
    BY DEF NearestRank
  <2>1. samples \in Nat \ {0}
    BY DEF Answered
  <2>2. uds = UdsReply(request, outcome, samples)
    BY DEF Answered, NoReply, Reply
  <2>3. uds = DispatchStats(request.id, samples)
    <3>1. ASSUME ~request.utf8 PROVE FALSE
      <4>1. uds = NoReply
        BY <2>2, <3>1 DEF UdsReply
      <4> QED BY <4>1 DEF NoReply, Reply
    <3>2. ASSUME request.utf8, request.size + 1 > MAX_LINE_BYTES PROVE FALSE
      <4>1. uds = ErrJson(Null, -32600, "too_long")
        BY <2>2, <3>2 DEF UdsReply
      <4> QED BY <4>1 DEF ErrJson, Reply
    <3>3. uds = Dispatch(request, outcome, samples)
      BY <2>2, <3>1, <3>2 DEF UdsReply
    <3>4. Failing(request) = {}
      <4> SUFFICES ASSUME Failing(request) # {} PROVE FALSE
        OBVIOUS
      <4>1. uds = Invalid(request)
        BY <3>3 DEF Dispatch
      <4>2. PICK id, code, error : Invalid(request) = Reply(id, code, "none", NoSeq, error)
        BY DEF Invalid, ErrJson
      <4> QED BY <4>1, <4>2 DEF Reply
    <3> QED BY <3>3, <3>4 DEF Dispatch, Answer
  <2>4. uds.seq = P95Index(samples) + 1
    BY <2>1, <2>3 DEF DispatchStats, OkJson, Reply
  <2> QED BY <2>1, <2>4, P95IsNearestRank
<1> QED BY <1>1, AnsweredCorrect, PTL

\* Both transports serve what both accept with the same reply.
THEOREM TransportsAgreeCorrect == Spec => []TransportsAgree
<1>1. Answered => TransportsAgree
  <2> SUFFICES ASSUME Answered, http # NoReply, request.authorized, request.utf8,
                      request.size # MAX_LINE_BYTES
               PROVE  uds = http \/ (uds.error = "too_long" /\ http.code = 413)
    BY DEF TransportsAgree
  <2>1. /\ uds = UdsReply(request, outcome, samples)
        /\ http = HttpReply(request, outcome, samples)
    BY DEF Answered
  <2>2. request.size \in Int
    BY RequestFields
  <2>3. CASE request.size > MAX_LINE_BYTES
    BY <2>1, <2>2, <2>3, WireAssumption DEF UdsReply, HttpReply, BodyLimit, ErrJson, Reply
  <2>4. CASE request.size < MAX_LINE_BYTES
    BY <2>1, <2>2, <2>4, WireAssumption DEF UdsReply, HttpReply, BodyLimit
  <2>5. request.size > MAX_LINE_BYTES \/ request.size < MAX_LINE_BYTES
    BY <2>2, WireAssumption
  <2> QED BY <2>3, <2>4, <2>5
<1> QED BY <1>1, AnsweredCorrect, PTL

\* The client of the socket and a caller in the process learn the same.
THEOREM VerdictSurvivesCorrect == Spec => []VerdictSurvives
<1>1. Answered => VerdictSurvives
  <2> SUFFICES ASSUME Answered, result # NoResult, request.method = "execute"
               PROVE  \/ result = outcome /\ outcome.status \in {"committed", "failed"}
                      \/ /\ result.status = "failed" /\ result.seq = NoSeq
                         /\ result.error = "too_long" \/ outcome.status \in {"overloaded", "closed"}
    BY DEF VerdictSurvives
  <2>1. /\ uds = UdsReply(request, outcome, samples) /\ FromClient(request)
        /\ outcome \in Outcomes("execute") /\ result = WriteResponse(uds)
    BY DEF Answered
  <2>2. CASE request.size + 1 > MAX_LINE_BYTES
    <3>1. uds = ErrJson(Null, -32600, "too_long")
      BY <2>1, <2>2, RequestFields DEF UdsReply, FromClient
    <3> QED BY <2>1, <3>1 DEF ErrJson, Reply, WriteResponse, Response
  <2>3. CASE ~(request.size + 1 > MAX_LINE_BYTES)
    <3>1. uds = DispatchExecute(request.id, outcome)
      BY <2>1, <2>3, RequestFields DEF UdsReply, FromClient, Dispatch, Failing, Answer
    <3>2. \/ \E n \in CommitSeqs : outcome = Response("committed", n, "none")
          \/ \E e \in Reasons : outcome = Response("failed", NoSeq, e)
          \/ outcome = Response("overloaded", NoSeq, "none")
          \/ outcome = Response("closed", NoSeq, "none")
      BY <2>1 DEF Outcomes
    <3> QED BY <2>1, <3>1, <3>2
            DEF DispatchExecute, OkJson, ErrJson, Reply, WriteResponse, Response
  <2> QED BY <2>2, <2>3
<1> QED BY <1>1, AnsweredCorrect, PTL
=============================================================================
