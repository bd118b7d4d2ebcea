--------------------------- MODULE InProcessProofs ---------------------------
(***************************************************************************)
(* Proofs about the in-process gateway, for every set of callers, capacity, *)
(* overflow policy, batch size and runtime.                                *)
(***************************************************************************)
EXTENDS InProcessProperties, SequenceTheorems, FiniteSetTheorems, TLAPS

-----------------------------------------------------------------------------
(* Sequences without repetition, as the queue, the batch and the line are. *)

LEMMA AppendedOnce ==
  ASSUME NEW S, NEW s \in Seq(S), NEW e \in S
  PROVE  /\ Append(s, e) \in Seq(S)
         /\ Len(Append(s, e)) = Len(s) + 1
         /\ Append(s, e) # << >>
         /\ ToSet(Append(s, e)) = ToSet(s) \cup {e}
         /\ IsInjective(s) /\ e \notin ToSet(s) => IsInjective(Append(s, e))
<1>1. /\ Append(s, e) \in Seq(S) /\ Len(Append(s, e)) = Len(s) + 1
      /\ Len(s) \in Nat /\ DOMAIN s = 1..Len(s)
      /\ DOMAIN Append(s, e) = 1..(Len(s) + 1)
      /\ \A i \in 1..Len(s) : Append(s, e)[i] = s[i]
      /\ Append(s, e)[Len(s) + 1] = e
  OBVIOUS
<1>2. ToSet(Append(s, e)) = ToSet(s) \cup {e}
  BY <1>1 DEF ToSet
<1>3. IsInjective(s) /\ e \notin ToSet(s) => IsInjective(Append(s, e))
  BY <1>1 DEF ToSet, IsInjective
<1> QED
  BY <1>1, <1>2, <1>3

LEMMA HeadTaken ==
  ASSUME NEW S, NEW s \in Seq(S), s # << >>
  PROVE  /\ Head(s) \in S /\ Tail(s) \in Seq(S) /\ Len(s) \in Nat \ {0}
         /\ Len(Tail(s)) = Len(s) - 1
         /\ ToSet(s) = ToSet(Tail(s)) \cup {Head(s)}
         /\ IsInjective(s) => IsInjective(Tail(s)) /\ Head(s) \notin ToSet(Tail(s))
<1>1. /\ Tail(s) \in Seq(S) /\ Head(s) \in S
      /\ Len(s) \in Nat \ {0} /\ DOMAIN s = 1..Len(s)
      /\ Len(Tail(s)) = Len(s) - 1
      /\ DOMAIN Tail(s) = 1..(Len(s) - 1)
      /\ \A i \in 1..(Len(s) - 1) : Tail(s)[i] = s[i + 1]
      /\ Head(s) = s[1]
  OBVIOUS
<1>2. ToSet(s) = ToSet(Tail(s)) \cup {Head(s)}
  <2>1. ASSUME NEW i \in 1..Len(s) PROVE s[i] \in ToSet(Tail(s)) \cup {Head(s)}
    <3>1. CASE i = 1
      BY <3>1, <1>1
    <3>2. CASE i # 1
      <4>1. i - 1 \in 1..(Len(s) - 1) /\ Tail(s)[i - 1] = s[i]
        BY <3>2, <1>1
      <4> QED
        BY <4>1, <1>1 DEF ToSet
    <3> QED
      BY <3>1, <3>2
  <2>2. ASSUME NEW i \in 1..(Len(s) - 1) PROVE Tail(s)[i] \in ToSet(s)
    BY <1>1 DEF ToSet
  <2>3. Head(s) \in ToSet(s)
    BY <1>1 DEF ToSet
  <2> QED
    BY <1>1, <2>1, <2>2, <2>3 DEF ToSet
<1>3. ASSUME IsInjective(s) PROVE IsInjective(Tail(s)) /\ Head(s) \notin ToSet(Tail(s))
  BY <1>1, <1>3 DEF IsInjective, ToSet
<1> QED
  BY <1>1, <1>2, <1>3

LEMMA OneRemoved ==
  ASSUME NEW S, NEW s \in Seq(S), NEW i \in DOMAIN s, IsInjective(s)
  PROVE  /\ RemoveAt(s, i) \in Seq(S)
         /\ ToSet(RemoveAt(s, i)) = ToSet(s) \ {s[i]}
         /\ IsInjective(RemoveAt(s, i))
<1> DEFINE r == RemoveAt(s, i)
           before == SubSeq(s, 1, i - 1)
           after == SubSeq(s, i + 1, Len(s))
<1>1. Len(s) \in Nat /\ DOMAIN s = 1..Len(s) /\ i \in 1..Len(s)
  OBVIOUS
<1>2. /\ before \in Seq(S) /\ Len(before) = i - 1
      /\ \A j \in 1..(i - 1) : before[j] = s[j]
  BY <1>1
<1>3. /\ after \in Seq(S) /\ Len(after) = Len(s) - i
      /\ \A j \in 1..(Len(s) - i) : after[j] = s[i + j]
  BY <1>1
<1>4. /\ r \in Seq(S) /\ Len(r) = Len(s) - 1 /\ DOMAIN r = 1..(Len(s) - 1)
      /\ \A j \in 1..(Len(s) - 1) : r[j] = IF j < i THEN s[j] ELSE s[j + 1]
  <2>0. r = before \o after
    BY DEF RemoveAt
  <2> HIDE DEF r, before, after
  <2>1. r \in Seq(S) /\ Len(r) = Len(s) - 1 /\ DOMAIN r = 1..(Len(s) - 1)
    <3>1. r \in Seq(S) /\ Len(r) = Len(before) + Len(after)
      BY <2>0, <1>2, <1>3, ConcatProperties
    <3>2. DOMAIN r = 1..Len(r)
      BY <3>1
    <3> QED
      BY <3>1, <3>2, <1>1, <1>2, <1>3
  <2>2. ASSUME NEW j \in 1..(Len(s) - 1), j < i PROVE r[j] = s[j]
    BY <2>0, <2>2, <1>1, <1>2, <1>3, ConcatProperties
  <2>3. ASSUME NEW j \in 1..(Len(s) - 1), ~(j < i) PROVE r[j] = s[j + 1]
    <3>1. r[j] = after[j - (i - 1)] /\ j - (i - 1) \in 1..(Len(s) - i)
      BY <2>0, <2>3, <1>1, <1>2, <1>3, ConcatProperties
    <3>2. i + (j - (i - 1)) = j + 1
      BY <1>1
    <3> QED
      BY <3>1, <3>2, <1>3
  <2> QED
    BY <2>1, <2>2, <2>3
<1> HIDE DEF r
<1>5. ToSet(r) \subseteq ToSet(s) \ {s[i]}
  BY <1>1, <1>4 DEF ToSet, IsInjective
<1>6. ASSUME NEW k \in 1..Len(s), k # i PROVE s[k] \in ToSet(r)
  <2>1. CASE k < i
    BY <2>1, <1>1, <1>4 DEF ToSet
  <2>2. CASE k > i
    <3>1. k - 1 \in 1..(Len(s) - 1) /\ r[k - 1] = s[k]
      BY <2>2, <1>1, <1>4
    <3> QED
      BY <3>1, <1>4 DEF ToSet
  <2> QED
    BY <1>1, <1>6, <2>1, <2>2
<1>7. ToSet(r) = ToSet(s) \ {s[i]}
  BY <1>1, <1>5, <1>6 DEF ToSet
<1>8. IsInjective(r)
  BY <1>1, <1>4 DEF IsInjective
<1> QED
  BY <1>4, <1>7, <1>8 DEF r

-----------------------------------------------------------------------------
(***************************************************************************)
(* The inductive invariant, by who changes what: the channel's line, the   *)
(* thread, and what callers and owner believe of both.                     *)
(***************************************************************************)
LineOK ==
  /\ waiters \in Seq(Commands) /\ granted \subseteq Commands /\ IsFiniteSet(granted)
  /\ permits \in Nat
  /\ IsInjective(waiters) /\ ToSet(waiters) \cap granted = {}
  /\ permits > 0 => waiters = << >>

ThreadOK ==
  /\ queue \in Seq(Commands) /\ batch \in Seq(Write) /\ deferred \in Seq(Commands)
  /\ loop \in {"recv", "drain", "serve", "deferred", "exiting", "stopped"}
  /\ ThreadShape

SlotsOK == permits + Cardinality(granted) + Len(queue) = Capacity

CallersOK ==
  /\ stage \in [Callers -> Stages] /\ live \subseteq Callers /\ owner \in Owners
  /\ StageAgrees /\ ClosedOnlyByShutdown
  /\ owner = "down" => loop = "stopped"
  /\ loop = "stopped" => Sending = {}

IInv == LineOK /\ ThreadOK /\ SlotsOK /\ CallersOK

-----------------------------------------------------------------------------
(* What happens to the line.  Slots is the number of slots not filled. *)

Slots == permits + Cardinality(granted)

LEMMA SlotFreed ==
  ASSUME NEW ws \in Seq(Commands), NEW gs \in SUBSET Commands, IsFiniteSet(gs),
         IsInjective(ws), ToSet(ws) \cap gs = {},
         permits \in Nat, permits > 0 => ws = << >>,
         Freed(ws, gs)
  PROVE  /\ LineOK' /\ Sending' = ToSet(ws) \cup gs
         /\ Slots' = permits + Cardinality(gs) + 1
<1>1. Cardinality(gs) \in Nat
  BY FS_CardinalityType
<1>2. CASE ws = << >>
  <2>1. waiters' = ws /\ granted' = gs /\ permits' = permits + 1
    BY <1>2 DEF Freed
  <2> QED
    BY <2>1, <1>1, <1>2 DEF LineOK, Sending, Slots
<1>3. CASE ws # << >>
  <2>1. waiters' = Tail(ws) /\ granted' = gs \cup {Head(ws)} /\ permits' = permits
    BY <1>3 DEF Freed
  <2>2. /\ Head(ws) \in Commands /\ Tail(ws) \in Seq(Commands)
        /\ ToSet(ws) = ToSet(Tail(ws)) \cup {Head(ws)}
        /\ IsInjective(Tail(ws)) /\ Head(ws) \notin ToSet(Tail(ws))
    BY <1>3, HeadTaken
  <2>3. /\ IsFiniteSet(gs \cup {Head(ws)})
        /\ Cardinality(gs \cup {Head(ws)}) = Cardinality(gs) + 1
    BY <2>2, FS_AddElement
  <2>4. permits = 0
    BY <1>3
  <2> QED
    BY <2>1, <2>2, <2>3, <2>4, <1>1 DEF LineOK, Sending, Slots
<1> QED
  BY <1>2, <1>3

LEMMA SlotTaken ==
  ASSUME LineOK, permits > 0, permits' = permits - 1, UNCHANGED <<waiters, granted>>
  PROVE  LineOK' /\ Sending' = Sending /\ Slots' = Slots - 1
<1>1. Cardinality(granted) \in Nat
  BY FS_CardinalityType DEF LineOK
<1> QED
  BY <1>1 DEF LineOK, Sending, Slots

LEMMA GrantedSlotTaken ==
  ASSUME LineOK, NEW c \in granted, granted' = granted \ {c}, UNCHANGED <<permits, waiters>>
  PROVE  LineOK' /\ Sending' = Sending \ {c} /\ Slots' = Slots - 1
<1>1. /\ IsFiniteSet(granted \ {c}) /\ Cardinality(granted) \in Nat
      /\ Cardinality(granted \ {c}) = Cardinality(granted) - 1
  BY FS_RemoveElement, FS_CardinalityType DEF LineOK
<1> QED
  BY <1>1 DEF LineOK, Sending, Slots

LEMMA LineJoined ==
  ASSUME LineOK, NEW c \in Commands \ Sending, WaitForSlot(c)
  PROVE  LineOK' /\ Sending' = Sending \cup {c} /\ Slots' = Slots
<1>1. /\ Append(waiters, c) \in Seq(Commands) /\ ToSet(Append(waiters, c)) = ToSet(waiters) \cup {c}
      /\ IsInjective(Append(waiters, c))
  BY AppendedOnce DEF LineOK, Sending
<1> QED
  BY <1>1 DEF LineOK, Sending, Slots, WaitForSlot

LEMMA Withdrawn ==
  ASSUME LineOK, NEW c \in Sending, Withdraw(c)
  PROVE  LineOK' /\ Sending' = Sending \ {c} /\ Slots' = Slots
<1>1. CASE c \in granted
  <2>1. Freed(waiters, granted \ {c})
    BY <1>1 DEF Withdraw
  <2>2. /\ IsFiniteSet(granted \ {c}) /\ Cardinality(granted) \in Nat
        /\ Cardinality(granted \ {c}) = Cardinality(granted) - 1
    BY <1>1, FS_RemoveElement, FS_CardinalityType DEF LineOK
  <2>3. /\ LineOK' /\ Sending' = ToSet(waiters) \cup (granted \ {c})
        /\ Slots' = permits + Cardinality(granted \ {c}) + 1
    <3>1. /\ waiters \in Seq(Commands) /\ granted \ {c} \in SUBSET Commands
          /\ IsInjective(waiters) /\ ToSet(waiters) \cap (granted \ {c}) = {}
          /\ permits \in Nat /\ (permits > 0 => waiters = << >>)
      BY DEF LineOK
    <3> QED
      BY <2>1, <2>2, <3>1, SlotFreed
  <2>4. permits \in Nat /\ c \notin ToSet(waiters)
    BY <1>1 DEF LineOK
  <2> QED
    BY <2>2, <2>3, <2>4 DEF Sending, Slots
<1>2. CASE c \notin granted
  <2>1. PICK i \in DOMAIN waiters : waiters[i] = c /\ waiters' = RemoveAt(waiters, i)
    BY <1>2 DEF Withdraw
  <2>2. UNCHANGED <<permits, granted>>
    BY <1>2 DEF Withdraw
  <2>3. /\ waiters' \in Seq(Commands) /\ IsInjective(waiters')
        /\ ToSet(waiters') = ToSet(waiters) \ {c}
    BY <2>1, OneRemoved DEF LineOK
  <2>4. permits = 0
    BY <2>1 DEF LineOK
  <2> QED
    BY <1>2, <2>2, <2>3, <2>4 DEF LineOK, Sending, Slots
<1> QED
  BY <1>1, <1>2

-----------------------------------------------------------------------------
(* What happens to the thread and its queue. *)

LEMMA EmptyHasNothing == ToSet(<< >>) = {} /\ IsInjective(<< >>)
BY DEF ToSet, IsInjective

LEMMA OneHasOne ==
  ASSUME NEW c
  PROVE  ToSet(<<c>>) = {c} /\ IsInjective(<<c>>) /\ <<c>> # << >> /\ Len(<<c>>) = 1
BY DEF ToSet, IsInjective

LEMMA DeferredOne ==
  ASSUME ThreadOK, deferred # << >>
  PROVE  deferred[1] \in Commands /\ ToSet(deferred) = {deferred[1]}
<1>1. deferred \in Seq(Commands) /\ Len(deferred) <= 1
  BY DEF ThreadOK, ThreadShape
<1>2. Len(deferred) \in Nat \ {0}
  BY <1>1, HeadTaken
<1>3. Len(deferred) = 1
  <2> DEFINE n == Len(deferred)
  <2>1. n \in Nat \ {0} /\ n <= 1
    BY <1>1, <1>2
  <2> HIDE DEF n
  <2>2. n = 1
    BY <2>1
  <2> QED
    BY <2>2 DEF n
<1>4. DOMAIN deferred = {1} /\ deferred[1] \in Commands
  <2>1. DOMAIN deferred = 1..1 /\ 1..1 = {1}
    BY <1>1, <1>3
  <2> QED
    BY <1>1, <1>3, <2>1
<1> QED
  BY <1>4 DEF ToSet

LEMMA CommandQueued ==
  ASSUME ThreadOK, NEW c \in Commands \ Active, Put(c), loop # "stopped"
  PROVE  /\ ThreadOK' /\ Active' = Active \cup {c} /\ loop' = loop
         /\ Len(queue') = Len(queue) + 1
<1>1. /\ Append(queue, c) \in Seq(Commands) /\ ToSet(Append(queue, c)) = ToSet(queue) \cup {c}
      /\ IsInjective(Append(queue, c)) /\ Len(Append(queue, c)) = Len(queue) + 1
  BY AppendedOnce DEF ThreadOK, ThreadShape, Active
<1> QED
  BY <1>1 DEF ThreadOK, ThreadShape, Active, Held, Put

LEMMA Taken ==
  ASSUME NEW c \in Commands, Take(c)
  PROVE  /\ batch' \in Seq(Write) /\ IsInjective(batch')
         /\ ToSet(batch') = IF c \in Write THEN {c} ELSE {}
         /\ loop' \in {"recv", "drain", "serve", "exiting"}
         /\ IF loop' \in {"drain", "serve"} THEN batch' # << >> ELSE batch' = << >>
         /\ loop' = "exiting" => c = Shutdown
<1>1. CASE c \in Write /\ batch' = <<c>> /\ loop' = IF Batching /\ c \in Single THEN "drain" ELSE "serve"
  <2>1. batch' \in Seq(Write)
    BY <1>1
  <2> QED
    BY <1>1, <2>1, OneHasOne
<1>2. CASE c \in Ask /\ batch' = << >> /\ loop' = "recv"
  BY <1>2, EmptyHasNothing, InProcessAssumption
<1>3. CASE c = Shutdown /\ batch' = << >> /\ loop' = "exiting"
  BY <1>3, EmptyHasNothing, InProcessAssumption DEF Callers
<1> QED
  BY <1>1, <1>2, <1>3 DEF Take

LEMMA Received ==
  ASSUME ThreadOK, Receive
  PROVE  /\ ThreadOK' /\ loop = "recv" /\ loop' # "stopped"
         /\ Head(queue) \in Commands /\ Head(queue) \in Active
         /\ Active' = IF Head(queue) \in Write THEN Active ELSE Active \ {Head(queue)}
         /\ Len(queue') = Len(queue) - 1
         /\ loop' = "exiting" => Head(queue) = Shutdown
<1>1. /\ Head(queue) \in Commands /\ Tail(queue) \in Seq(Commands)
      /\ Len(Tail(queue)) = Len(queue) - 1
      /\ ToSet(queue) = ToSet(Tail(queue)) \cup {Head(queue)}
      /\ IsInjective(Tail(queue)) /\ Head(queue) \notin ToSet(Tail(queue))
  BY HeadTaken DEF ThreadOK, ThreadShape, Receive
<1>2. /\ batch' \in Seq(Write) /\ IsInjective(batch')
      /\ ToSet(batch') = IF Head(queue) \in Write THEN {Head(queue)} ELSE {}
      /\ loop' \in {"recv", "drain", "serve", "exiting"}
      /\ IF loop' \in {"drain", "serve"} THEN batch' # << >> ELSE batch' = << >>
      /\ loop' = "exiting" => Head(queue) = Shutdown
  BY <1>1, Taken DEF Receive
<1>3. /\ loop = "recv" /\ batch = << >> /\ deferred = << >> /\ deferred' = << >>
      /\ queue' = Tail(queue)
  BY DEF ThreadOK, ThreadShape, Receive
<1>4. Active = ToSet(queue) /\ Active' = ToSet(queue') \cup ToSet(batch')
  BY <1>3, EmptyHasNothing DEF Active, Held
<1>5. ThreadOK'
  BY <1>1, <1>2, <1>3, EmptyHasNothing DEF ThreadOK, ThreadShape, Active, Held
<1> QED
  BY <1>1, <1>2, <1>3, <1>4, <1>5

LEMMA Drained ==
  ASSUME ThreadOK, DrainOne
  PROVE  /\ ThreadOK' /\ loop' \in {"drain", "serve"} /\ loop = "drain"
         /\ Active' = Active /\ Len(queue') = Len(queue) - 1
<1> DEFINE c == Head(queue)
<1>1. /\ c \in Commands /\ Tail(queue) \in Seq(Commands)
      /\ Len(Tail(queue)) = Len(queue) - 1
      /\ ToSet(queue) = ToSet(Tail(queue)) \cup {c}
      /\ IsInjective(Tail(queue)) /\ c \notin ToSet(Tail(queue))
  BY HeadTaken DEF ThreadOK, ThreadShape, DrainOne
<1>2. /\ loop = "drain" /\ deferred = << >> /\ batch # << >> /\ batch \in Seq(Write)
      /\ queue' = Tail(queue) /\ IsInjective(batch) /\ ToSet(queue) \cap ToSet(batch) = {}
  BY DEF ThreadOK, ThreadShape, DrainOne, Held
<1> HIDE DEF c
<1>3. CASE c \in Single /\ batch' = Append(batch, c) /\ UNCHANGED <<loop, deferred>>
  <2>1. c \in Write /\ c \notin ToSet(batch)
    BY <1>1, <1>2, <1>3, InProcessAssumption
  <2>2. /\ batch' \in Seq(Write) /\ batch' # << >> /\ IsInjective(batch')
        /\ ToSet(batch') = ToSet(batch) \cup {c}
    BY <1>2, <1>3, <2>1, AppendedOnce
  <2> QED
    BY <1>1, <1>2, <1>3, <2>2, EmptyHasNothing DEF ThreadOK, ThreadShape, Active, Held
<1>4. CASE c \notin Single /\ deferred' = <<c>> /\ loop' = "serve" /\ UNCHANGED batch
  <2>1. /\ deferred' \in Seq(Commands) /\ deferred'[1] = c /\ Len(deferred') = 1
        /\ ToSet(deferred') = {c} /\ deferred' # << >>
    BY <1>1, <1>4, OneHasOne
  <2> QED
    BY <1>1, <1>2, <1>4, <2>1, EmptyHasNothing DEF ThreadOK, ThreadShape, Active, Held
<1> QED
  BY <1>3, <1>4 DEF DrainOne, c

LEMMA DrainEnded ==
  ASSUME ThreadOK, DrainEnds
  PROVE  /\ ThreadOK' /\ loop' = "serve" /\ loop = "drain"
         /\ Active' = Active /\ queue' = queue
BY DEF ThreadOK, ThreadShape, Active, Held, DrainEnds

LEMMA NoneReceived ==
  ASSUME ThreadOK, ReceiveNone
  PROVE  /\ ThreadOK' /\ loop' = "exiting" /\ loop = "recv"
         /\ Active' = Active /\ queue' = queue
BY DEF ThreadOK, ThreadShape, Active, Held, ReceiveNone

LEMMA Responded ==
  ASSUME ThreadOK, Respond
  PROVE  /\ ThreadOK' /\ loop' \in {"recv", "serve", "deferred"} /\ loop = "serve"
         /\ Head(batch) \in Write /\ Head(batch) \in Active
         /\ Active' = Active \ {Head(batch)} /\ queue' = queue
<1> DEFINE c == Head(batch)
<1>1. /\ c \in Write /\ Tail(batch) \in Seq(Write) /\ Len(batch) \in Nat \ {0}
      /\ Len(Tail(batch)) = Len(batch) - 1
      /\ ToSet(batch) = ToSet(Tail(batch)) \cup {c}
      /\ IsInjective(Tail(batch)) /\ c \notin ToSet(Tail(batch))
  BY HeadTaken DEF ThreadOK, ThreadShape, Respond
<1>2. /\ loop = "serve" /\ batch' = Tail(batch) /\ queue' = queue /\ deferred' = deferred
      /\ loop' = IF Len(batch) > 1 THEN "serve"
                  ELSE IF deferred # << >> THEN "deferred" ELSE "recv"
  BY DEF Respond
<1>3. IF Len(batch) > 1 THEN Tail(batch) # << >> ELSE Tail(batch) = << >>
  <2> DEFINE rest == Tail(batch)
  <2>1. rest \in Seq(Write) /\ Len(rest) = Len(batch) - 1 /\ Len(batch) \in Nat \ {0}
    BY <1>1
  <2> HIDE DEF rest
  <2>2. rest = << >> <=> Len(rest) = 0
    BY <2>1, EmptySeq
  <2>3. IF Len(batch) > 1 THEN rest # << >> ELSE rest = << >>
    BY <2>1, <2>2
  <2> QED
    BY <2>3 DEF rest
<1>4. c \notin ToSet(queue) /\ c \notin ToSet(deferred)
  BY <1>1 DEF ThreadOK, ThreadShape, Held
<1> HIDE DEF c
<1>5. Active' = Active \ {c} /\ c \in Active
  BY <1>1, <1>2, <1>4 DEF Active, Held
<1>6. ThreadShape'
  BY <1>1, <1>2, <1>3 DEF ThreadOK, ThreadShape, Active, Held
<1>7. ThreadOK'
  BY <1>1, <1>2, <1>6 DEF ThreadOK
<1> QED
  BY <1>1, <1>2, <1>5, <1>7 DEF c

LEMMA DeferredTaken ==
  ASSUME ThreadOK, TakeDeferred
  PROVE  /\ ThreadOK' /\ loop = "deferred" /\ loop' # "stopped"
         /\ deferred[1] \in Commands /\ deferred[1] \in Active
         /\ Active' = IF deferred[1] \in Write THEN Active ELSE Active \ {deferred[1]}
         /\ queue' = queue
         /\ loop' = "exiting" => deferred[1] = Shutdown
<1> DEFINE c == deferred[1]
<1>1. /\ loop = "deferred" /\ batch = << >> /\ deferred # << >> /\ deferred' = << >>
      /\ queue' = queue /\ Take(c)
  BY DEF ThreadOK, ThreadShape, TakeDeferred
<1>2. c \in Commands /\ ToSet(deferred) = {c}
  BY <1>1, DeferredOne
<1>3. /\ batch' \in Seq(Write) /\ IsInjective(batch')
      /\ ToSet(batch') = IF c \in Write THEN {c} ELSE {}
      /\ loop' \in {"recv", "drain", "serve", "exiting"}
      /\ IF loop' \in {"drain", "serve"} THEN batch' # << >> ELSE batch' = << >>
      /\ loop' = "exiting" => c = Shutdown
  BY <1>1, <1>2, Taken
<1> HIDE DEF c
<1>4. c \notin ToSet(queue)
  BY <1>2 DEF ThreadOK, ThreadShape, Held
<1>5. /\ Active = ToSet(queue) \cup {c}
      /\ Active' = ToSet(queue) \cup ToSet(batch')
  BY <1>1, <1>2, EmptyHasNothing DEF Active, Held
<1>6. ThreadOK'
  BY <1>1, <1>3, <1>4, EmptyHasNothing DEF ThreadOK, ThreadShape, Active, Held
<1> QED
  BY <1>1, <1>2, <1>3, <1>4, <1>5, <1>6 DEF c

LEMMA Left ==
  ASSUME ThreadOK, Leave
  PROVE  /\ ThreadOK' /\ loop' = "stopped" /\ loop = "exiting"
         /\ Active' = {} /\ queue' = << >>
<1>1. /\ loop = "exiting" /\ batch = << >> /\ deferred = << >>
      /\ loop' = "stopped" /\ queue' = << >> /\ batch' = << >> /\ deferred' = << >>
  BY DEF ThreadOK, ThreadShape, Leave
<1> QED
  BY <1>1, EmptyHasNothing DEF ThreadOK, ThreadShape, Active, Held

-----------------------------------------------------------------------------
(***************************************************************************)
(* What callers and owner believe, after a step that moves one command and *)
(* one stage, or no stage at all.                                          *)
(***************************************************************************)
LEMMA OneStageMoves ==
  ASSUME CallersOK, NEW c \in Callers, NEW s \in Stages,
         Becomes(c, s), UNCHANGED <<live, owner>>,
         \A d \in Commands \ {c} : (d \in Sending' <=> d \in Sending) /\ (d \in Active' <=> d \in Active),
         s = "sending" <=> c \in Sending',
         s \in {"queued", "abandoned"} <=> c \in Active',
         s \in Pending => c \in live,
         s = "closed" => owner \in {"joining", "down"},
         loop' \in {"exiting", "stopped"} => loop' = loop,
         loop = "stopped" => loop' = "stopped",
         loop' = "stopped" => Sending' = {}
  PROVE  CallersOK'
<1>1. /\ stage \in [Callers -> Stages] /\ stage' = [stage EXCEPT ![c] = s]
      /\ live' = live /\ owner' = owner /\ Senders' = Senders
      /\ Shutdown \in Commands \ {c} /\ Callers \subseteq Commands
  BY InProcessAssumption DEF CallersOK, Becomes, Senders, Commands, Callers
<1>2. stage' \in [Callers -> Stages] /\ stage'[c] = s /\ \A d \in Callers \ {c} : stage'[d] = stage[d]
  BY <1>1
<1>3. StageAgrees'
  <2>1. ASSUME NEW d \in Callers
        PROVE  /\ stage'[d] = "sending" <=> d \in Sending'
               /\ stage'[d] \in {"queued", "abandoned"} <=> d \in Active'
               /\ stage'[d] \in Pending => d \in live'
    <3>1. CASE d = c
      BY <3>1, <1>1, <1>2
    <3>2. CASE d # c
      BY <3>2, <1>1, <1>2 DEF CallersOK, StageAgrees
    <3> QED
      BY <3>1, <3>2
  <2>2. /\ owner' = "closing" <=> Shutdown \in Sending'
        /\ Shutdown \in Active' => owner' = "joining"
    BY <1>1 DEF CallersOK, StageAgrees
  <2> QED
    BY <2>1, <2>2 DEF StageAgrees, Pending
<1>4. ClosedOnlyByShutdown'
  BY <1>1, <1>2 DEF CallersOK, ClosedOnlyByShutdown
<1> QED
  BY <1>1, <1>2, <1>3, <1>4 DEF CallersOK

LEMMA NoStageMoves ==
  ASSUME CallersOK, UNCHANGED <<stage, live, owner>>, Sending' = Sending,
         \A d \in Callers : d \in Active' <=> d \in Active,
         Shutdown \in Active' => Shutdown \in Active,
         loop' = "exiting" => owner \in {"joining", "down"} \/ Senders = {},
         loop' # "stopped", loop # "stopped"
  PROVE  CallersOK'
<1>1. /\ stage' = stage /\ live' = live /\ owner' = owner /\ Senders' = Senders
  BY DEF Senders
<1>2. StageAgrees'
  BY <1>1 DEF CallersOK, StageAgrees, Pending
<1>3. ClosedOnlyByShutdown'
  BY <1>1 DEF CallersOK, ClosedOnlyByShutdown
<1> QED
  BY <1>1, <1>2, <1>3 DEF CallersOK

LEMMA NothingMoves ==
  ASSUME LineOK, ThreadOK, SlotsOK, UNCHANGED <<loopVars, channelVars>>
  PROVE  /\ LineOK' /\ ThreadOK' /\ SlotsOK'
         /\ Sending' = Sending /\ Active' = Active /\ loop' = loop
BY DEF loopVars, channelVars, LineOK, ThreadOK, ThreadShape, SlotsOK, Sending, Active, Held

LEMMA ThreadStays ==
  ASSUME ThreadOK, UNCHANGED loopVars
  PROVE  ThreadOK' /\ Active' = Active /\ loop' = loop /\ queue' = queue
BY DEF loopVars, ThreadOK, ThreadShape, Active, Held

LEMMA SlotsMove ==
  ASSUME IInv, LineOK', ThreadOK', CallersOK',
         \/ Slots' = Slots - 1 /\ Len(queue') = Len(queue) + 1
         \/ Slots' = Slots + 1 /\ Len(queue') = Len(queue) - 1
         \/ Slots' = Slots /\ queue' = queue
  PROVE  IInv'
<1>1. /\ Slots \in Nat /\ Len(queue) \in Nat /\ Slots + Len(queue) = Capacity
  BY FS_CardinalityType DEF IInv, LineOK, ThreadOK, SlotsOK, Slots
<1>2. Slots' + Len(queue') = Capacity
  BY <1>1
<1> QED
  BY <1>2 DEF IInv, SlotsOK, Slots

\* A command is put in its slot while the thread still listens.
LEMMA Listening ==
  ASSUME IInv
  PROVE  /\ owner \in {"open", "closing"} => loop # "stopped" /\ loop # "exiting"
         /\ Sending # {} => loop # "stopped"
         /\ \A c \in Callers : stage[c] \in Returned => c \notin Sending /\ c \notin Active
         /\ \A c \in Callers : c \in Sending => c \notin Active
         /\ Shutdown \in Commands /\ Callers \subseteq Commands
BY DEF IInv, CallersOK, ClosedOnlyByShutdown, Senders, StageAgrees, Returned, Commands, Callers

-----------------------------------------------------------------------------
(* One lemma per action: the callers. *)

LEMMA CallKeeps == ASSUME IInv, NEW c \in Callers, Call(c) PROVE IInv'
<1>1. /\ c \in live /\ c \notin Sending /\ c \notin Active /\ c \in Commands
      /\ UNCHANGED <<live, owner>> /\ LineOK /\ ThreadOK /\ SlotsOK /\ CallersOK
  BY Listening DEF Call, IInv
<1>2. CASE loop = "stopped" /\ Becomes(c, "closed") /\ UNCHANGED <<loopVars, channelVars>>
  <2>1. /\ LineOK' /\ ThreadOK' /\ SlotsOK'
        /\ Sending' = Sending /\ Active' = Active /\ loop' = loop
    BY <1>1, <1>2, NothingMoves
  <2>2. owner \in {"joining", "down"}
    BY <1>1, <1>2 DEF CallersOK, ClosedOnlyByShutdown, Senders
  <2>3. CallersOK'
    BY <1>1, <1>2, <2>1, <2>2, OneStageMoves DEF CallersOK, Stages, Returned, Pending
  <2> QED
    BY <2>1, <2>3 DEF IInv
<1>3. CASE loop # "stopped" /\ PutInFreeSlot(c) /\ Becomes(c, "queued")
  <2>1. /\ permits > 0 /\ permits' = permits - 1 /\ Put(c) /\ UNCHANGED <<waiters, granted>>
    BY <1>3 DEF PutInFreeSlot
  <2>2. LineOK' /\ Sending' = Sending /\ Slots' = Slots - 1
    BY <1>1, <2>1, SlotTaken
  <2>3. /\ ThreadOK' /\ Active' = Active \cup {c} /\ loop' = loop
        /\ Len(queue') = Len(queue) + 1
    BY <1>1, <1>3, <2>1, CommandQueued
  <2>4. CallersOK'
    BY <1>1, <1>3, <2>2, <2>3, OneStageMoves DEF Stages, Returned, Pending
  <2> QED
    BY <1>1, <2>2, <2>3, <2>4, SlotsMove
<1>4. CASE loop # "stopped" /\ WaitForSlot(c) /\ Becomes(c, "sending")
  <2>1. LineOK' /\ Sending' = Sending \cup {c} /\ Slots' = Slots
    BY <1>1, <1>4, LineJoined
  <2>2. UNCHANGED loopVars
    BY <1>4 DEF WaitForSlot
  <2>3. ThreadOK' /\ Active' = Active /\ loop' = loop /\ queue' = queue
    BY <1>1, <2>2, ThreadStays
  <2>4. CallersOK'
    BY <1>1, <1>4, <2>1, <2>3, OneStageMoves DEF Stages, Returned, Pending
  <2> QED
    BY <1>1, <2>1, <2>3, <2>4, SlotsMove
<1>5. CASE Becomes(c, "overloaded") /\ UNCHANGED <<loopVars, channelVars>>
  <2>1. /\ LineOK' /\ ThreadOK' /\ SlotsOK'
        /\ Sending' = Sending /\ Active' = Active /\ loop' = loop
    BY <1>1, <1>5, NothingMoves
  <2>2. CallersOK'
    BY <1>1, <1>5, <2>1, OneStageMoves DEF CallersOK, Stages, Returned, Pending
  <2> QED
    BY <2>1, <2>2 DEF IInv
<1> QED
  BY <1>2, <1>3, <1>4, <1>5 DEF Call

LEMMA PushKeeps == ASSUME IInv, NEW c \in Callers, Push(c) PROVE IInv'
<1>1. /\ LineOK /\ ThreadOK /\ SlotsOK /\ CallersOK /\ c \in Commands
      /\ c \in granted /\ granted' = granted \ {c} /\ Put(c)
      /\ UNCHANGED <<permits, waiters>> /\ UNCHANGED <<live, owner>> /\ Becomes(c, "queued")
  BY Listening DEF IInv, Push, PutInGrantedSlot
<1>2. c \in Sending /\ c \notin Active /\ loop # "stopped" /\ c \in live
  <2>1. c \in Sending
    BY <1>1 DEF Sending
  <2> QED
    BY <1>1, <2>1, Listening DEF CallersOK, StageAgrees, Pending
<1>3. LineOK' /\ Sending' = Sending \ {c} /\ Slots' = Slots - 1
  BY <1>1, GrantedSlotTaken
<1>4. /\ ThreadOK' /\ Active' = Active \cup {c} /\ loop' = loop
      /\ Len(queue') = Len(queue) + 1
  BY <1>1, <1>2, CommandQueued
<1>5. CallersOK'
  BY <1>1, <1>2, <1>3, <1>4, OneStageMoves DEF Stages, Returned, Pending
<1> QED
  BY <1>1, <1>3, <1>4, <1>5, SlotsMove

\* Expire, and Cancel of a send.
LEMMA WithdrawKeeps ==
  ASSUME IInv, NEW c \in Callers, NEW s \in {"idle", "overloaded"},
         stage[c] = "sending", Withdraw(c), Becomes(c, s), UNCHANGED <<live, owner>>
  PROVE  IInv'
<1>1. /\ LineOK /\ ThreadOK /\ SlotsOK /\ CallersOK
      /\ c \in Sending /\ c \notin Active /\ loop # "stopped"
  <2>1. c \in Sending
    BY DEF IInv, CallersOK, StageAgrees
  <2> QED
    BY <2>1, Listening DEF IInv
<1>2. LineOK' /\ Sending' = Sending \ {c} /\ Slots' = Slots
  BY <1>1, Withdrawn
<1>3. UNCHANGED loopVars
  BY DEF Withdraw
<1>4. ThreadOK' /\ Active' = Active /\ loop' = loop /\ queue' = queue
  BY <1>1, <1>3, ThreadStays
<1>5. CallersOK'
  BY <1>1, <1>2, <1>4, OneStageMoves DEF Stages, Returned, Pending
<1> QED
  BY <1>1, <1>2, <1>4, <1>5, SlotsMove

LEMMA AbandonKeeps ==
  ASSUME IInv, NEW c \in Callers, stage[c] = "queued", Becomes(c, "abandoned"),
         UNCHANGED <<loopVars, channelVars>>, UNCHANGED <<live, owner>>
  PROVE  IInv'
<1>1. /\ LineOK /\ ThreadOK /\ SlotsOK /\ CallersOK /\ c \in Active /\ c \notin Sending
  BY DEF IInv, CallersOK, StageAgrees
<1>2. /\ LineOK' /\ ThreadOK' /\ SlotsOK'
      /\ Sending' = Sending /\ Active' = Active /\ loop' = loop
  BY <1>1, NothingMoves
<1>3. CallersOK'
  BY <1>1, <1>2, OneStageMoves DEF CallersOK, Stages, Returned, Pending
<1> QED
  BY <1>2, <1>3 DEF IInv

LEMMA HandleKeeps == ASSUME IInv, NEW c \in Callers, GetHandle(c) \/ DropHandle(c) PROVE IInv'
<1>1. /\ LineOK /\ ThreadOK /\ SlotsOK /\ CallersOK
      /\ UNCHANGED <<loopVars, channelVars>> /\ stage' = stage /\ owner' = owner
  BY DEF IInv, GetHandle, DropHandle
<1>2. /\ LineOK' /\ ThreadOK' /\ SlotsOK'
      /\ Sending' = Sending /\ Active' = Active /\ loop' = loop
  BY <1>1, NothingMoves
<1>3. \/ live' = live \cup {c} /\ (owner = "open" \/ live # {})
      \/ live' = live \ {c} /\ stage[c] \notin Pending
  BY DEF GetHandle, DropHandle
<1>4. StageAgrees'
  BY <1>1, <1>2, <1>3 DEF CallersOK, StageAgrees, Pending
<1>5. ClosedOnlyByShutdown'
  BY <1>1, <1>2, <1>3 DEF CallersOK, ClosedOnlyByShutdown, Senders
<1>6. CallersOK'
  BY <1>1, <1>2, <1>3, <1>4, <1>5 DEF CallersOK
<1> QED
  BY <1>2, <1>6 DEF IInv

LEMMA CallerKeeps == ASSUME IInv, NEW c \in Callers, CallerStep(c) PROVE IInv'
<1>1. CASE Call(c)
  BY <1>1, CallKeeps
<1>2. CASE Push(c)
  BY <1>2, PushKeeps
<1>3. CASE Expire(c)
  BY <1>3, WithdrawKeeps DEF Expire
<1>4. CASE Cancel(c)
  BY <1>4, WithdrawKeeps, AbandonKeeps DEF Cancel
<1>5. CASE GetHandle(c) \/ DropHandle(c)
  BY <1>5, HandleKeeps
<1> QED
  BY <1>1, <1>2, <1>3, <1>4, <1>5 DEF CallerStep

-----------------------------------------------------------------------------
(* The owner. *)

LEMMA OwnerMoves ==
  ASSUME IInv, UNCHANGED <<stage, live>>, loop' = loop, owner' \in Owners, owner # "down",
         \A c \in Callers : (c \in Sending' <=> c \in Sending) /\ (c \in Active' <=> c \in Active),
         owner' = "closing" <=> Shutdown \in Sending',
         Shutdown \in Active' => owner' = "joining",
         owner' = "down" => loop = "stopped",
         owner = "joining" => owner' = "down",
         owner = "dropped" => FALSE,
         loop = "stopped" => Sending' = {}
  PROVE  CallersOK'
<1>1. CallersOK /\ stage' = stage /\ live' = live
  BY DEF IInv
<1>2. StageAgrees'
  BY <1>1 DEF CallersOK, StageAgrees, Pending
<1>3. owner' \notin {"joining", "down"} =>
        loop \notin {"exiting", "stopped"} /\ \A c \in Callers : stage[c] # "closed"
  BY <1>1, Listening DEF CallersOK, ClosedOnlyByShutdown, Owners
<1> QED
  BY <1>1, <1>2, <1>3 DEF CallersOK, ClosedOnlyByShutdown

LEMMA OwnerKeeps == ASSUME IInv, OwnerStep PROVE IInv'
<1>1. /\ LineOK /\ ThreadOK /\ SlotsOK /\ CallersOK /\ Shutdown \in Commands
      /\ Shutdown \notin Callers
      /\ owner = "open" => Shutdown \notin Sending /\ Shutdown \notin Active /\ loop # "stopped"
      /\ owner = "closing" => Shutdown \in Sending /\ Shutdown \notin Active /\ loop # "stopped"
  BY Listening, InProcessAssumption DEF IInv, CallersOK, StageAgrees
<1>2. CASE owner = "open" /\ PutInFreeSlot(Shutdown) /\ owner' = "joining" /\ UNCHANGED <<stage, live>>
  <2>1. /\ permits > 0 /\ permits' = permits - 1 /\ Put(Shutdown) /\ UNCHANGED <<waiters, granted>>
    BY <1>2 DEF PutInFreeSlot
  <2>2. LineOK' /\ Sending' = Sending /\ Slots' = Slots - 1
    BY <1>1, <2>1, SlotTaken
  <2>3. /\ ThreadOK' /\ Active' = Active \cup {Shutdown} /\ loop' = loop
        /\ Len(queue') = Len(queue) + 1
    BY <1>1, <1>2, <2>1, CommandQueued
  <2>4. CallersOK'
    BY <1>1, <1>2, <2>2, <2>3, OwnerMoves DEF Owners
  <2> QED
    BY <2>2, <2>3, <2>4, SlotsMove
<1>3. CASE owner = "open" /\ WaitForSlot(Shutdown) /\ owner' = "closing" /\ UNCHANGED <<stage, live>>
  <2>1. LineOK' /\ Sending' = Sending \cup {Shutdown} /\ Slots' = Slots
    BY <1>1, <1>3, LineJoined
  <2>2. UNCHANGED loopVars
    BY <1>3 DEF WaitForSlot
  <2>3. ThreadOK' /\ Active' = Active /\ loop' = loop /\ queue' = queue
    BY <1>1, <2>2, ThreadStays
  <2>4. CallersOK'
    BY <1>1, <1>3, <2>1, <2>3, OwnerMoves DEF Owners
  <2> QED
    BY <2>1, <2>3, <2>4, SlotsMove
<1>4. CASE PushShutdown
  <2>1. /\ Shutdown \in granted /\ granted' = granted \ {Shutdown} /\ Put(Shutdown)
        /\ UNCHANGED <<permits, waiters>> /\ UNCHANGED <<stage, live>>
        /\ owner = "closing" /\ owner' = "joining"
    BY <1>4 DEF PushShutdown, PutInGrantedSlot
  <2>2. LineOK' /\ Sending' = Sending \ {Shutdown} /\ Slots' = Slots - 1
    BY <1>1, <2>1, GrantedSlotTaken
  <2>3. /\ ThreadOK' /\ Active' = Active \cup {Shutdown} /\ loop' = loop
        /\ Len(queue') = Len(queue) + 1
    BY <1>1, <2>1, CommandQueued
  <2>4. CallersOK'
    BY <1>1, <2>1, <2>2, <2>3, OwnerMoves DEF Owners
  <2> QED
    BY <2>2, <2>3, <2>4, SlotsMove
<1>5. CASE CancelShutdown
  <2>1. /\ owner = "closing" /\ owner' = "dropped" /\ UNCHANGED <<stage, live>>
        /\ Withdraw(Shutdown) /\ UNCHANGED loopVars
    BY <1>5 DEF CancelShutdown, Withdraw
  <2>2. LineOK' /\ Sending' = Sending \ {Shutdown} /\ Slots' = Slots
    BY <1>1, <2>1, Withdrawn
  <2>3. ThreadOK' /\ Active' = Active /\ loop' = loop /\ queue' = queue
    BY <1>1, <2>1, ThreadStays
  <2>4. CallersOK'
    BY <1>1, <2>1, <2>2, <2>3, OwnerMoves DEF Owners
  <2> QED
    BY <2>2, <2>3, <2>4, SlotsMove
<1>6. CASE Join \/ DropGateway
  <2>1. /\ UNCHANGED <<loopVars, channelVars>> /\ UNCHANGED <<stage, live>>
        /\ \/ owner = "joining" /\ loop = "stopped" /\ owner' = "down"
           \/ owner = "open" /\ owner' = "dropped"
    BY <1>6 DEF Join, DropGateway
  <2>2. /\ LineOK' /\ ThreadOK' /\ SlotsOK'
        /\ Sending' = Sending /\ Active' = Active /\ loop' = loop
    BY <1>1, <2>1, NothingMoves
  <2>3. loop = "stopped" => Active = {} /\ Sending = {}
    BY <1>1 DEF ThreadOK, ThreadShape, CallersOK
  <2>4. CallersOK'
    BY <1>1, <2>1, <2>2, <2>3, OwnerMoves DEF Owners, CallersOK, StageAgrees
  <2> QED
    BY <2>2, <2>4 DEF IInv
<1> QED
  BY <1>2, <1>3, <1>4, <1>5, <1>6 DEF OwnerStep, BeginShutdown

-----------------------------------------------------------------------------
(* The writer thread. *)

LEMMA LineFreed ==
  ASSUME LineOK, Freed(waiters, granted)
  PROVE  LineOK' /\ Sending' = Sending /\ Slots' = Slots + 1
<1>1. granted \in SUBSET Commands
  BY DEF LineOK
<1> QED
  BY <1>1, SlotFreed DEF LineOK, Sending, Slots

\* A command that is answered leaves the thread, and its caller learns it.
LEMMA AnswerMoves ==
  ASSUME CallersOK, NEW c \in Callers, c \in Active, c \notin Sending, Answered(c),
         UNCHANGED <<live, owner>>,
         Sending' = Sending, Active' = Active \ {c},
         loop # "stopped", loop' \notin {"exiting", "stopped"}
  PROVE  CallersOK'
<1> DEFINE s == IF stage[c] = "abandoned" THEN "idle" ELSE "served"
<1>1. s \in {"idle", "served"} /\ Becomes(c, s)
  BY DEF Answered
<1> HIDE DEF s
<1> QED
  BY <1>1, OneStageMoves DEF Stages, Returned, Pending

LEMMA ReceiveKeeps == ASSUME IInv, ReceiveCommand PROVE IInv'
<1> DEFINE c == Head(queue)
<1>1. /\ LineOK /\ ThreadOK /\ CallersOK /\ Receive /\ Freed(waiters, granted)
      /\ AnsweredIfAsk(c) /\ UNCHANGED <<live, owner>>
  BY DEF IInv, ReceiveCommand
<1>2. LineOK' /\ Sending' = Sending /\ Slots' = Slots + 1
  BY <1>1, LineFreed
<1>3. /\ ThreadOK' /\ loop = "recv" /\ loop' # "stopped" /\ c \in Commands /\ c \in Active
      /\ Active' = IF c \in Write THEN Active ELSE Active \ {c}
      /\ Len(queue') = Len(queue) - 1 /\ (loop' = "exiting" => c = Shutdown)
  BY <1>1, Received
<1> HIDE DEF c
<1>4. CallersOK'
  <2>1. CASE c \in Ask
    <3>1. c \in Callers /\ c \notin Sending /\ c # Shutdown /\ c \notin Write
      BY <1>3, <2>1, Listening, InProcessAssumption DEF Callers
    <3>2. Answered(c)
      BY <1>1, <2>1 DEF AnsweredIfAsk
    <3> QED
      BY <1>1, <1>2, <1>3, <3>1, <3>2, AnswerMoves
  <2>2. CASE c \notin Ask
    <3>1. stage' = stage
      BY <1>1, <2>2 DEF AnsweredIfAsk
    <3>2. /\ \A d \in Callers : d \in Active' <=> d \in Active
          /\ Shutdown \in Active' => Shutdown \in Active
      BY <1>3, <2>2, InProcessAssumption DEF Commands, Callers
    <3>3. loop' = "exiting" => owner = "joining"
      BY <1>1, <1>3 DEF CallersOK, StageAgrees
    <3> QED
      BY <1>1, <1>2, <1>3, <3>1, <3>2, <3>3, NoStageMoves
  <2> QED
    BY <2>1, <2>2
<1> QED
  BY <1>2, <1>3, <1>4, SlotsMove

LEMMA HandleDeferredKeeps == ASSUME IInv, HandleDeferred PROVE IInv'
<1> DEFINE c == deferred[1]
<1>1. /\ LineOK /\ ThreadOK /\ CallersOK /\ TakeDeferred
      /\ AnsweredIfAsk(c) /\ UNCHANGED <<live, owner>> /\ UNCHANGED channelVars
  BY DEF IInv, HandleDeferred
<1>2. LineOK' /\ Sending' = Sending /\ Slots' = Slots
  BY <1>1 DEF channelVars, LineOK, Sending, Slots
<1>3. /\ ThreadOK' /\ loop = "deferred" /\ loop' # "stopped" /\ c \in Commands /\ c \in Active
      /\ Active' = IF c \in Write THEN Active ELSE Active \ {c}
      /\ queue' = queue /\ (loop' = "exiting" => c = Shutdown)
  BY <1>1, DeferredTaken
<1> HIDE DEF c
<1>4. CallersOK'
  <2>1. CASE c \in Ask
    <3>1. c \in Callers /\ c \notin Sending /\ c # Shutdown /\ c \notin Write
      BY <1>3, <2>1, Listening, InProcessAssumption DEF Callers
    <3>2. Answered(c)
      BY <1>1, <2>1 DEF AnsweredIfAsk
    <3> QED
      BY <1>1, <1>2, <1>3, <3>1, <3>2, AnswerMoves
  <2>2. CASE c \notin Ask
    <3>1. stage' = stage
      BY <1>1, <2>2 DEF AnsweredIfAsk
    <3>2. /\ \A d \in Callers : d \in Active' <=> d \in Active
          /\ Shutdown \in Active' => Shutdown \in Active
      BY <1>3, <2>2, InProcessAssumption DEF Commands, Callers
    <3>3. loop' = "exiting" => owner = "joining"
      BY <1>1, <1>3 DEF CallersOK, StageAgrees
    <3> QED
      BY <1>1, <1>2, <1>3, <3>1, <3>2, <3>3, NoStageMoves
  <2> QED
    BY <2>1, <2>2
<1> QED
  BY <1>2, <1>3, <1>4, SlotsMove

LEMMA DrainKeeps == ASSUME IInv, DrainCommand \/ EndDrain \/ SeeNoSender PROVE IInv'
<1>1. /\ LineOK /\ ThreadOK /\ CallersOK /\ UNCHANGED <<stage, live, owner>>
  BY DEF IInv, DrainCommand, EndDrain, SeeNoSender
<1>2. CASE DrainCommand
  <2>1. LineOK' /\ Sending' = Sending /\ Slots' = Slots + 1
    BY <1>1, <1>2, LineFreed DEF DrainCommand
  <2>2. /\ ThreadOK' /\ loop' \in {"drain", "serve"} /\ loop = "drain"
        /\ Active' = Active /\ Len(queue') = Len(queue) - 1
    BY <1>1, <1>2, Drained DEF DrainCommand
  <2>3. CallersOK'
    BY <1>1, <2>1, <2>2, NoStageMoves
  <2> QED
    BY <2>1, <2>2, <2>3, SlotsMove
<1>3. CASE EndDrain \/ SeeNoSender
  <2>1. LineOK' /\ Sending' = Sending /\ Slots' = Slots
    BY <1>1, <1>3 DEF EndDrain, SeeNoSender, channelVars, LineOK, Sending, Slots
  <2>2. /\ ThreadOK' /\ Active' = Active /\ queue' = queue
        /\ loop # "stopped" /\ loop' # "stopped"
        /\ loop' = "exiting" => Senders = {}
    BY <1>1, <1>3, DrainEnded, NoneReceived DEF EndDrain, SeeNoSender
  <2>3. CallersOK'
    BY <1>1, <2>1, <2>2, NoStageMoves
  <2> QED
    BY <2>1, <2>2, <2>3, SlotsMove
<1> QED
  BY <1>2, <1>3

LEMMA AnswerKeeps == ASSUME IInv, AnswerWrite PROVE IInv'
<1> DEFINE c == Head(batch)
<1>1. /\ LineOK /\ ThreadOK /\ CallersOK /\ Respond /\ Answered(c)
      /\ UNCHANGED <<live, owner>> /\ UNCHANGED channelVars
  BY DEF IInv, AnswerWrite
<1>2. LineOK' /\ Sending' = Sending /\ Slots' = Slots
  BY <1>1 DEF channelVars, LineOK, Sending, Slots
<1>3. /\ ThreadOK' /\ loop' \in {"recv", "serve", "deferred"} /\ loop = "serve"
      /\ c \in Write /\ c \in Active /\ Active' = Active \ {c} /\ queue' = queue
  BY <1>1, Responded
<1> HIDE DEF c
<1>4. c \in Callers /\ c \notin Sending
  BY <1>3, Listening DEF Callers
<1>5. CallersOK'
  BY <1>1, <1>2, <1>3, <1>4, AnswerMoves
<1> QED
  BY <1>2, <1>3, <1>5, SlotsMove

LEMMA DropReceiverKeeps == ASSUME IInv, DropReceiver PROVE IInv'
<1>1. /\ LineOK /\ ThreadOK /\ CallersOK /\ Leave
      /\ stage' = [c \in Callers |-> ClosedStage(c)]
      /\ permits' = Capacity /\ waiters' = << >> /\ granted' = {}
      /\ live' = live /\ owner' = owner
  BY DEF IInv, DropReceiver
<1>2. /\ ThreadOK' /\ loop' = "stopped" /\ loop = "exiting" /\ Active' = {} /\ queue' = << >>
  BY <1>1, Left
<1>3. LineOK' /\ Sending' = {} /\ SlotsOK'
  BY <1>1, <1>2, EmptyHasNothing, FS_EmptySet, InProcessAssumption DEF LineOK, Sending, SlotsOK
<1>4. /\ stage' \in [Callers -> Stages]
      /\ \A c \in Callers : stage'[c] \in Returned
      /\ \A c \in Callers : stage'[c] = "closed" => stage[c] \in Pending \cup {"closed"}
  BY <1>1 DEF CallersOK, ClosedStage, Stages, Returned, Pending
<1>5. StageAgrees'
  <2>1. owner # "closing"
    BY <1>2, Listening
  <2> QED
    BY <1>1, <1>2, <1>3, <1>4, <2>1 DEF StageAgrees, Returned, Pending
<1>6. ClosedOnlyByShutdown'
  <2>1. owner \notin {"joining", "down"} => Senders = {} /\ \A c \in Callers : stage[c] \notin Pending \cup {"closed"}
    BY <1>1, <1>2 DEF CallersOK, ClosedOnlyByShutdown, StageAgrees, Senders
  <2>2. Senders' = Senders
    BY <1>1 DEF Senders
  <2> QED
    BY <1>1, <1>4, <2>1, <2>2 DEF ClosedOnlyByShutdown
<1>7. CallersOK'
  BY <1>1, <1>2, <1>3, <1>4, <1>5, <1>6 DEF CallersOK
<1> QED
  BY <1>2, <1>3, <1>7 DEF IInv

LEMMA WriterKeeps == ASSUME IInv, WriterStep PROVE IInv'
BY ReceiveKeeps, HandleDeferredKeeps, DrainKeeps, AnswerKeeps, DropReceiverKeeps DEF WriterStep

-----------------------------------------------------------------------------
(***************************************************************************)
(* The invariant, and what follows from it.                                *)
(***************************************************************************)
LEMMA InitIInv == Init => IInv
<1> SUFFICES ASSUME Init PROVE IInv
  OBVIOUS
<1>1. LineOK /\ Sending = {} /\ SlotsOK
  BY EmptyHasNothing, FS_EmptySet, InProcessAssumption DEF Init, LoopInit, LineOK, Sending, SlotsOK
<1>2. ThreadOK /\ Active = {}
  BY EmptyHasNothing DEF Init, LoopInit, ThreadOK, ThreadShape, Active, Held
<1>3. CallersOK
  BY <1>1, <1>2 DEF Init, LoopInit, CallersOK, StageAgrees, ClosedOnlyByShutdown, Stages,
                    Returned, Pending, Owners
<1> QED
  BY <1>1, <1>2, <1>3 DEF IInv

LEMMA NextIInv == IInv /\ [Next]_vars => IInv'
<1> SUFFICES ASSUME IInv, [Next]_vars PROVE IInv'
  OBVIOUS
<1>1. CASE WriterStep
  BY <1>1, WriterKeeps
<1>2. CASE \E c \in Callers : CallerStep(c)
  BY <1>2, CallerKeeps
<1>3. CASE OwnerStep
  BY <1>3, OwnerKeeps
<1>4. CASE UNCHANGED vars
  <2>1. UNCHANGED <<loopVars, channelVars>> /\ UNCHANGED <<stage, live, owner>>
    BY <1>4 DEF vars
  <2>2. /\ LineOK' /\ ThreadOK' /\ SlotsOK'
        /\ Sending' = Sending /\ Active' = Active /\ loop' = loop
    BY <2>1, NothingMoves DEF IInv
  <2>3. CallersOK'
    BY <2>1, <2>2 DEF IInv, CallersOK, StageAgrees, ClosedOnlyByShutdown, Senders, Pending
  <2> QED
    BY <2>2, <2>3 DEF IInv
<1> QED
  BY <1>1, <1>2, <1>3, <1>4 DEF Next, Gone

LEMMA IInvHolds == Spec => []IInv
BY InitIInv, NextIInv, PTL DEF Spec

(***************************************************************************)
(* Every variable keeps its type; the free slots never exceed the queue's  *)
(* capacity (the channel of open_with_config).                             *)
(***************************************************************************)
THEOREM TypeCorrect == Spec => []TypeOK
<1>1. IInv => TypeOK
  <2> SUFFICES ASSUME IInv PROVE TypeOK
    OBVIOUS
  <2>1. permits \in 0..Capacity
    BY FS_CardinalityType, InProcessAssumption DEF IInv, LineOK, ThreadOK, SlotsOK
  <2> QED
    BY <2>1 DEF TypeOK, IInv, LineOK, ThreadOK, CallersOK
<1> QED
  BY <1>1, IInvHolds, PTL

(***************************************************************************)
(* No slot is lost or made up, by timeouts, cancelled sends, grants or the *)
(* end of the thread, and none is free while a send waits.                 *)
(***************************************************************************)
THEOREM SlotsCorrect == Spec => []SlotsConserved
<1>1. IInv => SlotsConserved
  BY DEF IInv, LineOK, SlotsOK, SlotsConserved
<1> QED
  BY <1>1, IInvHolds, PTL

(***************************************************************************)
(* Each command is in one place, the one where its caller waits for it     *)
(* (execute, checkpoint, shutdown and the writer's loop together).         *)
(***************************************************************************)
THEOREM OnePlaceCorrect == Spec => []InOnePlace
<1>1. IInv => InOnePlace
  BY DEF IInv, LineOK, ThreadOK, CallersOK, InOnePlace
<1> QED
  BY <1>1, IInvHolds, PTL

(***************************************************************************)
(* A call that returned GatewayOverloaded or GatewayClosed, or that was    *)
(* withdrawn, left nothing behind that could run (execute).                *)
(***************************************************************************)
THEOREM ReturnedCorrect == Spec => []ReturnedLeavesNothing
<1>1. IInv => ReturnedLeavesNothing
  BY Listening DEF ReturnedLeavesNothing
<1> QED
  BY <1>1, IInvHolds, PTL

(***************************************************************************)
(* Only a shutdown closes the gateway to those who hold a handle (Drop).   *)
(***************************************************************************)
THEOREM ClosedCorrect == Spec => []ClosedOnlyByShutdown
<1>1. IInv => ClosedOnlyByShutdown
  BY DEF IInv, CallersOK
<1> QED
  BY <1>1, IInvHolds, PTL

(***************************************************************************)
(* When shutdown has returned, the thread is gone and no command is left.  *)
(***************************************************************************)
THEOREM DownCorrect == Spec => []DownMeansStopped
<1>1. IInv => DownMeansStopped
  <2> SUFFICES ASSUME IInv, owner = "down"
               PROVE  /\ loop = "stopped" /\ Sending \cup Active = {}
                      /\ \A c \in Callers : stage[c] \in Returned
    BY DEF DownMeansStopped
  <2>1. loop = "stopped" /\ Sending = {} /\ Active = {}
    BY DEF IInv, CallersOK, ThreadOK, ThreadShape
  <2>2. \A c \in Callers : stage[c] \in Returned
    BY <2>1 DEF IInv, CallersOK, StageAgrees, Stages, Returned, Pending
  <2> QED
    BY <2>1, <2>2
<1> QED
  BY <1>1, IInvHolds, PTL
=============================================================================
