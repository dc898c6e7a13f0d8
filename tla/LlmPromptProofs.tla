-------------------------- MODULE LlmPromptProofs ---------------------------
(***************************************************************************)
(* What a prompt of a provider agent guarantees.  Http::send, for every    *)
(* number of retries, every Retry-After and every reply: bounded patience, *)
(* and no second request once the sink was given anything.  stream_items and*)
(* ToolAccum, however the frames of a reply are cut and its calls interleave:*)
(* each call is reported with its own arguments, once and only after it    *)
(* began, Done carries the provider's last reason, and calls sent whole come*)
(* out in the order they went in.                                          *)
(***************************************************************************)
EXTENDS LlmPrompt, SequenceTheorems, FiniteSetTheorems, TLAPS

USE DEF httpVars, providerVars, accumVars, historyVars, Streams

\* Http::send between two awaits: a request is counted when it is sent, a
\* retry when its sleep ends, and only a request that can be replayed sleeps.
Patient ==
  /\ pc \in Stages
  /\ attempt \in Nat
  /\ attempt <= MaxRetries
  /\ attempt > 0 => Replayable
  /\ pause \in 0..120
  /\ pc = "pausing" => MayRetry
  /\ pc # "pausing" => pause = 0
  /\ slept \in Nat
  /\ slept <= 120 * attempt
  /\ requests = attempt + (IF pc = "sending" THEN 0 ELSE 1)

\* Nothing is emitted before a response is accepted.
Silent == pc \in {"sending", "pausing"} => ~spoke

-----------------------------------------------------------------------------
\* A sleep is at most a minute, whatever the server asks for.
LEMMA RetryAfterBounded ==
  ASSUME NEW s \in Nat
  PROVE  RetryAfter(s) \in 0..120
BY DEF RetryAfter

\* The backoff stops doubling at 32 seconds.
LEMMA BackoffBounded ==
  ASSUME NEW n \in Nat
  PROVE  Backoff(n) \in 0..120
<1>1. CASE n >= 6
  BY <1>1 DEF Backoff, Doubling
<1>2. CASE n \in 0..5
  <2>1. n = 0 \/ n = 1 \/ n = 2 \/ n = 3 \/ n = 4 \/ n = 5
    BY <1>2
  <2> QED BY <2>1 DEF Backoff, Doubling
<1> QED BY <1>1, <1>2

\* A retry sleeps for a time within bounds and is counted when it wakes.
LEMMA RetryPatient ==
  ASSUME Patient, NEW wait \in 0..120, RetryIn(wait)
  PROVE  Patient'
BY ConstantsOK DEF Patient, RetryIn, MayRetry, Stages

\* A step behind the response changes nothing Http::send counts.
LEMMA StreamPatient ==
  ASSUME Patient, UNCHANGED httpVars,
         pc \notin {"sending", "pausing"},
         pc' \in Stages \ {"sending", "pausing"}
  PROVE  Patient'
BY DEF Patient, MayRetry

\* The steps of stream_items start behind the response and stay there.
LEMMA StreamSteps ==
  ASSUME pc \in Stages,
         \/ \E f \in Frames, cut \in BOOLEAN : ChunkArrives(f, cut)
         \/ TailArrives \/ StreamEnds \/ StreamBreaks
         \/ Speak \/ HearStop \/ HearError \/ StartCall \/ AddArgs
         \/ EndCall \/ EndNothing
         \/ \E slot \in Slots : FlushCall(slot)
         \/ EmitDone \/ SinkFails
  PROVE  /\ UNCHANGED httpVars
         /\ pc \notin {"sending", "pausing"}
         /\ pc' \in Stages \ {"sending", "pausing"}
<1>1. CASE \E f \in Frames, cut \in BOOLEAN : ChunkArrives(f, cut)
  BY <1>1 DEF ChunkArrives, Reading, Stages
<1>2. CASE TailArrives \/ StreamEnds \/ StreamBreaks
  BY <1>2 DEF TailArrives, StreamEnds, StreamBreaks, Reading, Stages
<1>3. CASE Speak \/ HearStop \/ HearError
  BY <1>3 DEF Speak, HearStop, HearError, Handles, Stages
<1>4. CASE StartCall \/ AddArgs
  BY <1>4 DEF StartCall, AddArgs, Handles, Stages
<1>5. CASE EndCall \/ EndNothing
  BY <1>5 DEF EndCall, EndNothing, Handles, Stages
<1>6. CASE \E slot \in Slots : FlushCall(slot)
  BY <1>6 DEF FlushCall, Stages
<1>7. CASE EmitDone \/ SinkFails
  BY <1>7 DEF EmitDone, SinkFails, Stages
<1> QED BY <1>1, <1>2, <1>3, <1>4, <1>5, <1>6, <1>7

-----------------------------------------------------------------------------
\* Both invariants hold at all times.
THEOREM PatientCorrect == Spec => [](Patient /\ Silent)
<1>1. Init => Patient /\ Silent
  BY ConstantsOK DEF Init, Patient, Silent, Stages, MayRetry
<1>2. Patient /\ Silent /\ [Next]_vars => (Patient /\ Silent)'
  <2> SUFFICES ASSUME Patient, Silent, [Next]_vars
               PROVE  Patient' /\ Silent'
    OBVIOUS
  <2>1. ASSUME NEW asked \in RetryAfters \cup {None}, Overloaded(asked)
        PROVE  Patient' /\ Silent'
    <3> DEFINE wait == IF asked = None THEN Backoff(attempt) ELSE RetryAfter(asked)
    <3>1. RetryIn(wait)
      BY <2>1 DEF Overloaded
    <3>2. attempt \in Nat
      BY DEF Patient
    <3>3. wait \in 0..120
      <4>1. CASE asked = None
        BY <3>2, <4>1, BackoffBounded
      <4>2. CASE asked # None
        <5>1. asked \in Nat
          BY <4>2, ConstantsOK
        <5> QED BY <4>2, <5>1, RetryAfterBounded
      <4> QED BY <4>1, <4>2
    <3>4. Patient'
      <4> HIDE DEF wait
      <4> QED BY <3>1, <3>3, RetryPatient
    <3>5. Silent'
      BY <3>1 DEF RetryIn, Silent
    <3> QED BY <3>4, <3>5
  <2>2. CASE Unreached
    <3>1. Backoff(attempt) \in 0..120
      BY BackoffBounded DEF Patient
    <3>2. RetryIn(Backoff(attempt))
      BY <2>2 DEF Unreached
    <3>3. Patient'
      BY <3>1, <3>2, RetryPatient
    <3>4. Silent'
      BY <3>2 DEF RetryIn, Silent
    <3> QED BY <3>3, <3>4
  <2>3. CASE Resume
    <3>1. Patient'
      BY <2>3, ConstantsOK DEF Resume, Patient, MayRetry, Stages
    <3>2. Silent'
      BY <2>3 DEF Resume, Silent
    <3> QED BY <3>1, <3>2
  <2>4. CASE GivesUp \/ Accepted
    <3>1. Patient'
      BY <2>4 DEF GivesUp, Accepted, Patient, MayRetry, Stages
    <3>2. Silent'
      BY <2>4 DEF GivesUp, Accepted, Silent
    <3> QED BY <3>1, <3>2
  <2>5. ASSUME \/ \E f \in Frames, cut \in BOOLEAN : ChunkArrives(f, cut)
               \/ TailArrives \/ StreamEnds \/ StreamBreaks
               \/ Speak \/ HearStop \/ HearError \/ StartCall \/ AddArgs
               \/ EndCall \/ EndNothing
               \/ \E slot \in Slots : FlushCall(slot)
               \/ EmitDone \/ SinkFails
        PROVE  Patient' /\ Silent'
    <3>1. /\ UNCHANGED httpVars
          /\ pc \notin {"sending", "pausing"}
          /\ pc' \in Stages \ {"sending", "pausing"}
      BY <2>5, StreamSteps DEF Patient
    <3>2. Patient'
      BY <3>1, StreamPatient
    <3>3. Silent'
      BY <3>1 DEF Silent
    <3> QED BY <3>2, <3>3
  <2>6. CASE UNCHANGED vars
    BY <2>6 DEF vars, Patient, Silent, MayRetry
  <2> QED
    BY <2>1, <2>2, <2>3, <2>4, <2>5, <2>6 DEF Next, Progress, Rest
<1> QED BY <1>1, <1>2, PTL DEF Spec

\* At most MaxRetries requests replace the first, a minute apart at most
\* (Http::send, retry_after, backoff).
THEOREM PatienceHolds == Spec => []PatienceBounded
<1>1. Patient => PatienceBounded
  BY ConstantsOK DEF Patient, PatienceBounded, MayRetry, Stages
<1> QED BY <1>1, PatientCorrect, PTL

\* Output is never repeated: a request is sent only while the sink was given
\* nothing (Http::send, stream_items).
THEOREM NothingRepeatedHolds == Spec => NothingRepeated
<1>1. Patient /\ Silent /\ [Next]_vars
        => [requests' # requests => ~spoke]_vars
  <2> SUFFICES ASSUME Patient, Silent, Next, requests' # requests
               PROVE  ~spoke
    OBVIOUS
  <2>1. CASE Rest
    BY <2>1 DEF Rest, vars
  <2>2. CASE pc \in {"sending", "pausing"}
    BY <2>2 DEF Silent
  <2>3. CASE pc \notin {"sending", "pausing"} /\ ~Rest
    <3>1. ~RetryIn(Backoff(attempt)) /\ \A w : ~RetryIn(w)
      BY <2>3 DEF RetryIn
    <3>2. ~Unreached /\ \A asked \in RetryAfters \cup {None} : ~Overloaded(asked)
      BY <3>1 DEF Unreached, Overloaded
    <3>3. ~Resume /\ ~GivesUp /\ ~Accepted
      BY <2>3 DEF Resume, GivesUp, Accepted
    <3>4. UNCHANGED httpVars
      BY <2>3, <3>2, <3>3, StreamSteps DEF Next, Progress, Patient
    <3> QED BY <3>4
  <2> QED BY <2>1, <2>2, <2>3
<1> QED BY <1>1, PatientCorrect, PTL DEF Spec, NothingRepeated

-----------------------------------------------------------------------------
(* The items not handled yet, as a run of the accumulator.  The state of the *)
(* accumulator that matters is which call is open at which slot, which calls *)
(* it has heard of, and which it has reported, in order.                     *)

\* What the accumulator has open at each slot, has heard of, and has reported.
Accums == [table : [Slots -> Calls \cup {None}], heard : SUBSET Calls, order : Seq(Calls)]

\* One sequence starts another.
Starts(p, q) == Len(p) <= Len(q) /\ \A i \in 1..Len(p) : p[i] = q[i]

\* The accumulator may take an item, and what it is then: a call starts once
\* and at a free slot, and a piece or an end comes to the slot of its call.
Opens(a, e, b) ==
  /\ e.kind = "start" /\ e.call \in Calls \ a.heard /\ a.table[e.slot] = None
  /\ b = [table |-> [a.table EXCEPT ![e.slot] = e.call],
          heard |-> a.heard \cup {e.call}, order |-> a.order]

Closes(a, e, b) ==
  /\ e.kind = "end" /\ e.call \in Calls /\ a.table[e.slot] = e.call
  /\ b = [table |-> [a.table EXCEPT ![e.slot] = None],
          heard |-> a.heard, order |-> Append(a.order, e.call)]

Stays(a, e, b) ==
  /\ \/ e.kind \in {"text", "error"}
     \/ e.kind = "stop" /\ e.reason \in Reasons
     \/ e.kind = "args" /\ e.call \in Calls /\ a.table[e.slot] = e.call
     \/ e.kind = "end" /\ a.table[e.slot] = None
  /\ b = a

Takes(a, e, b) == Opens(a, e, b) \/ Closes(a, e, b) \/ Stays(a, e, b)

\* T leads from a to b along the items of q.
Run(q, T, a, b) ==
  /\ T \in [0..Len(q) -> Accums]
  /\ T[0] = a /\ T[Len(q)] = b
  /\ \A i \in 1..Len(q) : Takes(T[i - 1], q[i], T[i])
  /\ \A i \in 0..Len(q) : Starts(T[i].order, b.order)

\* A sequence of items is a run of the accumulator.
Plays(q, a, b) == q \in Seq(Items) /\ \E T : Run(q, T, a, b)

\* What starts a sequence starts its extensions.
LEMMA StartsThrough ==
  ASSUME NEW p \in Seq(Calls), NEW q \in Seq(Calls), NEW r \in Seq(Calls),
         Starts(p, q), Starts(q, r)
  PROVE  Starts(p, r)
<1>1. Len(p) \in Nat /\ Len(q) \in Nat /\ Len(r) \in Nat /\ Len(p) <= Len(q) /\ Len(q) <= Len(r)
  BY DEF Starts
<1>2. \A i \in 1..Len(p) : i \in 1..Len(q)
  BY <1>1
<1>3. \A i \in 1..Len(p) : p[i] = q[i] /\ q[i] = r[i]
  BY <1>2 DEF Starts
<1>4. Len(p) <= Len(r)
  BY <1>1
<1> QED BY <1>3, <1>4 DEF Starts

\* A sequence starts itself, and itself with one more element.
LEMMA StartsAppend ==
  ASSUME NEW p \in Seq(Calls), NEW c \in Calls
  PROVE  Starts(p, p) /\ Starts(p, Append(p, c))
BY DEF Starts

\* Nothing is played by no items.
LEMMA PlaysNone ==
  ASSUME NEW a \in Accums
  PROVE  Plays(<<>>, a, a)
<1> DEFINE T == [i \in 0..0 |-> a]
<1>1. a.order \in Seq(Calls)
  BY DEF Accums
<1>2. Starts(a.order, a.order)
  BY <1>1 DEF Starts
<1>3. Len(<<>>) = 0 /\ <<>> \in Seq(Items)
  OBVIOUS
<1>4. T \in [0..0 -> Accums] /\ T[0] = a /\ \A i \in 0..0 : T[i] = a
  OBVIOUS
<1> HIDE DEF T
<1>5. Run(<<>>, T, a, a)
  BY <1>2, <1>3, <1>4 DEF Run
<1> QED BY <1>3, <1>5 DEF Plays

\* An item that is taken leads to an accumulator, whose order starts with the old.
LEMMA TakesTyped ==
  ASSUME NEW a \in Accums, NEW e \in Items, NEW b, Takes(a, e, b)
  PROVE  b \in Accums /\ Starts(a.order, b.order)
<1>0. /\ a.table \in [Slots -> Calls \cup {None}] /\ a.heard \subseteq Calls
      /\ a.order \in Seq(Calls) /\ e.slot \in Slots
  BY DEF Accums, Items
<1>1. CASE Opens(a, e, b)
  <2>1. [a.table EXCEPT ![e.slot] = e.call] \in [Slots -> Calls \cup {None}]
    BY <1>0, <1>1 DEF Opens
  <2>2. a.heard \cup {e.call} \subseteq Calls
    BY <1>0, <1>1 DEF Opens
  <2>3. b \in Accums /\ b.order = a.order
    BY <1>0, <1>1, <2>1, <2>2 DEF Opens, Accums
  <2> QED BY <1>0, <2>3, StartsAppend DEF Starts
<1>2. CASE Closes(a, e, b)
  <2>1. [a.table EXCEPT ![e.slot] = None] \in [Slots -> Calls \cup {None}]
    BY <1>0
  <2>2. Append(a.order, e.call) \in Seq(Calls) /\ e.call \in Calls
    BY <1>0, <1>2 DEF Closes
  <2>3. b \in Accums /\ b.order = Append(a.order, e.call)
    BY <1>0, <1>2, <2>1, <2>2 DEF Closes, Accums
  <2> QED BY <1>0, <2>2, <2>3, StartsAppend
<1>3. CASE Stays(a, e, b)
  BY <1>0, <1>3 DEF Stays, Starts
<1> QED BY <1>1, <1>2, <1>3 DEF Takes

\* One item.
LEMMA PlaysOne ==
  ASSUME NEW a \in Accums, NEW e \in Items, NEW b, Takes(a, e, b)
  PROVE  Plays(<<e>>, a, b)
<1> DEFINE T == [i \in 0..1 |-> IF i = 0 THEN a ELSE b]
<1>1. b \in Accums /\ Starts(a.order, b.order) /\ Starts(b.order, b.order)
  <2>1. b \in Accums /\ Starts(a.order, b.order)
    BY TakesTyped
  <2>2. b.order \in Seq(Calls)
    BY <2>1 DEF Accums
  <2> QED BY <2>1, <2>2 DEF Starts
<1>2. Len(<<e>>) = 1 /\ <<e>> \in Seq(Items) /\ <<e>>[1] = e
  OBVIOUS
<1>3. T \in [0..1 -> Accums] /\ T[0] = a /\ T[1] = b
  BY <1>1
<1>4. \A i \in 1..1 : T[i - 1] = a /\ T[i] = b /\ <<e>>[i] = e
  BY <1>2, <1>3
<1>5. \A i \in 0..1 : T[i] = a \/ T[i] = b
  OBVIOUS
<1> HIDE DEF T
<1>6. Run(<<e>>, T, a, b)
  BY <1>1, <1>2, <1>3, <1>4, <1>5 DEF Run
<1> QED BY <1>2, <1>6 DEF Plays

\* The ends of a run are accumulators.
LEMMA PlaysTyped ==
  ASSUME NEW q, NEW a, NEW b, Plays(q, a, b)
  PROVE  a \in Accums /\ b \in Accums /\ Starts(a.order, b.order) /\ q \in Seq(Items)
<1>1. PICK T : Run(q, T, a, b)
  BY DEF Plays
<1>2. q \in Seq(Items) /\ Len(q) \in Nat
  BY DEF Plays
<1>3. 0 \in 0..Len(q) /\ Len(q) \in 0..Len(q)
  BY <1>2
<1> QED BY <1>1, <1>2, <1>3 DEF Run

\* The items of one run behind those of another.
LEMMA PlaysBoth ==
  ASSUME NEW p, NEW q, NEW a, NEW b, NEW c, Plays(p, a, b), Plays(q, b, c)
  PROVE  Plays(p \o q, a, c)
<1>1. PICK S : Run(p, S, a, b)
  BY DEF Plays
<1>2. PICK T : Run(q, T, b, c)
  BY DEF Plays
<1>3. p \in Seq(Items) /\ q \in Seq(Items)
  BY DEF Plays
<1>4. PICK m \in Nat : m = Len(p)
  BY <1>3
<1>5. PICK n \in Nat : n = Len(q)
  BY <1>3
<1>6. PICK r \in Seq(Items) : r = p \o q
  <2>1. p \o q \in Seq(Items)
    BY <1>3, ConcatProperties
  <2> QED BY <2>1, Zenon
<1>7. /\ Len(r) = m + n
      /\ \A i \in 1..(m + n) : r[i] = IF i <= m THEN p[i] ELSE q[i - m]
  BY <1>3, <1>4, <1>5, <1>6, ConcatProperties
<1>8. /\ S \in [0..m -> Accums] /\ S[0] = a /\ S[m] = b
      /\ \A i \in 1..m : Takes(S[i - 1], p[i], S[i])
      /\ \A i \in 0..m : Starts(S[i].order, b.order)
  BY <1>1, <1>4 DEF Run
<1>9. /\ T \in [0..n -> Accums] /\ T[0] = b /\ T[n] = c
      /\ \A i \in 1..n : Takes(T[i - 1], q[i], T[i])
      /\ \A i \in 0..n : Starts(T[i].order, c.order)
  BY <1>2, <1>5 DEF Run
<1> DEFINE U == [i \in 0..(m + n) |-> IF i <= m THEN S[i] ELSE T[i - m]]
<1>10. ASSUME NEW i \in 0..(m + n), i > m PROVE U[i] = T[i - m] /\ i - m \in 1..n
  BY <1>10
<1>11. ASSUME NEW i \in 0..(m + n), i <= m PROVE U[i] = S[i] /\ i \in 0..m
  BY <1>11
<1>12. U[m] = T[0]
  <2>1. m \in 0..(m + n)
    OBVIOUS
  <2> QED BY <1>8, <1>9, <1>11, <2>1
<1>13. U \in [0..(m + n) -> Accums]
  <2>1. ASSUME NEW i \in 0..(m + n) PROVE U[i] \in Accums
    <3>1. CASE i <= m
      BY <1>8, <1>11, <3>1
    <3>2. CASE i > m
      BY <1>9, <1>10, <3>2
    <3> QED BY <3>1, <3>2
  <2> QED BY <2>1
<1>14. U[0] = a
  BY <1>8, <1>11
<1>15. U[m + n] = c
  <2>1. CASE n = 0
    BY <1>9, <1>12, <2>1
  <2>2. CASE n # 0
    <3>1. m + n \in 0..(m + n) /\ m + n > m /\ m + n - m = n
      BY <2>2
    <3> QED BY <1>9, <1>10, <3>1
  <2> QED BY <2>1, <2>2
<1> HIDE DEF U
<1>16. ASSUME NEW i \in 1..(m + n) PROVE Takes(U[i - 1], r[i], U[i])
  <2>1. CASE i <= m
    <3>1. i \in 1..m /\ i - 1 \in 0..(m + n) /\ i - 1 <= m /\ i \in 0..(m + n)
      BY <2>1
    <3>2. U[i - 1] = S[i - 1] /\ U[i] = S[i] /\ r[i] = p[i]
      BY <1>7, <1>11, <2>1, <3>1
    <3> QED BY <1>8, <3>1, <3>2
  <2>2. CASE i > m
    <3>1. /\ i - m \in 1..n /\ i - 1 \in 0..(m + n) /\ i \in 0..(m + n) /\ ~(i <= m)
          /\ (i - m) - 1 = (i - 1) - m
      BY <2>2
    <3>2. U[i] = T[i - m] /\ r[i] = q[i - m]
      BY <1>7, <1>10, <2>2, <3>1
    <3>3. U[i - 1] = T[(i - m) - 1]
      <4>1. CASE i - 1 = m
        BY <1>12, <3>1, <4>1, SMTT(30)
      <4>2. CASE i - 1 # m
        <5>1. i - 1 > m
          BY <2>2, <4>2
        <5> QED BY <1>10, <3>1, <5>1
      <4> QED BY <4>1, <4>2
    <3> QED BY <1>9, <3>1, <3>2, <3>3
  <2> QED BY <2>1, <2>2
<1>17. ASSUME NEW i \in 0..(m + n) PROVE Starts(U[i].order, c.order)
  <2>1. CASE i <= m
    <3>1. i \in 0..m /\ U[i] = S[i]
      BY <1>11, <2>1
    <3>2. Starts(S[i].order, b.order) /\ S[i] \in Accums
      BY <1>8, <3>1
    <3>3. Starts(b.order, c.order) /\ b \in Accums /\ c \in Accums
      BY PlaysTyped
    <3>4. S[i].order \in Seq(Calls) /\ b.order \in Seq(Calls) /\ c.order \in Seq(Calls)
      BY <3>2, <3>3 DEF Accums
    <3> QED BY <3>1, <3>2, <3>3, <3>4, StartsThrough
  <2>2. CASE i > m
    <3>1. i - m \in 0..n /\ U[i] = T[i - m]
      BY <1>10, <2>2
    <3> QED BY <1>9, <3>1
  <2> QED BY <2>1, <2>2
<1>18. Run(r, U, a, c)
  BY <1>7, <1>13, <1>14, <1>15, <1>16, <1>17 DEF Run
<1> QED BY <1>6, <1>18 DEF Plays

\* The first item of a run, and the run that is left.
LEMMA PlaysHead ==
  ASSUME NEW q, NEW a, NEW c, Plays(q, a, c), q # <<>>
  PROVE  \E b : Takes(a, Head(q), b) /\ Plays(Tail(q), b, c)
<1>1. PICK T : Run(q, T, a, c)
  BY DEF Plays
<1>2. q \in Seq(Items)
  BY DEF Plays
<1>3. PICK n \in Nat : n = Len(q)
  BY <1>2
<1>4. PICK r \in Seq(Items) : r = Tail(q)
  <2>1. Tail(q) \in Seq(Items)
    BY <1>2
  <2> QED BY <2>1, Zenon
<1>5. n >= 1 /\ Head(q) = q[1]
  BY <1>2, <1>3
<1>6. Len(r) = n - 1 /\ \A i \in 1..(n - 1) : r[i] = q[i + 1]
  BY <1>2, <1>3, <1>4
<1>7. /\ T \in [0..n -> Accums] /\ T[0] = a /\ T[n] = c
      /\ \A i \in 1..n : Takes(T[i - 1], q[i], T[i])
      /\ \A i \in 0..n : Starts(T[i].order, c.order)
  BY <1>1, <1>3 DEF Run
<1> DEFINE U == [i \in 0..(n - 1) |-> T[i + 1]]
<1>8. Takes(a, Head(q), T[1])
  <2>1. 1 \in 1..n /\ 1 - 1 = 0
    BY <1>5
  <2> QED BY <1>5, <1>7, <2>1
<1>9. \A i \in 0..(n - 1) : U[i] = T[i + 1] /\ i + 1 \in 0..n
  BY <1>5
<1>10. U \in [0..(n - 1) -> Accums]
  <2>1. \A i \in 0..(n - 1) : T[i + 1] \in Accums
    BY <1>7, <1>9
  <2> QED BY <2>1
<1>11. U[0] = T[1] /\ U[n - 1] = c
  <2>1. 0 \in 0..(n - 1) /\ n - 1 \in 0..(n - 1) /\ (n - 1) + 1 = n /\ 0 + 1 = 1
    BY <1>5
  <2> QED BY <1>7, <1>9, <2>1
<1> HIDE DEF U
<1>12. ASSUME NEW i \in 1..(n - 1) PROVE Takes(U[i - 1], r[i], U[i])
  <2>1. i - 1 \in 0..(n - 1) /\ i \in 0..(n - 1) /\ i + 1 \in 1..n /\ (i - 1) + 1 = (i + 1) - 1
    OBVIOUS
  <2>2. U[i - 1] = T[(i + 1) - 1] /\ U[i] = T[i + 1]
    BY <1>9, <2>1
  <2>3. Takes(T[(i + 1) - 1], q[i + 1], T[i + 1])
    BY <1>7, <2>1
  <2> QED BY <1>6, <2>2, <2>3
<1>13. \A i \in 0..(n - 1) : Starts(U[i].order, c.order)
  BY <1>7, <1>9
<1>14. Run(r, U, T[1], c)
  BY <1>6, <1>10, <1>11, <1>12, <1>13 DEF Run
<1> QED BY <1>4, <1>8, <1>14 DEF Plays

\* An item that comes or not.
LEMMA PlaysSome ==
  ASSUME NEW flag \in BOOLEAN, NEW a \in Accums, NEW e \in Items, NEW b,
         flag => Takes(a, e, b), ~flag => b = a
  PROVE  Plays(Some(flag, e), a, b) /\ b \in Accums
<1>1. CASE flag
  BY <1>1, PlaysOne, TakesTyped DEF Some
<1>2. CASE ~flag
  BY <1>2, PlaysNone DEF Some
<1> QED BY <1>1, <1>2

\* No items lead nowhere.
LEMMA PlaysNothing ==
  ASSUME NEW a, NEW b, Plays(<<>>, a, b)
  PROVE  b = a
<1>1. PICK T : Run(<<>>, T, a, b)
  BY DEF Plays
<1>2. Len(<<>>) = 0
  OBVIOUS
<1> QED BY <1>1, <1>2 DEF Run

-----------------------------------------------------------------------------
(* parse_line.                                                             *)

\* What a frame and its parts hold.
PartType ==
  [call : Calls \cup {None}, slot : Slots, opens : BOOLEAN, args : BOOLEAN, closes : BOOLEAN]

FrameType ==
  [text : BOOLEAN, reason : Reasons \cup {None}, parts : Seq(PartType), error : BOOLEAN]

\* A frame of at most two parts, and of none if it is an error.
Sound(f) == f \in FrameType /\ Len(f.parts) <= 2 /\ (f.error => f.parts = <<>>)

\* An item's fields.
LEMMA ItemIs ==
  ASSUME NEW kind \in {"text", "stop", "error", "start", "args", "end"},
         NEW c \in Calls \cup {None}, NEW s \in Slots, NEW reason \in Reasons \cup {None}
  PROVE  /\ Item(kind, c, s, reason) \in Items
         /\ Item(kind, c, s, reason).kind = kind
         /\ Item(kind, c, s, reason).call = c
         /\ Item(kind, c, s, reason).slot = s
         /\ Item(kind, c, s, reason).reason = reason
BY DEF Item, Items

\* The items of one part.
LEMMA PlaysPart ==
  ASSUME NEW p \in PartType, NEW a \in Accums, NEW b, NEW c,
         p.opens => Takes(a, Item("start", p.call, p.slot, None), b),
         ~p.opens => b = a,
         p.args => Takes(b, Item("args", p.call, p.slot, None), b),
         p.closes => Takes(b, Item("end", p.call, p.slot, None), c),
         ~p.closes => c = b
  PROVE  Plays(PartItems(p), a, c) /\ c \in Accums
<1>1. /\ p.opens \in BOOLEAN /\ p.args \in BOOLEAN /\ p.closes \in BOOLEAN
      /\ p.call \in Calls \cup {None} /\ p.slot \in Slots
  BY DEF PartType
<1>2. \A k \in {"start", "args", "end"} : Item(k, p.call, p.slot, None) \in Items
  BY <1>1, ItemIs
<1>3. Plays(Some(p.opens, Item("start", p.call, p.slot, None)), a, b) /\ b \in Accums
  BY <1>1, <1>2, PlaysSome
<1>4. Plays(Some(p.args, Item("args", p.call, p.slot, None)), b, b)
  BY <1>1, <1>2, <1>3, PlaysSome
<1>5. Plays(Some(p.closes, Item("end", p.call, p.slot, None)), b, c) /\ c \in Accums
  BY <1>1, <1>2, <1>3, PlaysSome
<1>6. Plays(Some(p.opens, Item("start", p.call, p.slot, None))
              \o Some(p.args, Item("args", p.call, p.slot, None)), a, b)
  BY <1>3, <1>4, PlaysBoth
<1> QED BY <1>5, <1>6, PlaysBoth DEF PartItems

\* The items of no part, of one and of two.
LEMMA PartsItemsIs ==
  ASSUME NEW parts \in Seq(PartType)
  PROVE  /\ Len(parts) = 0 => PartsItems(parts) = <<>>
         /\ Len(parts) = 1 => PartsItems(parts) = <<>> \o PartItems(parts[1])
         /\ Len(parts) = 2 =>
              PartsItems(parts) = (<<>> \o PartItems(parts[1])) \o PartItems(parts[2])
<1> DEFINE u == CHOOSE h : h = [n \in 0..Len(parts) |->
                                  IF n = 0 THEN <<>> ELSE h[n - 1] \o PartItems(parts[n])]
<1>1. PartsItems(parts) = u[Len(parts)]
  BY DEF PartsItems
<1>2. ASSUME Len(parts) \in 0..2
      PROVE  \E h : h = [n \in 0..Len(parts) |->
                           IF n = 0 THEN <<>> ELSE h[n - 1] \o PartItems(parts[n])]
  <2> DEFINE one == <<>> \o PartItems(parts[1])
             two == one \o PartItems(parts[2])
             g == [n \in 0..Len(parts) |-> IF n = 0 THEN <<>> ELSE IF n = 1 THEN one ELSE two]
  <2> HIDE DEF one, two
  <2>1. ASSUME NEW n \in 0..Len(parts)
        PROVE  g[n] = IF n = 0 THEN <<>> ELSE g[n - 1] \o PartItems(parts[n])
    <3>1. CASE n = 0
      BY <3>1
    <3>2. CASE n = 1
      <4>1. 0 \in 0..Len(parts) /\ n - 1 = 0
        BY <1>2, <3>2
      <4>2. g[n] = one /\ g[n - 1] = <<>>
        BY <3>2, <4>1
      <4> HIDE DEF g
      <4> QED BY <3>2, <4>2 DEF one
    <3>3. CASE n = 2
      <4>1. 1 \in 0..Len(parts) /\ n - 1 = 1
        BY <1>2, <3>3
      <4>2. g[n] = two /\ g[n - 1] = one
        BY <3>3, <4>1
      <4> HIDE DEF g
      <4> QED BY <3>3, <4>2 DEF two
    <3> QED BY <1>2, <3>1, <3>2, <3>3
  <2>2. g = [n \in 0..Len(parts) |-> g[n]]
    OBVIOUS
  <2> HIDE DEF g
  <2>3. g = [n \in 0..Len(parts) |->
               IF n = 0 THEN <<>> ELSE g[n - 1] \o PartItems(parts[n])]
    BY <2>1, <2>2
  <2> QED BY <2>3
<1>3. ASSUME Len(parts) \in 0..2
      PROVE  u = [n \in 0..Len(parts) |->
                    IF n = 0 THEN <<>> ELSE u[n - 1] \o PartItems(parts[n])]
  BY <1>2, <1>3, Zenon
<1> HIDE DEF u
<1>4. ASSUME Len(parts) \in 0..2, NEW n \in 0..Len(parts)
      PROVE  u[n] = IF n = 0 THEN <<>> ELSE u[n - 1] \o PartItems(parts[n])
  BY <1>3, <1>4
<1>5. Len(parts) \in 0..2 => u[0] = <<>>
  BY <1>4
<1>6. ASSUME Len(parts) \in 1..2 PROVE u[1] = u[0] \o PartItems(parts[1])
  <2>1. Len(parts) \in 0..2 /\ 1 \in 0..Len(parts) /\ 1 - 1 = 0 /\ 1 # 0
    BY <1>6
  <2>2. u[1] = IF 1 = 0 THEN <<>> ELSE u[1 - 1] \o PartItems(parts[1])
    BY <1>4, <2>1, Zenon
  <2> QED BY <2>1, <2>2, Zenon
<1>7. Len(parts) = 2 => u[2] = u[1] \o PartItems(parts[2])
  BY <1>4
<1>8. /\ Len(parts) = 0 => Len(parts) \in 0..2
      /\ Len(parts) = 1 => Len(parts) \in 0..2 /\ Len(parts) \in 1..2
      /\ Len(parts) = 2 => Len(parts) \in 0..2 /\ Len(parts) \in 1..2
  OBVIOUS
<1>9. CASE Len(parts) = 0
  BY <1>1, <1>5, <1>8, <1>9
<1>10. CASE Len(parts) = 1
  <2>1. u[0] = <<>> /\ u[1] = u[0] \o PartItems(parts[1]) /\ PartsItems(parts) = u[1]
    BY <1>1, <1>5, <1>6, <1>8, <1>10
  <2>2. PartsItems(parts) = <<>> \o PartItems(parts[1])
    BY <2>1, Zenon
  <2> QED BY <1>10, <2>2
<1>11. CASE Len(parts) = 2
  <2>1. /\ u[0] = <<>> /\ u[1] = u[0] \o PartItems(parts[1])
        /\ u[2] = u[1] \o PartItems(parts[2]) /\ PartsItems(parts) = u[2]
    BY <1>1, <1>5, <1>6, <1>7, <1>8, <1>11
  <2>2. PartsItems(parts) = (<<>> \o PartItems(parts[1])) \o PartItems(parts[2])
    BY <2>1, Zenon
  <2> QED BY <1>11, <2>2
<1> QED BY <1>9, <1>10, <1>11

\* Slot 0 and the slots up to the number of calls.
LEMMA SlotsAre ==
  /\ Cardinality(Calls) \in Nat
  /\ Slots = 0..Cardinality(Calls)
  /\ 0 \in Slots
<1>1. Cardinality(Calls) \in Nat
  BY ConstantsOK, FS_CardinalityType
<1> QED BY <1>1 DEF Slots

\* No line parses to nothing.
LEMMA ParseNone == Parse(None) = <<>>
BY DEF Parse

\* A frame's text, stop reason or error leaves the accumulator alone: the frame
\* is played by the items of its parts.
LEMMA ParsePlays ==
  ASSUME NEW f, Sound(f), NEW a, NEW b, Plays(PartsItems(f.parts), a, b)
  PROVE  Plays(Parse(f), a, b)
<1>1. f # None
  BY NoneApart DEF Sound, FrameType, PartType
<1>2. a \in Accums /\ b \in Accums
  BY PlaysTyped
<1>3. /\ f.text \in BOOLEAN /\ f.reason \in Reasons \cup {None} /\ f.error \in BOOLEAN
      /\ f.parts \in Seq(PartType) /\ (f.error => f.parts = <<>>)
  BY DEF Sound, FrameType
<1>4. CASE f.error
  <2>1. Plays(<<>>, a, b)
    <3>1. Len(f.parts) = 0
      BY <1>3, <1>4
    <3>2. PartsItems(f.parts) = <<>>
      BY <1>3, <3>1, PartsItemsIs
    <3> QED BY <3>2
  <2>2. b = a
    BY <2>1, PlaysNothing
  <2> DEFINE e == Item("error", None, 0, None)
  <2>3. e \in Items /\ e.kind = "error"
    BY SlotsAre, ItemIs
  <2>4. Parse(f) = <<e>>
    BY <1>1, <1>4 DEF Parse
  <2> HIDE DEF e
  <2>5. Takes(a, e, a)
    BY <2>3 DEF Takes, Stays
  <2>6. Plays(<<e>>, a, a)
    BY <1>2, <2>3, <2>5, PlaysOne
  <2> QED BY <2>2, <2>4, <2>6
<1>5. CASE ~f.error
  <2> DEFINE e == Item("text", None, 0, None)
             g == Item("stop", None, 0, f.reason)
             said == Some(f.text, e)
             why == Some(f.reason # None, g)
  <2>1. e \in Items /\ e.kind = "text" /\ g \in Items /\ g.kind = "stop" /\ g.reason = f.reason
    <3>1. e \in Items /\ e.kind = "text"
      BY SlotsAre, ItemIs
    <3>2. PICK reason \in Reasons \cup {None} : reason = f.reason
      BY <1>3
    <3>3. g \in Items /\ g.kind = "stop" /\ g.reason = f.reason
      BY <3>2, SlotsAre, ItemIs, SMTT(30)
    <3> QED BY <3>1, <3>3
  <2>2. Parse(f) = (IF dialect = "gemini" THEN why \o said ELSE said \o why) \o PartsItems(f.parts)
    BY <1>1, <1>5 DEF Parse
  <2> HIDE DEF e, g
  <2>3. Takes(a, e, a) /\ (f.reason # None => Takes(a, g, a))
    BY <1>3, <2>1 DEF Takes, Stays
  <2>4. Plays(said, a, a) /\ Plays(why, a, a)
    <3>1. (f.reason # None) \in BOOLEAN
      OBVIOUS
    <3> QED BY <1>2, <1>3, <2>1, <2>3, <3>1, PlaysSome
  <2> HIDE DEF said, why
  <2>5. Plays(why \o said, a, a) /\ Plays(said \o why, a, a)
    BY <2>4, PlaysBoth
  <2>6. CASE dialect = "gemini"
    <3>1. Plays((why \o said) \o PartsItems(f.parts), a, b)
      BY <2>5, PlaysBoth
    <3> QED BY <2>2, <2>6, <3>1
  <2>7. CASE dialect # "gemini"
    <3>1. Plays((said \o why) \o PartsItems(f.parts), a, b)
      BY <2>5, PlaysBoth
    <3> QED BY <2>2, <2>7, <3>1
  <2> QED BY <2>6, <2>7
<1> QED BY <1>4, <1>5, <1>3

-----------------------------------------------------------------------------
(* The calls a provider begins, and their slots.                           *)

\* A sequence without repeats is no longer than the calls are many.
LEMMA DistinctShort ==
  ASSUME NEW q \in Seq(Calls), Distinct(q)
  PROVE  Len(q) <= Cardinality(Calls)
<1>1. PICK n \in Nat : n = Len(q)
  OBVIOUS
<1>2. q \in [1..n -> Calls]
  BY <1>1
<1>3. q \in Injection(1..n, Calls)
  BY <1>2 DEF Distinct, Injection, IsInjective
<1>5. Cardinality(1..n) = n
  <2>1. 1 \in Int /\ n \in Int
    OBVIOUS
  <2>2. Cardinality(1..n) = IF 1 > n THEN 0 ELSE n - 1 + 1
    BY <2>1, FS_Interval
  <2> QED BY <2>2
<1>6. Cardinality(1..n) <= Cardinality(Calls)
  BY <1>3, ConstantsOK, FS_Injection
<1> QED BY <1>1, <1>5, <1>6

\* The slot of a call is its place among the calls begun.
LEMMA SlotIs ==
  ASSUME NEW q \in Seq(Calls), Distinct(q), NEW i \in 1..Len(q)
  PROVE  SlotOf(q[i], q) = i - 1
<1>1. DOMAIN q = 1..Len(q)
  OBVIOUS
<1>2. \A j \in DOMAIN q : q[j] = q[i] => j = i
  BY <1>1 DEF Distinct
<1>3. (CHOOSE j \in DOMAIN q : q[j] = q[i]) = i
  BY <1>1, <1>2
<1> QED BY <1>3 DEF SlotOf

\* The elements at no place, at one and at two.
LEMMA PickedIs ==
  ASSUME NEW q
  PROVE  /\ Picked(q, {}) = <<>>
         /\ Picked(q, {1}) = <<q[1]>>
         /\ Picked(q, {2}) = <<q[2]>>
         /\ Picked(q, {1, 2}) = <<q[1], q[2]>>
<1>1. /\ Cardinality({}) = 0
      /\ \A x : Cardinality({x}) = 1
      /\ Cardinality({1, 2}) = 2
  <2>1. Cardinality({1} \cup {2}) = 2
    <3>1. IsFiniteSet({1}) /\ Cardinality({1}) = 1
      BY FS_Singleton
    <3>2. {1} \cup {2} = {1, 2} /\ 2 \notin {1}
      OBVIOUS
    <3> QED BY <3>1, FS_AddElement
  <2>2. {1} \cup {2} = {1, 2}
    OBVIOUS
  <2> QED BY <2>1, <2>2, FS_EmptySet, FS_Singleton
<1>2. Picked(q, {}) = <<>>
  BY <1>1 DEF Picked
<1>3. ASSUME NEW x \in {1, 2} PROVE Picked(q, {x}) = <<q[x]>>
  <2>1. {j \in {x} : j <= x} = {x}
    OBVIOUS
  <2>2. (CHOOSE i \in {x} : Cardinality({j \in {x} : j <= i}) = 1) = x
    BY <1>1, <2>1
  <2>3. Picked(q, {x}) = [n \in 1..1 |->
          q[CHOOSE i \in {x} : Cardinality({j \in {x} : j <= i}) = n]]
    BY <1>1 DEF Picked
  <2>4. \A n \in 1..1 : q[CHOOSE i \in {x} : Cardinality({j \in {x} : j <= i}) = n] = q[x]
    <3>1. \A n \in 1..1 : n = 1
      OBVIOUS
    <3> QED BY <2>2, <3>1
  <2> QED BY <2>3, <2>4
<1>4. Picked(q, {1, 2}) = <<q[1], q[2]>>
  <2>1. {j \in {1, 2} : j <= 1} = {1} /\ {j \in {1, 2} : j <= 2} = {1, 2}
    OBVIOUS
  <2>2. /\ Cardinality({j \in {1, 2} : j <= 1}) = 1
        /\ Cardinality({j \in {1, 2} : j <= 2}) = 2
    BY <1>1, <2>1
  <2> DEFINE At(n) == CHOOSE i \in {1, 2} : Cardinality({j \in {1, 2} : j <= i}) = n
  <2>3. At(1) = 1 /\ At(2) = 2
    BY <2>2
  <2>4. Picked(q, {1, 2}) = [n \in 1..2 |-> q[At(n)]]
    BY <1>1 DEF Picked
  <2> HIDE DEF At
  <2>5. [n \in 1..2 |-> q[At(n)]] = <<q[1], q[2]>>
    BY <2>3
  <2> QED BY <2>4, <2>5
<1> QED BY <1>2, <1>3, <1>4

\* The calls of a sequence.
Called(bg) == {bg[i] : i \in DOMAIN bg}

\* No call is open.
NoTable == [s \in Slots |-> None]

\* The accumulator has caught up with the provider, which began the calls bg and
\* closed the calls ov: it has heard of each call begun and holds each call not
\* closed at its slot; Gemini's calls are all reported, in order.
Meets(e, bg, ov) ==
  /\ e \in Accums /\ bg \in Seq(Calls) /\ Distinct(bg)
  /\ e.heard = Called(bg)
  /\ dialect = "gemini" => e.order = bg /\ e.table = NoTable
  /\ dialect = "openai" => ov = {}
  /\ dialect # "gemini" =>
       /\ \A i \in 1..Len(bg) : bg[i] \notin ov => e.table[i - 1] = bg[i]
       /\ \A s \in Slots : s >= Len(bg) => e.table[s] = None

\* One more call begun.
LEMMA MoreDistinct ==
  ASSUME NEW bg \in Seq(Calls), Distinct(bg), NEW c \in Calls, c \notin Called(bg)
  PROVE  /\ Append(bg, c) \in Seq(Calls)
         /\ Distinct(Append(bg, c))
         /\ Called(Append(bg, c)) = Called(bg) \cup {c}
         /\ Len(Append(bg, c)) = Len(bg) + 1
         /\ Append(bg, c)[Len(bg) + 1] = c
         /\ \A i \in 1..Len(bg) : Append(bg, c)[i] = bg[i]
         /\ Len(bg) \in 0..(Cardinality(Calls) - 1)
<1>1. PICK n \in Nat : n = Len(bg)
  OBVIOUS
<1>2. PICK r \in Seq(Calls) : r = Append(bg, c)
  <2>1. Append(bg, c) \in Seq(Calls)
    OBVIOUS
  <2> QED BY <2>1, Zenon
<1>3. /\ Len(r) = n + 1 /\ r[n + 1] = c
      /\ \A i \in 1..n : r[i] = bg[i]
      /\ DOMAIN r = 1..(n + 1) /\ DOMAIN bg = 1..n
  BY <1>1, <1>2
<1>4. \A i \in 1..n : bg[i] # c
  BY <1>3 DEF Called
<1>5. Distinct(r)
  BY <1>3, <1>4 DEF Distinct
<1>6. Called(r) = Called(bg) \cup {c}
  BY <1>3 DEF Called
<1>7. Len(r) <= Cardinality(Calls)
  BY <1>5, DistinctShort
<1>8. n \in 0..(Cardinality(Calls) - 1)
  BY <1>3, <1>7, SlotsAre
<1> QED BY <1>1, <1>2, <1>3, <1>5, <1>6, <1>8

\* A call that starts takes the next slot, with or without a piece.
LEMMA OpenPart ==
  ASSUME NEW a, NEW bg, NEW ov, Meets(a, bg, ov), dialect # "gemini",
         NEW c \in Calls, c \notin Called(bg), NEW args \in BOOLEAN
  PROVE  /\ Part(c, Len(bg), TRUE, args, FALSE) \in PartType
         /\ \E e : /\ Plays(PartItems(Part(c, Len(bg), TRUE, args, FALSE)), a, e)
                   /\ Meets(e, Append(bg, c), ov)
<1>1. /\ a \in Accums /\ bg \in Seq(Calls) /\ Distinct(bg) /\ a.heard = Called(bg)
      /\ (dialect = "openai" => ov = {})
      /\ \A i \in 1..Len(bg) : bg[i] \notin ov => a.table[i - 1] = bg[i]
      /\ \A s \in Slots : s >= Len(bg) => a.table[s] = None
  BY DEF Meets
<1>2. PICK n \in Nat : n = Len(bg)
  BY <1>1
<1>3. PICK r : r = Append(bg, c)
  OBVIOUS
<1>4. /\ r \in Seq(Calls) /\ Distinct(r) /\ Called(r) = Called(bg) \cup {c}
      /\ Len(r) = n + 1 /\ r[n + 1] = c /\ \A i \in 1..n : r[i] = bg[i]
      /\ n \in Slots
  BY <1>1, <1>2, <1>3, MoreDistinct, SlotsAre
<1>5. /\ a.table \in [Slots -> Calls \cup {None}] /\ a.heard \subseteq Calls
      /\ a.order \in Seq(Calls) /\ a.table[n] = None
  BY <1>1, <1>2, <1>4 DEF Accums
<1> DEFINE p == Part(c, n, TRUE, args, FALSE)
           e == [table |-> [a.table EXCEPT ![n] = c],
                 heard |-> a.heard \cup {c}, order |-> a.order]
           start == Item("start", c, n, None)
           piece == Item("args", c, n, None)
<1>6. p \in PartType /\ p.call = c /\ p.slot = n /\ p.opens /\ p.args = args /\ ~p.closes
  BY <1>4 DEF Part, PartType
<1>7. /\ start \in Items /\ start.kind = "start" /\ start.call = c /\ start.slot = n
      /\ piece \in Items /\ piece.kind = "args" /\ piece.call = c /\ piece.slot = n
  <2>1. start \in Items /\ start.kind = "start" /\ start.call = c /\ start.slot = n
    BY <1>4, ItemIs
  <2>2. piece \in Items /\ piece.kind = "args" /\ piece.call = c /\ piece.slot = n
    BY <1>4, ItemIs
  <2> QED BY <2>1, <2>2
<1>8. e.table \in [Slots -> Calls \cup {None}] /\ e.table[n] = c
      /\ e.heard = Called(r) /\ e.order = a.order
      /\ \A s \in Slots : s # n => e.table[s] = a.table[s]
  BY <1>1, <1>4, <1>5
<1>9. Takes(a, start, e)
  <2> HIDE DEF start
  <2> QED BY <1>1, <1>5, <1>7 DEF Takes, Opens
<1> HIDE DEF e
<1>10. Takes(e, piece, e)
  <2> HIDE DEF piece
  <2> QED BY <1>7, <1>8 DEF Takes, Stays
<1>11. Plays(PartItems(p), a, e) /\ e \in Accums
  <2> HIDE DEF p
  <2> QED BY <1>1, <1>6, <1>9, <1>10, PlaysPart
<1>12. Meets(e, r, ov)
  <2>1. \A i \in 1..Len(r) : r[i] \notin ov => e.table[i - 1] = r[i]
    <3> SUFFICES ASSUME NEW i \in 1..(n + 1), r[i] \notin ov
                 PROVE  e.table[i - 1] = r[i]
      BY <1>4
    <3>1. CASE i = n + 1
      BY <1>4, <1>8, <3>1
    <3>2. CASE i # n + 1
      <4>1. i \in 1..n /\ i - 1 \in Slots /\ i - 1 # n
        BY <1>4, <3>2, SlotsAre
      <4> QED BY <1>1, <1>2, <1>4, <1>8, <4>1
    <3> QED BY <3>1, <3>2
  <2>2. \A s \in Slots : s >= Len(r) => e.table[s] = None
    <3> SUFFICES ASSUME NEW s \in Slots, s >= n + 1
                 PROVE  e.table[s] = None
      BY <1>4
    <3>1. s # n /\ s >= n
      BY SlotsAre
    <3> QED BY <1>1, <1>2, <1>8, <3>1
  <2> QED BY <1>1, <1>4, <1>8, <1>11, <2>1, <2>2 DEF Meets
<1> HIDE DEF p
<1> QED BY <1>2, <1>3, <1>6, <1>11, <1>12 DEF p

\* A piece for a call that is open comes to its slot.
LEMMA HeldPart ==
  ASSUME NEW a, NEW bg, NEW ov, Meets(a, bg, ov), dialect # "gemini",
         NEW i \in 1..Len(bg), bg[i] \notin ov, NEW args \in BOOLEAN
  PROVE  /\ Part(bg[i], i - 1, FALSE, args, FALSE) \in PartType
         /\ Plays(PartItems(Part(bg[i], i - 1, FALSE, args, FALSE)), a, a)
<1>1. /\ a \in Accums /\ bg \in Seq(Calls) /\ Distinct(bg) /\ a.table[i - 1] = bg[i]
  BY DEF Meets
<1>2. PICK c \in Calls : c = bg[i]
  BY <1>1
<1>3. PICK s \in Slots : s = i - 1
  BY <1>1, DistinctShort, SlotsAre
<1> DEFINE p == Part(c, s, FALSE, args, FALSE)
           piece == Item("args", c, s, None)
<1>4. p \in PartType /\ p.call = c /\ p.slot = s /\ ~p.opens /\ p.args = args /\ ~p.closes
  BY DEF Part, PartType
<1>5. piece \in Items /\ piece.kind = "args" /\ piece.call = c /\ piece.slot = s
  BY ItemIs
<1>6. Takes(a, piece, a)
  <2> HIDE DEF piece
  <2> QED BY <1>1, <1>2, <1>3, <1>5 DEF Takes, Stays
<1>7. Plays(PartItems(p), a, a)
  <2> HIDE DEF p
  <2> QED BY <1>1, <1>4, <1>6, PlaysPart
<1> HIDE DEF p
<1> QED BY <1>2, <1>3, <1>4, <1>7 DEF p

\* A call that ends leaves its slot.
LEMMA ClosePart ==
  ASSUME NEW a, NEW bg, NEW ov, Meets(a, bg, ov), dialect = "anthropic",
         NEW i \in 1..Len(bg), bg[i] \notin ov
  PROVE  /\ Part(bg[i], i - 1, FALSE, FALSE, TRUE) \in PartType
         /\ \E e : /\ Plays(PartItems(Part(bg[i], i - 1, FALSE, FALSE, TRUE)), a, e)
                   /\ Meets(e, bg, ov \cup {bg[i]})
<1>1. /\ a \in Accums /\ bg \in Seq(Calls) /\ Distinct(bg) /\ a.table[i - 1] = bg[i]
      /\ a.heard = Called(bg)
      /\ \A j \in 1..Len(bg) : bg[j] \notin ov => a.table[j - 1] = bg[j]
      /\ \A t \in Slots : t >= Len(bg) => a.table[t] = None
  BY DEF Meets
<1>2. PICK c \in Calls : c = bg[i]
  BY <1>1
<1>3. PICK s \in Slots : s = i - 1
  BY <1>1, DistinctShort, SlotsAre
<1>4. PICK n \in Nat : n = Len(bg) /\ n <= Cardinality(Calls) /\ DOMAIN bg = 1..n
  BY <1>1, DistinctShort
<1>5. /\ a.table \in [Slots -> Calls \cup {None}] /\ a.heard \subseteq Calls
      /\ a.order \in Seq(Calls)
  BY <1>1 DEF Accums
<1> DEFINE p == Part(c, s, FALSE, FALSE, TRUE)
           e == [table |-> [a.table EXCEPT ![s] = None],
                 heard |-> a.heard, order |-> Append(a.order, c)]
           end == Item("end", c, s, None)
<1>6. p \in PartType /\ p.call = c /\ p.slot = s /\ ~p.opens /\ ~p.args /\ p.closes
  BY DEF Part, PartType
<1>7. end \in Items /\ end.kind = "end" /\ end.call = c /\ end.slot = s
  BY ItemIs
<1>8. e.table[s] = None /\ e.heard = a.heard /\ \A t \in Slots : t # s => e.table[t] = a.table[t]
  BY <1>5
<1>9. Takes(a, end, e)
  <2> HIDE DEF end
  <2> QED BY <1>1, <1>2, <1>3, <1>7 DEF Takes, Closes
<1> HIDE DEF e
<1>10. Plays(PartItems(p), a, e) /\ e \in Accums
  <2> HIDE DEF p
  <2> QED BY <1>1, <1>6, <1>9, PlaysPart
<1>11. Meets(e, bg, ov \cup {c})
  <2>1. ASSUME NEW j \in 1..Len(bg), bg[j] \notin ov \cup {c}
        PROVE  e.table[j - 1] = bg[j]
    <3>1. j # i /\ bg[j] \notin ov
      BY <1>2, <2>1
    <3>2. j - 1 \in Slots /\ j - 1 # s
      BY <1>3, <1>4, <3>1, SlotsAre
    <3> QED BY <1>1, <1>8, <3>1, <3>2
  <2>2. ASSUME NEW t \in Slots, t >= Len(bg)
        PROVE  e.table[t] = None
    <3>1. t # s
      BY <1>3, <1>4, <2>2, SlotsAre
    <3> QED BY <1>1, <1>8, <2>2, <3>1
  <2> QED BY <1>1, <1>8, <1>10, <2>1, <2>2 DEF Meets
<1> HIDE DEF p
<1> QED BY <1>2, <1>3, <1>6, <1>10, <1>11 DEF p

\* A call that is whole is reported at once.
LEMMA WholePart ==
  ASSUME NEW a, NEW bg, NEW ov, NEW done, Meets(a, bg, ov), dialect = "gemini",
         NEW c \in Calls, c \notin Called(bg), NEW s \in Slots
  PROVE  /\ Part(c, s, TRUE, TRUE, TRUE) \in PartType
         /\ \E e : /\ Plays(PartItems(Part(c, s, TRUE, TRUE, TRUE)), a, e)
                   /\ Meets(e, Append(bg, c), done)
<1>1. /\ a \in Accums /\ bg \in Seq(Calls) /\ Distinct(bg) /\ a.heard = Called(bg)
      /\ a.order = bg /\ a.table = NoTable
  BY DEF Meets
<1>2. PICK r : r = Append(bg, c)
  OBVIOUS
<1>3. r \in Seq(Calls) /\ Distinct(r) /\ Called(r) = Called(bg) \cup {c}
  BY <1>1, <1>2, MoreDistinct
<1>4. /\ a.table \in [Slots -> Calls \cup {None}] /\ a.heard \subseteq Calls
      /\ a.order \in Seq(Calls) /\ a.table[s] = None
  BY <1>1 DEF Accums, NoTable
<1> DEFINE p == Part(c, s, TRUE, TRUE, TRUE)
           b == [table |-> [a.table EXCEPT ![s] = c],
                 heard |-> a.heard \cup {c}, order |-> a.order]
           e == [table |-> [b.table EXCEPT ![s] = None],
                 heard |-> b.heard, order |-> Append(b.order, c)]
           start == Item("start", c, s, None)
           piece == Item("args", c, s, None)
           end == Item("end", c, s, None)
<1>5. p \in PartType /\ p.call = c /\ p.slot = s /\ p.opens /\ p.args /\ p.closes
  BY DEF Part, PartType
<1>6. start \in Items /\ start.kind = "start" /\ start.call = c /\ start.slot = s
  BY ItemIs
<1>7. piece \in Items /\ piece.kind = "args" /\ piece.call = c /\ piece.slot = s
  BY ItemIs
<1>8. end \in Items /\ end.kind = "end" /\ end.call = c /\ end.slot = s
  BY ItemIs
<1> HIDE DEF start, piece, end
<1>9. b.table[s] = c /\ b.table \in [Slots -> Calls \cup {None}] /\ b.order = bg
      /\ b.heard = Called(r)
  BY <1>1, <1>3, <1>4
<1>10. e.table = NoTable /\ e.heard = Called(r) /\ e.order = r
  BY <1>1, <1>2, <1>9 DEF NoTable
<1>11. Takes(a, start, b)
  BY <1>1, <1>4, <1>6 DEF Takes, Opens
<1>12. Takes(b, end, e)
  <2> HIDE DEF b
  <2> QED BY <1>8, <1>9 DEF Takes, Closes
<1> HIDE DEF b, e
<1>13. Takes(b, piece, b)
  BY <1>7, <1>9 DEF Takes, Stays
<1>14. Plays(PartItems(p), a, e) /\ e \in Accums
  <2> HIDE DEF p
  <2>1. /\ Takes(a, Item("start", p.call, p.slot, None), b)
        /\ Takes(b, Item("args", p.call, p.slot, None), b)
        /\ Takes(b, Item("end", p.call, p.slot, None), e)
    BY <1>5, <1>11, <1>12, <1>13 DEF start, piece, end
  <2> QED BY <1>1, <1>5, <2>1, PlaysPart
<1>15. Meets(e, r, done)
  BY <1>3, <1>10, <1>14 DEF Meets
<1> HIDE DEF p
<1> QED BY <1>2, <1>5, <1>14, <1>15 DEF p

\* The items of at most two parts, part by part.
LEMMA PlaysParts ==
  ASSUME NEW parts \in Seq(PartType), NEW a \in Accums, NEW b, NEW c
  PROVE  /\ Len(parts) = 0 => Plays(PartsItems(parts), a, a)
         /\ Len(parts) = 1 /\ Plays(PartItems(parts[1]), a, b) => Plays(PartsItems(parts), a, b)
         /\ Len(parts) = 2 /\ Plays(PartItems(parts[1]), a, b) /\ Plays(PartItems(parts[2]), b, c)
              => Plays(PartsItems(parts), a, c)
<1>1. Plays(<<>>, a, a)
  BY PlaysNone
<1>2. ASSUME Len(parts) = 0 PROVE Plays(PartsItems(parts), a, a)
  <2>1. PartsItems(parts) = <<>>
    BY <1>2, PartsItemsIs
  <2> QED BY <1>1, <2>1, Zenon
<1>3. ASSUME Len(parts) = 1, Plays(PartItems(parts[1]), a, b)
      PROVE  Plays(PartsItems(parts), a, b)
  <2>1. Plays(<<>> \o PartItems(parts[1]), a, b)
    BY <1>1, <1>3, PlaysBoth
  <2> QED BY <1>3, <2>1, PartsItemsIs
<1>4. ASSUME Len(parts) = 2, Plays(PartItems(parts[1]), a, b), Plays(PartItems(parts[2]), b, c)
      PROVE  Plays(PartsItems(parts), a, c)
  <2>1. Plays(<<>> \o PartItems(parts[1]), a, b)
    BY <1>1, <1>4, PlaysBoth
  <2>2. Plays((<<>> \o PartItems(parts[1])) \o PartItems(parts[2]), a, c)
    BY <1>4, <2>1, PlaysBoth
  <2> QED BY <1>4, <2>2, PartsItemsIs
<1> QED BY <1>2, <1>3, <1>4

\* The calls begun once a frame's parts are sent.
After(bg, parts) ==
  LET opened == Picked(parts, {i \in DOMAIN parts : parts[i].opens})
  IN  bg \o [i \in DOMAIN opened |-> opened[i].call]

\* A set of places of at most two.
LEMMA Places ==
  ASSUME NEW n \in 0..2, NEW S \in SUBSET (1..n)
  PROVE  /\ n = 0 => S = {}
         /\ n = 1 /\ 1 \in S => S = {1}
         /\ n = 1 /\ 1 \notin S => S = {}
         /\ n = 2 /\ 1 \in S /\ 2 \in S => S = {1, 2}
         /\ n = 2 /\ 1 \in S /\ 2 \notin S => S = {1}
         /\ n = 2 /\ 1 \notin S /\ 2 \in S => S = {2}
         /\ n = 2 /\ 1 \notin S /\ 2 \notin S => S = {}
<1>1. \A i \in S : i \in 1..n
  OBVIOUS
<1>2. CASE n = 0
  BY <1>1, <1>2
<1>3. CASE n = 1
  <2>1. \A i \in S : i = 1
    BY <1>1, <1>3
  <2>2. 1 \in S => S \subseteq {1} /\ {1} \subseteq S
    BY <2>1
  <2>3. 1 \notin S => \A i : i \notin S
    BY <2>1
  <2>4. (1 \in S => S = {1}) /\ (1 \notin S => S = {})
    BY <2>2, <2>3, Zenon
  <2> QED BY <1>3, <2>4
<1>4. CASE n = 2
  <2>1. \A i \in S : i = 1 \/ i = 2
    BY <1>1, <1>4
  <2>2. 1 \in S /\ 2 \in S => S \subseteq {1, 2} /\ {1, 2} \subseteq S
    BY <2>1
  <2>3. 1 \in S /\ 2 \notin S => S \subseteq {1} /\ {1} \subseteq S
    BY <2>1
  <2>4. 1 \notin S /\ 2 \in S => S \subseteq {2} /\ {2} \subseteq S
    BY <2>1
  <2>5. 1 \notin S /\ 2 \notin S => \A i : i \notin S
    BY <2>1
  <2>6. /\ 1 \in S /\ 2 \in S => S = {1, 2}
        /\ 1 \in S /\ 2 \notin S => S = {1}
        /\ 1 \notin S /\ 2 \in S => S = {2}
        /\ 1 \notin S /\ 2 \notin S => S = {}
    BY <2>2, <2>3, <2>4, <2>5, Zenon
  <2> QED BY <1>4, <2>6
<1> QED BY <1>2, <1>3, <1>4

\* The calls begun grow with the parts that open one, in their order.
LEMMA AfterIs ==
  ASSUME NEW parts \in Seq(PartType), Len(parts) <= 2, NEW bg \in Seq(Calls),
         \A i \in 1..Len(parts) : parts[i].opens => parts[i].call \in Calls,
         NEW one, one = IF parts[1].opens THEN Append(bg, parts[1].call) ELSE bg
  PROVE  /\ Len(parts) = 0 => After(bg, parts) = bg
         /\ Len(parts) = 1 => After(bg, parts) = one
         /\ Len(parts) = 2 =>
              After(bg, parts) = IF parts[2].opens THEN Append(one, parts[2].call) ELSE one
<1>1. PICK n \in 0..2 : n = Len(parts) /\ DOMAIN parts = 1..n
  <2>1. Len(parts) \in Nat /\ DOMAIN parts = 1..Len(parts)
    OBVIOUS
  <2>2. Len(parts) \in 0..2
    BY <2>1
  <2> QED BY <2>1, <2>2
<1> DEFINE S == {i \in DOMAIN parts : parts[i].opens}
           Of(opened) == bg \o [i \in DOMAIN opened |-> opened[i].call]
<1>2. S \subseteq 1..n /\ \A i \in 1..n : i \in S <=> parts[i].opens
  BY <1>1
<1>3. After(bg, parts) = Of(Picked(parts, S))
  BY DEF After
<1> HIDE DEF S
<1>4. Of(<<>>) = bg
  <2>1. [i \in DOMAIN <<>> |-> <<>>[i].call] = <<>>
    OBVIOUS
  <2>2. bg \o <<>> = bg
    BY ConcatEmptySeq
  <2> QED BY <2>1, <2>2
<1>5. ASSUME NEW x, x.call \in Calls PROVE Of(<<x>>) = Append(bg, x.call)
  <2>1. [i \in DOMAIN <<x>> |-> <<x>>[i].call] = <<x.call>>
    OBVIOUS
  <2>2. bg \o <<x.call>> = Append(bg, x.call)
    BY <1>5, AppendIsConcat
  <2> QED BY <2>1, <2>2
<1>6. ASSUME NEW x, NEW y, x.call \in Calls, y.call \in Calls
      PROVE  Of(<<x, y>>) = Append(Append(bg, x.call), y.call)
  <2>1. [i \in DOMAIN <<x, y>> |-> <<x, y>>[i].call] = <<x.call, y.call>>
    OBVIOUS
  <2>2. bg \o <<x.call, y.call>> = Append(Append(bg, x.call), y.call)
    BY <1>6
  <2> QED BY <2>1, <2>2
<1> HIDE DEF Of
<1>7. CASE n = 0
  <2>1. S = {}
    BY <1>2, <1>7, Places
  <2> QED BY <1>1, <1>3, <1>4, <1>7, <2>1, PickedIs
<1>8. CASE n = 1
  <2>1. 1 \in S <=> parts[1].opens
    BY <1>2, <1>8
  <2>2. CASE parts[1].opens
    <3>1. S = {1} /\ parts[1].call \in Calls
      BY <1>1, <1>2, <1>8, <2>1, <2>2, Places
    <3>2. After(bg, parts) = Append(bg, parts[1].call)
      BY <1>3, <1>5, <3>1, PickedIs
    <3> QED BY <1>1, <1>8, <2>2, <3>2
  <2>3. CASE ~parts[1].opens
    <3>1. S = {}
      BY <1>2, <1>8, <2>1, <2>3, Places
    <3>2. After(bg, parts) = bg
      BY <1>3, <1>4, <3>1, PickedIs
    <3> QED BY <1>1, <1>8, <2>3, <3>2
  <2> QED BY <2>2, <2>3
<1>9. CASE n = 2
  <2>1. /\ 1 \in S <=> parts[1].opens
        /\ 2 \in S <=> parts[2].opens
    BY <1>2, <1>9
  <2>2. /\ parts[1].opens => parts[1].call \in Calls
        /\ parts[2].opens => parts[2].call \in Calls
    BY <1>1, <1>9
  <2>3. CASE parts[1].opens /\ parts[2].opens
    <3>1. S = {1, 2}
      BY <1>2, <1>9, <2>1, <2>3, Places
    <3>2. After(bg, parts) = Append(Append(bg, parts[1].call), parts[2].call)
      BY <1>3, <1>6, <2>2, <2>3, <3>1, PickedIs
    <3> QED BY <1>1, <1>9, <2>3, <3>2
  <2>4. CASE parts[1].opens /\ ~parts[2].opens
    <3>1. S = {1}
      BY <1>2, <1>9, <2>1, <2>4, Places
    <3>2. After(bg, parts) = Append(bg, parts[1].call)
      BY <1>3, <1>5, <2>2, <2>4, <3>1, PickedIs
    <3> QED BY <1>1, <1>9, <2>4, <3>2
  <2>5. CASE ~parts[1].opens /\ parts[2].opens
    <3>1. S = {2}
      BY <1>2, <1>9, <2>1, <2>5, Places
    <3>2. After(bg, parts) = Append(bg, parts[2].call)
      BY <1>3, <1>5, <2>2, <2>5, <3>1, PickedIs
    <3> QED BY <1>1, <1>9, <2>5, <3>2
  <2>6. CASE ~parts[1].opens /\ ~parts[2].opens
    <3>1. S = {}
      BY <1>2, <1>9, <2>1, <2>6, Places
    <3>2. After(bg, parts) = bg
      BY <1>3, <1>4, <3>1, PickedIs
    <3> QED BY <1>1, <1>9, <2>6, <3>2
  <2> QED BY <2>3, <2>4, <2>5, <2>6
<1> QED BY <1>1, <1>7, <1>8, <1>9

\* The calls a frame closes.
Ended(parts) ==
  {c \in Calls : \E p \in {parts[i] : i \in DOMAIN parts} : p.call = c /\ p.closes}

\* What a frame's parts do: the accumulator that plays them catches up with
\* the provider that sent them.
Spoken(a, parts) ==
  /\ parts \in Seq(PartType) /\ Len(parts) <= 2
  /\ \E e : /\ Plays(PartsItems(parts), a, e)
            /\ Meets(e, After(begun, parts), over \cup Ended(parts))

\* A frame without parts.
LEMMA SpokenNone ==
  ASSUME NEW a, Meets(a, begun, over)
  PROVE  Spoken(a, <<>>)
<1>1. a \in Accums /\ begun \in Seq(Calls)
  BY DEF Meets
<1>2. PICK parts : parts = <<>>
  OBVIOUS
<1>3. parts \in Seq(PartType) /\ Len(parts) = 0 /\ DOMAIN parts = {}
  BY <1>2
<1>4. Plays(PartsItems(parts), a, a)
  BY <1>1, <1>3, PlaysParts
<1>5. After(begun, parts) = begun
  <2>1. Len(parts) <= 2 /\ \A i \in 1..Len(parts) : parts[i].opens => parts[i].call \in Calls
    BY <1>3
  <2>2. PICK one : one = IF parts[1].opens THEN Append(begun, parts[1].call) ELSE begun
    OBVIOUS
  <2> QED BY <1>1, <1>3, <2>1, <2>2, AfterIs
<1>6. over \cup Ended(parts) = over
  BY <1>3 DEF Ended
<1>7. Meets(a, After(begun, parts), over \cup Ended(parts))
  BY <1>5, <1>6
<1> QED BY <1>2, <1>3, <1>4, <1>7 DEF Spoken

\* A frame of one part.
LEMMA SpokenOne ==
  ASSUME NEW a, Meets(a, begun, over), NEW p \in PartType,
         p.opens => p.call \in Calls,
         NEW e, Plays(PartItems(p), a, e),
         Meets(e, IF p.opens THEN Append(begun, p.call) ELSE begun,
                  over \cup {c \in Calls : p.call = c /\ p.closes})
  PROVE  Spoken(a, <<p>>)
<1>1. a \in Accums /\ begun \in Seq(Calls)
  BY DEF Meets
<1>2. PICK parts : parts = <<p>>
  OBVIOUS
<1>3. parts \in Seq(PartType) /\ Len(parts) = 1 /\ DOMAIN parts = {1} /\ parts[1] = p
  BY <1>2
<1>4. Plays(PartsItems(parts), a, e)
  BY <1>1, <1>3, PlaysParts
<1>5. After(begun, parts) = IF p.opens THEN Append(begun, p.call) ELSE begun
  <2>1. Len(parts) <= 2 /\ \A i \in 1..Len(parts) : parts[i].opens => parts[i].call \in Calls
    BY <1>3
  <2>2. PICK one : one = IF parts[1].opens THEN Append(begun, parts[1].call) ELSE begun
    OBVIOUS
  <2>3. After(begun, parts) = one
    BY <1>1, <1>3, <2>1, <2>2, AfterIs
  <2> QED BY <1>3, <2>2, <2>3
<1>6. Ended(parts) = {c \in Calls : p.call = c /\ p.closes}
  <2>1. {parts[i] : i \in DOMAIN parts} = {p}
    BY <1>3
  <2> QED BY <2>1 DEF Ended
<1>7. Meets(e, After(begun, parts), over \cup Ended(parts))
  BY <1>5, <1>6
<1> QED BY <1>2, <1>3, <1>4, <1>7 DEF Spoken

\* Anthropic: content blocks start, grow and stop one frame at a time.
LEMMA AnthropicSpeaks ==
  ASSUME NEW a, Meets(a, begun, over), dialect = "anthropic", NEW parts \in AnthropicParts
  PROVE  Spoken(a, parts)
<1>1. a \in Accums /\ begun \in Seq(Calls) /\ Distinct(begun) /\ dialect # "gemini"
  BY DEF Meets
<1>2. PICK n \in Nat : n = Len(begun) /\ DOMAIN begun = 1..n /\ n <= Cardinality(Calls)
  BY <1>1, DistinctShort
<1>3. ASSUME NEW c \in Begun \ over
      PROVE  \E i \in 1..n : begun[i] = c /\ SlotOf(c, begun) = i - 1 /\ begun[i] \notin over
  <2>1. PICK i \in 1..n : begun[i] = c
    BY <1>2, <1>3 DEF Begun
  <2>2. SlotOf(begun[i], begun) = i - 1
    BY <1>1, <1>2, <2>1, SlotIs
  <2> QED BY <1>3, <2>1, <2>2
<1>4. Begun = Called(begun)
  BY DEF Begun, Called
<1>5. CASE parts = <<>>
  BY <1>5, SpokenNone
<1>6. CASE parts = <<Part(None, Cardinality(Calls), FALSE, FALSE, TRUE)>>
  <2>1. PICK s \in Slots : s = Cardinality(Calls)
    BY SlotsAre
  <2>2. PICK p : p = Part(None, s, FALSE, FALSE, TRUE)
    OBVIOUS
  <2>3. p \in PartType /\ p.call = None /\ p.slot = s /\ ~p.opens /\ ~p.args /\ p.closes
    BY <2>2 DEF Part, PartType
  <2>4. a.table[s] = None
    BY <1>1, <1>2, <2>1, SlotsAre DEF Meets
  <2>5. PICK end : end = Item("end", None, s, None)
    OBVIOUS
  <2>6. end.kind = "end" /\ end.slot = s
    BY <2>5, ItemIs
  <2>7. Takes(a, end, a)
    BY <2>4, <2>6 DEF Takes, Stays
  <2>8. Plays(PartItems(p), a, a)
    BY <1>1, <2>3, <2>5, <2>7, PlaysPart
  <2>9. over \cup {c \in Calls : p.call = c /\ p.closes} = over
    BY <2>3, ConstantsOK
  <2>10. (IF p.opens THEN Append(begun, p.call) ELSE begun) = begun
    BY <2>3
  <2>11. Meets(a, IF p.opens THEN Append(begun, p.call) ELSE begun,
                 over \cup {c \in Calls : p.call = c /\ p.closes})
    BY <2>9, <2>10
  <2>12. Spoken(a, <<p>>)
    BY <2>3, <2>8, <2>11, SpokenOne
  <2> QED BY <1>6, <2>1, <2>2, <2>12
<1>7. ASSUME NEW c \in Calls \ Begun, parts = <<Part(c, Len(begun), TRUE, FALSE, FALSE)>>
      PROVE  Spoken(a, parts)
  <2>1. PICK p : p = Part(c, Len(begun), TRUE, FALSE, FALSE)
    OBVIOUS
  <2>2. p.call = c /\ p.opens /\ ~p.closes
    BY <2>1 DEF Part
  <2>3. p \in PartType /\ \E e : Plays(PartItems(p), a, e) /\ Meets(e, Append(begun, c), over)
    BY <1>1, <1>4, <1>7, <2>1, OpenPart
  <2>4. PICK e : Plays(PartItems(p), a, e) /\ Meets(e, Append(begun, c), over)
    BY <2>3
  <2>5. over \cup {d \in Calls : p.call = d /\ p.closes} = over
    BY <2>2
  <2>6. (IF p.opens THEN Append(begun, p.call) ELSE begun) = Append(begun, c)
    BY <2>2
  <2>7. Meets(e, IF p.opens THEN Append(begun, p.call) ELSE begun,
                 over \cup {d \in Calls : p.call = d /\ p.closes})
    BY <2>4, <2>5, <2>6
  <2>8. Spoken(a, <<p>>)
    BY <2>2, <2>3, <2>4, <2>7, SpokenOne
  <2> QED BY <1>7, <2>1, <2>8
<1>8. ASSUME NEW c \in Begun \ over, parts = <<Part(c, SlotOf(c, begun), FALSE, TRUE, FALSE)>>
      PROVE  Spoken(a, parts)
  <2>1. PICK i \in 1..n : begun[i] = c /\ SlotOf(c, begun) = i - 1 /\ begun[i] \notin over
    BY <1>3, <1>8
  <2>2. PICK p : p = Part(begun[i], i - 1, FALSE, TRUE, FALSE)
    OBVIOUS
  <2>3. ~p.opens /\ ~p.closes
    BY <2>2 DEF Part
  <2>4. p \in PartType /\ Plays(PartItems(p), a, a)
    BY <1>1, <1>2, <2>1, <2>2, HeldPart
  <2>5. over \cup {d \in Calls : p.call = d /\ p.closes} = over
    BY <2>3
  <2>6. (IF p.opens THEN Append(begun, p.call) ELSE begun) = begun
    BY <2>3
  <2>7. Meets(a, IF p.opens THEN Append(begun, p.call) ELSE begun,
                 over \cup {d \in Calls : p.call = d /\ p.closes})
    BY <2>5, <2>6
  <2>8. Spoken(a, <<p>>)
    BY <2>3, <2>4, <2>7, SpokenOne
  <2>9. parts = <<p>>
    BY <1>8, <2>1, <2>2
  <2> QED BY <2>8, <2>9
<1>9. ASSUME NEW c \in Begun \ over, parts = <<Part(c, SlotOf(c, begun), FALSE, FALSE, TRUE)>>
      PROVE  Spoken(a, parts)
  <2>1. PICK i \in 1..n : begun[i] = c /\ SlotOf(c, begun) = i - 1 /\ begun[i] \notin over
    BY <1>3, <1>9
  <2>2. PICK p : p = Part(begun[i], i - 1, FALSE, FALSE, TRUE)
    OBVIOUS
  <2>3. ~p.opens /\ p.closes /\ p.call = begun[i] /\ begun[i] \in Calls
    BY <1>1, <1>2, <2>2 DEF Part
  <2>4. /\ p \in PartType
        /\ \E e : Plays(PartItems(p), a, e) /\ Meets(e, begun, over \cup {begun[i]})
    BY <1>1, <1>2, <2>1, <2>2, ClosePart
  <2>5. PICK e : Plays(PartItems(p), a, e) /\ Meets(e, begun, over \cup {begun[i]})
    BY <2>4
  <2>6. over \cup {d \in Calls : p.call = d /\ p.closes} = over \cup {begun[i]}
    BY <2>3
  <2>7. (IF p.opens THEN Append(begun, p.call) ELSE begun) = begun
    BY <2>3
  <2>8. Meets(e, IF p.opens THEN Append(begun, p.call) ELSE begun,
                 over \cup {d \in Calls : p.call = d /\ p.closes})
    BY <2>5, <2>6, <2>7
  <2>9. Spoken(a, <<p>>)
    BY <2>3, <2>4, <2>5, <2>8, SpokenOne
  <2>10. parts = <<p>>
    BY <1>9, <2>1, <2>2
  <2> QED BY <2>9, <2>10
<1> QED BY <1>5, <1>6, <1>7, <1>8, <1>9 DEF AnthropicParts

\* A frame of two parts.
LEMMA SpokenTwo ==
  ASSUME NEW a, Meets(a, begun, over), NEW p \in PartType, NEW r \in PartType,
         p.opens => p.call \in Calls, r.opens => r.call \in Calls,
         NEW one, one = IF p.opens THEN Append(begun, p.call) ELSE begun,
         NEW e, NEW f, Plays(PartItems(p), a, e), Plays(PartItems(r), e, f),
         Meets(f, IF r.opens THEN Append(one, r.call) ELSE one,
                  over \cup {c \in Calls : (p.call = c /\ p.closes) \/ (r.call = c /\ r.closes)})
  PROVE  Spoken(a, <<p, r>>)
<1>1. a \in Accums /\ begun \in Seq(Calls)
  BY DEF Meets
<1>2. PICK parts : parts = <<p, r>>
  OBVIOUS
<1>3. /\ parts \in Seq(PartType) /\ Len(parts) = 2 /\ DOMAIN parts = {1, 2}
      /\ parts[1] = p /\ parts[2] = r
  BY <1>2
<1>4. Plays(PartsItems(parts), a, f)
  BY <1>1, <1>3, PlaysParts
<1>5. After(begun, parts) = IF r.opens THEN Append(one, r.call) ELSE one
  <2>1. Len(parts) <= 2 /\ \A i \in 1..Len(parts) : parts[i].opens => parts[i].call \in Calls
    <3>1. \A i \in 1..2 : i = 1 \/ i = 2
      OBVIOUS
    <3> QED BY <1>3, <3>1
  <2>2. one = IF parts[1].opens THEN Append(begun, parts[1].call) ELSE begun
    BY <1>3
  <2>3. After(begun, parts) = IF parts[2].opens THEN Append(one, parts[2].call) ELSE one
    BY <1>1, <1>3, <2>1, <2>2, AfterIs
  <2> QED BY <1>3, <2>3
<1>6. Ended(parts) = {c \in Calls : (p.call = c /\ p.closes) \/ (r.call = c /\ r.closes)}
  <2>1. {parts[i] : i \in DOMAIN parts} = {p, r}
    BY <1>3
  <2>2. Ended(parts) = {c \in Calls : \E x \in {p, r} : x.call = c /\ x.closes}
    BY <2>1, Zenon DEF Ended
  <2>3. ASSUME NEW c
        PROVE  (\E x \in {p, r} : x.call = c /\ x.closes)
                 <=> ((p.call = c /\ p.closes) \/ (r.call = c /\ r.closes))
    OBVIOUS
  <2> QED BY <2>2, <2>3
<1>7. Meets(f, After(begun, parts), over \cup Ended(parts))
  BY <1>5, <1>6
<1> QED BY <1>2, <1>3, <1>4, <1>7 DEF Spoken

\* The elements of a batch at some of its places, behind a sequence.
LEMMA GrownIs ==
  ASSUME NEW q \in Seq(Calls), NEW n \in 0..2, n = Len(q), NEW bg \in Seq(Calls),
         NEW S \in SUBSET (1..n),
         NEW one, 1 \in S => one = Append(bg, q[1]), 1 \notin S => one = bg
  PROVE  /\ n = 0 => bg \o Picked(q, S) = bg
         /\ n = 1 => bg \o Picked(q, S) = one
         /\ n = 2 /\ 2 \in S => bg \o Picked(q, S) = Append(one, q[2])
         /\ n = 2 /\ 2 \notin S => bg \o Picked(q, S) = one
<1>1. bg \o <<>> = bg
  BY ConcatEmptySeq
<1>2. \A c \in Calls : bg \o <<c>> = Append(bg, c)
  BY AppendIsConcat
<1>3. \A c, d \in Calls : bg \o <<c, d>> = Append(Append(bg, c), d)
  OBVIOUS
<1>4. CASE S = {}
  <2>1. bg \o Picked(q, S) = bg
    BY <1>1, <1>4, PickedIs
  <2> QED BY <1>4, <2>1
<1>5. CASE S = {1}
  <2>1. n \in {1, 2} /\ q[1] \in Calls
    BY <1>5
  <2>2. bg \o Picked(q, S) = Append(bg, q[1])
    BY <1>2, <1>5, <2>1, PickedIs
  <2>3. 1 \in S /\ 2 \notin S /\ one = Append(bg, q[1])
    BY <1>5
  <2>4. n # 0 /\ bg \o Picked(q, S) = one
    BY <2>1, <2>2, <2>3
  <2> QED BY <2>3, <2>4
<1>6. CASE S = {2}
  <2>1. n = 2 /\ q[2] \in Calls
    BY <1>6
  <2>2. bg \o Picked(q, S) = Append(bg, q[2])
    BY <1>2, <1>6, <2>1, PickedIs
  <2> QED BY <1>6, <2>1, <2>2
<1>7. CASE S = {1, 2}
  <2>1. n = 2 /\ q[1] \in Calls /\ q[2] \in Calls
    BY <1>7
  <2>2. bg \o Picked(q, S) = Append(Append(bg, q[1]), q[2])
    BY <1>3, <1>7, <2>1, PickedIs
  <2> QED BY <1>7, <2>1, <2>2
<1>8. S = {} \/ S = {1} \/ S = {2} \/ S = {1, 2}
  <2>1. n = 0 \/ n = 1 \/ n = 2
    OBVIOUS
  <2> QED BY <2>1, Places
<1> QED BY <1>4, <1>5, <1>6, <1>7, <1>8

\* A delta of call c, once b is begun, is played behind a.
Delta(a, c, opens, args, b, ov) ==
  \E e : \E i \in 1..Len(b), p \in PartType :
    /\ b[i] = c
    /\ p = Part(c, i - 1, opens, args, FALSE)
    /\ Plays(PartItems(p), a, e)
    /\ Meets(e, b, ov)

\* One delta: a call's first takes the next slot, a later one comes to its own.
LEMMA DeltaPlays ==
  ASSUME NEW a, NEW bg, NEW ov, Meets(a, bg, ov), dialect = "openai",
         NEW c \in Calls, NEW args \in BOOLEAN,
         NEW opens \in BOOLEAN, opens <=> c \notin Called(bg),
         NEW b, opens => b = Append(bg, c), ~opens => b = bg
  PROVE  Delta(a, c, opens, args, b, ov)
<1>1. bg \in Seq(Calls) /\ Distinct(bg) /\ dialect # "gemini" /\ ov = {}
  BY DEF Meets
<1>2. PICK n \in Nat : n = Len(bg) /\ DOMAIN bg = 1..n
  BY <1>1
<1>3. CASE opens
  <2>1. b = Append(bg, c) /\ opens = TRUE
    BY <1>3
  <2>2. PICK i \in Nat : i = n + 1
    OBVIOUS
  <2>3. Len(b) = i /\ b[i] = c
    BY <1>1, <1>2, <1>3, <2>1, <2>2, MoreDistinct
  <2>4. /\ Part(c, n, TRUE, args, FALSE) \in PartType
        /\ \E e : Plays(PartItems(Part(c, n, TRUE, args, FALSE)), a, e) /\ Meets(e, b, ov)
    BY <1>1, <1>2, <1>3, <2>1, OpenPart
  <2>5. i - 1 = n /\ i \in 1..i
    BY <2>2
  <2> QED BY <2>1, <2>3, <2>4, <2>5 DEF Delta
<1>4. CASE ~opens
  <2>1. b = bg /\ opens = FALSE
    BY <1>4
  <2>2. PICK i \in 1..n : bg[i] = c
    BY <1>2, <1>4 DEF Called
  <2>3. /\ Part(c, i - 1, FALSE, args, FALSE) \in PartType
        /\ Plays(PartItems(Part(c, i - 1, FALSE, args, FALSE)), a, a)
    <3>1. bg[i] \notin ov /\ i \in 1..Len(bg)
      BY <1>1, <1>2
    <3>2. /\ Part(bg[i], i - 1, FALSE, args, FALSE) \in PartType
          /\ Plays(PartItems(Part(bg[i], i - 1, FALSE, args, FALSE)), a, a)
      BY <1>1, <3>1, HeldPart
    <3> QED BY <2>2, <3>2
  <2> QED BY <1>2, <2>1, <2>2, <2>3 DEF Delta
<1> QED BY <1>3, <1>4

\* The calls of a frame: at most two, and different ones.
LEMMA BatchIs ==
  ASSUME NEW q \in Batches
  PROVE  \E n \in 0..2 : /\ q \in Seq(Calls) /\ n = Len(q) /\ DOMAIN q = 1..n
                         /\ Distinct(q) /\ \A i \in 1..n : q[i] \in Calls
<1>1. PICK n \in 0..2 : q \in [1..n -> Calls] /\ Distinct(q)
  BY DEF Batches
<1>2. q \in Seq(Calls) /\ n = Len(q) /\ DOMAIN q = 1..n
  BY <1>1
<1> QED BY <1>1, <1>2
\* OpenAI: the deltas of a frame, of at most two calls.
LEMMA OpenAiSpeaks ==
  ASSUME NEW a, Meets(a, begun, over), dialect = "openai", NEW parts \in OpenAiParts
  PROVE  Spoken(a, parts)
<1>1. a \in Accums /\ begun \in Seq(Calls) /\ Distinct(begun) /\ dialect # "gemini" /\ over = {}
  BY DEF Meets
<1>2. Begun = Called(begun)
  BY DEF Begun, Called
<1>3. PICK q \in Batches :
        \E args \in [DOMAIN q -> BOOLEAN] :
          parts = [i \in DOMAIN q |->
                     Part(q[i], SlotOf(q[i], begun \o Picked(q, {j \in DOMAIN q : q[j] \notin Begun})),
                          q[i] \notin Begun, args[i], FALSE)]
  BY ZenonT(30) DEF OpenAiParts
<1>4. PICK began : began = begun \o Picked(q, {j \in DOMAIN q : q[j] \notin Begun})
  OBVIOUS
<1>5. PICK args \in [DOMAIN q -> BOOLEAN] :
        parts = [i \in DOMAIN q |->
                   Part(q[i], SlotOf(q[i], began), q[i] \notin Begun, args[i], FALSE)]
  BY <1>3, <1>4
<1>6. PICK n \in 0..2 : /\ q \in Seq(Calls) /\ n = Len(q) /\ DOMAIN q = 1..n
                        /\ Distinct(q) /\ \A i \in 1..n : q[i] \in Calls
  BY BatchIs
<1> DEFINE S == {j \in DOMAIN q : q[j] \notin Begun}
<1>7. S \in SUBSET (1..n) /\ \A i \in 1..n : i \in S <=> q[i] \notin Begun
  BY <1>6
<1>8. began = begun \o Picked(q, S)
  BY <1>4
<1> HIDE DEF S
<1>9. n = 0 \/ n = 1 \/ n = 2
  OBVIOUS
<1>10. CASE n = 0
  <2>1. parts = <<>>
    BY <1>5, <1>6, <1>10
  <2> QED BY <2>1, SpokenNone
<1>23. PICK c1 : n # 0 => c1 \in Calls /\ c1 = q[1]
  BY <1>6, <1>9
<1>24. PICK g1 : n # 0 => g1 \in BOOLEAN /\ g1 = args[1]
  BY <1>6, <1>9
<1>11. PICK new \in BOOLEAN : new <=> c1 \notin Begun
  OBVIOUS
<1>22. new = (c1 \notin Begun)
  BY <1>11
<1>21. PICK one : one = IF new THEN Append(begun, c1) ELSE begun
  OBVIOUS
<1>12. ASSUME n # 0
       PROVE  Delta(a, c1, new, g1, one, over)
  <2>1. c1 \in Calls /\ g1 \in BOOLEAN /\ (new <=> c1 \notin Called(begun))
    BY <1>2, <1>11, <1>12, <1>23, <1>24
  <2>2. (new => one = Append(begun, c1)) /\ (~new => one = begun)
    BY <1>21
  <2> QED BY <1>11, <2>1, <2>2, DeltaPlays
<1>13. n # 0 => (1 \in S <=> new) /\ c1 \in Calls
  BY <1>6, <1>7, <1>9, <1>11, <1>23
<1>14. /\ n = 1 => began = one
       /\ n = 2 => began = IF 2 \in S THEN Append(one, q[2]) ELSE one
  <2>1. n # 0 => (1 \in S => one = Append(begun, q[1])) /\ (1 \notin S => one = begun)
    BY <1>13, <1>21, <1>23
  <2>2. CASE n = 1
    <3>1. (1 \in S => one = Append(begun, q[1])) /\ (1 \notin S => one = begun)
      BY <2>1, <2>2
    <3>2. begun \o Picked(q, S) = one
      BY <1>1, <1>6, <1>7, <2>2, <3>1, GrownIs, SMTT(30)
    <3> QED BY <1>8, <2>2, <3>2
  <2>3. CASE n = 2
    <3>1. (1 \in S => one = Append(begun, q[1])) /\ (1 \notin S => one = begun)
      BY <2>1, <2>3
    <3>2. /\ 2 \in S => begun \o Picked(q, S) = Append(one, q[2])
          /\ 2 \notin S => begun \o Picked(q, S) = one
      BY <1>1, <1>6, <1>7, <2>3, <3>1, GrownIs, SMTT(30)
    <3> QED BY <1>8, <2>3, <3>2
  <2> QED BY <2>2, <2>3
<1>15. CASE n = 1
  <2>1. PICK i, p, e :
          /\ i \in 1..Len(one) /\ p \in PartType
          /\ one[i] = c1
          /\ p = Part(c1, i - 1, new, g1, FALSE)
          /\ Plays(PartItems(p), a, e)
          /\ Meets(e, one, over)
    <3>1. n # 0
      BY <1>15
    <3> QED BY <1>12, <3>1 DEF Delta
  <2>2. SlotOf(c1, began) = i - 1
    <3>1. one \in Seq(Calls) /\ Distinct(one)
      BY <2>1 DEF Meets
    <3>2. SlotOf(one[i], one) = i - 1
      BY <2>1, <3>1, SlotIs
    <3> QED BY <1>14, <1>15, <2>1, <3>2
  <2>4. parts = <<p>>
    <3>1. DOMAIN q = {1}
      BY <1>6, <1>15
    <3>2. parts = [k \in {1} |-> Part(q[k], SlotOf(q[k], began), q[k] \notin Begun, args[k], FALSE)]
      BY <1>5, <3>1
    <3> DEFINE G(k) == Part(q[k], SlotOf(q[k], began), q[k] \notin Begun, args[k], FALSE)
    <3>3. G(1) = p
      <4>1. c1 = q[1] /\ g1 = args[1]
        BY <1>15, <1>23, <1>24
      <4> QED BY <1>22, <2>1, <2>2, <4>1
    <3>4. parts = [k \in {1} |-> G(k)]
      BY <3>2
    <3> HIDE DEF G
    <3>5. parts = [k \in {1} |-> p]
      BY <3>3, <3>4
    <3> QED BY <3>5
  <2>5. p.call = c1 /\ p.opens = new /\ p.closes = FALSE
    BY <2>1 DEF Part
  <2>6. over \cup {c \in Calls : p.call = c /\ p.closes} = over
    BY <2>5 DEF Delta
  <2>7. (IF p.opens THEN Append(begun, p.call) ELSE begun) = one
    BY <1>21, <2>5
  <2>8. Meets(e, IF p.opens THEN Append(begun, p.call) ELSE begun,
                 over \cup {c \in Calls : p.call = c /\ p.closes})
    BY <2>1, <2>6, <2>7
  <2>9. p \in PartType /\ p.call \in Calls /\ Plays(PartItems(p), a, e)
    <3>1. c1 \in Calls
      BY <1>15, <1>23
    <3> QED BY <2>1, <2>5, <3>1
  <2>10. Spoken(a, <<p>>)
    BY <2>8, <2>9, SpokenOne
  <2> QED BY <2>4, <2>10
<1>16. CASE n = 2
  <2>33. PICK c2 \in Calls : c2 = q[2]
    BY <1>6, <1>16
  <2>34. PICK g2 \in BOOLEAN : g2 = args[2]
    BY <1>6, <1>16
  <2>35. c1 = q[1] /\ g1 = args[1] /\ c1 \in Calls
    BY <1>16, <1>23, <1>24
  <2>30. PICK newer \in BOOLEAN : newer <=> c2 \notin Begun
    OBVIOUS
  <2>32. newer = (c2 \notin Begun)
    BY <2>30
  <2>31. PICK two : two = IF newer THEN Append(one, c2) ELSE one
    OBVIOUS
  <2>1. PICK i, p, e :
          /\ i \in 1..Len(one) /\ p \in PartType
          /\ one[i] = c1
          /\ p = Part(c1, i - 1, new, g1, FALSE)
          /\ Plays(PartItems(p), a, e)
          /\ Meets(e, one, over)
    <3>1. n # 0
      BY <1>16
    <3> QED BY <1>12, <3>1 DEF Delta
  <2>2. c1 # c2
    BY <1>6, <1>16, <2>33, <2>35 DEF Distinct
  <2>3. one \in Seq(Calls) /\ Distinct(one)
    BY <2>1 DEF Meets
  <2>4. newer <=> c2 \notin Called(one)
    <3>1. Called(one) = Called(begun) \/ Called(one) = Called(begun) \cup {c1}
      BY <1>1, <1>2, <1>11, <1>21, <2>35, MoreDistinct
    <3> QED BY <1>2, <2>2, <2>30, <3>1
  <2>5. Delta(e, c2, newer, g2, two, over)
    <3>1. (newer => two = Append(one, c2)) /\ (~newer => two = one)
      BY <2>31
    <3> QED BY <2>1, <2>4, <2>30, <2>33, <2>34, <3>1, DeltaPlays
  <2>6. PICK j, r, f :
          /\ j \in 1..Len(two) /\ r \in PartType
          /\ two[j] = c2
          /\ r = Part(c2, j - 1, newer, g2, FALSE)
          /\ Plays(PartItems(r), e, f)
          /\ Meets(f, two, over)
    BY <2>5 DEF Delta
  <2>7. two \in Seq(Calls) /\ Distinct(two) /\ began = two
    <3>1. 2 \in S <=> newer
      BY <1>7, <1>16, <2>30, <2>33
    <3> QED BY <1>14, <1>16, <2>6, <2>31, <2>33, <3>1 DEF Meets
  <2>8. i \in 1..Len(two) /\ two[i] = c1
    <3>1. CASE newer
      <4>1. two = Append(one, c2)
        BY <2>31, <3>1
      <4>2. Len(two) = Len(one) + 1 /\ two[i] = one[i]
        BY <2>1, <2>3, <4>1
      <4> QED BY <2>1, <2>3, <4>2
    <3>2. CASE ~newer
      <4>1. two = one
        BY <2>31, <3>2
      <4> QED BY <2>1, <4>1
    <3> QED BY <3>1, <3>2
  <2>9. SlotOf(c1, began) = i - 1 /\ SlotOf(c2, began) = j - 1
    <3>1. SlotOf(two[i], two) = i - 1
      BY <2>7, <2>8, SlotIs
    <3>2. SlotOf(two[j], two) = j - 1
      BY <2>6, <2>7, SlotIs
    <3> QED BY <2>6, <2>7, <2>8, <3>1, <3>2
  <2>12. parts = <<p, r>>
    <3>1. DOMAIN q = {1, 2}
      BY <1>6, <1>16
    <3>2. parts = [k \in {1, 2} |-> Part(q[k], SlotOf(q[k], began), q[k] \notin Begun, args[k], FALSE)]
      BY <1>5, <3>1
    <3> DEFINE G(k) == Part(q[k], SlotOf(q[k], began), q[k] \notin Begun, args[k], FALSE)
    <3>3. G(1) = p /\ G(2) = r
      BY <1>22, <2>1, <2>6, <2>9, <2>32, <2>33, <2>34, <2>35
    <3>4. parts = [k \in {1, 2} |-> G(k)]
      BY <3>2
    <3> HIDE DEF G
    <3> QED BY <3>3, <3>4
  <2>13. p.call = c1 /\ p.opens = new /\ p.closes = FALSE
    BY <2>1 DEF Part
  <2>14. r.call = c2 /\ r.opens = newer /\ r.closes = FALSE
    BY <2>6 DEF Part
  <2>15. over \cup {c \in Calls : (p.call = c /\ p.closes) \/ (r.call = c /\ r.closes)} = over
    BY <2>13, <2>14
  <2>16. (IF p.opens THEN Append(begun, p.call) ELSE begun) = one
    BY <1>21, <2>13
  <2>17. (IF r.opens THEN Append(one, r.call) ELSE one) = two
    BY <2>31, <2>14
  <2>18. Meets(f, IF r.opens THEN Append(one, r.call) ELSE one,
                  over \cup {c \in Calls : (p.call = c /\ p.closes) \/ (r.call = c /\ r.closes)})
    BY <2>6, <2>15, <2>17
  <2>19. p \in PartType /\ p.call \in Calls /\ Plays(PartItems(p), a, e)
    BY <2>1, <2>13, <2>35
  <2>20. r \in PartType /\ r.call \in Calls /\ Plays(PartItems(r), e, f)
    BY <2>2, <2>6, <2>14
  <2>21. Spoken(a, <<p, r>>)
    BY <2>16, <2>18, <2>19, <2>20, SpokenTwo
  <2> QED BY <2>12, <2>21
<1> QED BY <1>9, <1>10, <1>15, <1>16

\* Gemini: the calls of a frame, each whole, at its place in the frame.
LEMMA GeminiSpeaks ==
  ASSUME NEW a, Meets(a, begun, over), dialect = "gemini", NEW parts \in GeminiParts
  PROVE  Spoken(a, parts)
<1>1. begun \in Seq(Calls) /\ Distinct(begun) /\ Begun = Called(begun)
  BY DEF Meets, Begun, Called
<1>2. PICK q \in Batches : /\ \A i \in DOMAIN q : q[i] \notin Begun
                           /\ parts = [i \in DOMAIN q |-> Part(q[i], i - 1, TRUE, TRUE, TRUE)]
  BY DEF GeminiParts
<1>3. PICK n \in 0..2 : /\ q \in Seq(Calls) /\ n = Len(q) /\ DOMAIN q = 1..n
                        /\ Distinct(q) /\ \A i \in 1..n : q[i] \in Calls
  BY BatchIs
<1>4. n = 0 \/ n = 1 \/ n = 2
  BY <1>3
<1>5. CASE n = 0
  <2>1. parts = <<>>
    BY <1>2, <1>3, <1>5
  <2> QED BY <2>1, SpokenNone
<1>6. CASE n = 1
  <2>1. PICK c \in Calls : c = q[1] /\ c \notin Called(begun)
    BY <1>1, <1>2, <1>3, <1>6
  <2>2. PICK p : p = Part(c, 0, TRUE, TRUE, TRUE)
    OBVIOUS
  <2>3. p.call = c /\ p.opens /\ p.closes
    BY <2>2 DEF Part
  <2>4. PICK done : done = over \cup {d \in Calls : p.call = d /\ p.closes}
    OBVIOUS
  <2>5. p \in PartType /\ \E e : Plays(PartItems(p), a, e) /\ Meets(e, Append(begun, c), done)
    BY <2>1, <2>2, SlotsAre, WholePart
  <2>6. PICK e : Plays(PartItems(p), a, e) /\ Meets(e, Append(begun, c), done)
    BY <2>5
  <2>7. (IF p.opens THEN Append(begun, p.call) ELSE begun) = Append(begun, c)
    BY <2>3
  <2>8. Meets(e, IF p.opens THEN Append(begun, p.call) ELSE begun,
                 over \cup {d \in Calls : p.call = d /\ p.closes})
    BY <2>4, <2>6, <2>7
  <2>9. Spoken(a, <<p>>)
    BY <2>1, <2>3, <2>5, <2>6, <2>8, SpokenOne
  <2>10. parts = <<p>>
    <3>1. DOMAIN q = {1}
      BY <1>3, <1>6
    <3>2. parts = [i \in {1} |-> Part(q[i], i - 1, TRUE, TRUE, TRUE)]
      BY <1>2, <3>1
    <3> DEFINE G(i) == Part(q[i], i - 1, TRUE, TRUE, TRUE)
    <3>3. G(1) = p
      BY <2>1, <2>2
    <3>4. parts = [i \in {1} |-> G(i)]
      BY <3>2
    <3> HIDE DEF G
    <3> QED BY <3>3, <3>4
  <2> QED BY <2>9, <2>10
<1>7. CASE n = 2
  <2>1. PICK c \in Calls : c = q[1] /\ c \notin Called(begun)
    BY <1>1, <1>2, <1>3, <1>7
  <2>2. PICK d \in Calls : d = q[2] /\ d \notin Called(begun)
    BY <1>1, <1>2, <1>3, <1>7
  <2>3. c # d
    BY <1>3, <1>7, <2>1, <2>2 DEF Distinct
  <2>4. 1 \in Slots
    BY <1>3, <1>7, DistinctShort, SlotsAre, SMTT(30)
  <2>5. PICK p : p = Part(c, 0, TRUE, TRUE, TRUE)
    OBVIOUS
  <2>6. PICK r : r = Part(d, 1, TRUE, TRUE, TRUE)
    OBVIOUS
  <2>7. p.call = c /\ p.opens /\ p.closes
    BY <2>5 DEF Part
  <2>8. r.call = d /\ r.opens /\ r.closes
    BY <2>6 DEF Part
  <2>9. PICK one : one = Append(begun, c)
    OBVIOUS
  <2>10. one \in Seq(Calls) /\ Called(one) = Called(begun) \cup {c}
    BY <1>1, <2>1, <2>9, MoreDistinct
  <2>11. PICK done : done = over \cup {x \in Calls : (p.call = x /\ p.closes) \/ (r.call = x /\ r.closes)}
    OBVIOUS
  <2>12. p \in PartType /\ \E e : Plays(PartItems(p), a, e) /\ Meets(e, one, over)
    BY <2>1, <2>5, <2>9, SlotsAre, WholePart
  <2>13. PICK e : Plays(PartItems(p), a, e) /\ Meets(e, one, over)
    BY <2>12
  <2>14. d \notin Called(one)
    BY <2>2, <2>3, <2>10
  <2>15. r \in PartType /\ \E f : Plays(PartItems(r), e, f) /\ Meets(f, Append(one, d), done)
    BY <2>2, <2>4, <2>6, <2>13, <2>14, WholePart
  <2>16. PICK f : Plays(PartItems(r), e, f) /\ Meets(f, Append(one, d), done)
    BY <2>15
  <2>17. one = (IF p.opens THEN Append(begun, p.call) ELSE begun)
    BY <2>7, <2>9
  <2>18. (IF r.opens THEN Append(one, r.call) ELSE one) = Append(one, d)
    BY <2>8
  <2>19. Meets(f, IF r.opens THEN Append(one, r.call) ELSE one,
                  over \cup {x \in Calls : (p.call = x /\ p.closes) \/ (r.call = x /\ r.closes)})
    BY <2>11, <2>16, <2>18
  <2>20. Spoken(a, <<p, r>>)
    BY <2>1, <2>2, <2>7, <2>8, <2>12, <2>13, <2>15, <2>16, <2>17, <2>19, SpokenTwo
  <2>21. parts = <<p, r>>
    <3>1. DOMAIN q = {1, 2}
      BY <1>3, <1>7
    <3>2. parts = [i \in {1, 2} |-> Part(q[i], i - 1, TRUE, TRUE, TRUE)]
      BY <1>2, <3>1
    <3> DEFINE G(i) == Part(q[i], i - 1, TRUE, TRUE, TRUE)
    <3>3. G(1) = p /\ G(2) = r
      BY <2>1, <2>2, <2>5, <2>6
    <3>4. parts = [i \in {1, 2} |-> G(i)]
      BY <3>2
    <3> HIDE DEF G
    <3> QED BY <3>3, <3>4
  <2> QED BY <2>20, <2>21
<1> QED BY <1>4, <1>5, <1>6, <1>7

\* Whatever a provider sends in its dialect, the accumulator can play it: a
\* call starts once and at a free slot, and no piece or end comes amiss.
LEMMA Catches ==
  ASSUME dialect \in Dialects, NEW a, Meets(a, begun, over), NEW f \in Frames, Sends(f)
  PROVE  /\ Sound(f)
         /\ \E e : Plays(Parse(f), a, e) /\ Meets(e, begun', over')
<1>1. CASE f = ErrorFrame
  <2>1. f.parts = <<>> /\ f.error /\ f \in FrameType /\ Len(f.parts) <= 2
    BY <1>1 DEF ErrorFrame, FrameType
  <2>2. Spoken(a, f.parts)
    BY <2>1, SpokenNone
  <2> QED
    <3>1. Sound(f)
      BY <2>1 DEF Sound
    <3>2. begun' = After(begun, f.parts) /\ over' = over \cup Ended(f.parts)
      BY DEF Sends, After, Ended
    <3>3. PICK e : Plays(PartsItems(f.parts), a, e)
                   /\ Meets(e, After(begun, f.parts), over \cup Ended(f.parts))
      BY <2>2 DEF Spoken
    <3>4. Plays(Parse(f), a, e)
      BY <3>1, <3>3, ParsePlays
    <3> QED BY <3>1, <3>2, <3>3, <3>4
<1>2. CASE f # ErrorFrame
  <2>1. PICK text \in BOOLEAN, reason \in Reasons \cup {None}, parts \in Parts :
          f = Frame(text, reason, parts)
    BY <1>2 DEF Frames
  <2>2. Spoken(a, parts)
    <3>1. CASE dialect = "anthropic"
      BY <2>1, <3>1, AnthropicSpeaks DEF Parts
    <3>2. CASE dialect = "openai"
      BY <2>1, <3>2, OpenAiSpeaks DEF Parts
    <3>3. CASE dialect = "gemini"
      BY <2>1, <3>3, GeminiSpeaks DEF Parts
    <3> QED BY <3>1, <3>2, <3>3, ConstantsOK DEF AllDialects
  <2>3. f.parts = parts /\ f.text = text /\ f.reason = reason /\ f.error = FALSE
    BY <2>1 DEF Frame
  <2>4. Sound(f)
    <3>1. parts \in Seq(PartType) /\ Len(parts) <= 2
      BY <2>2 DEF Spoken
    <3>2. f \in FrameType
      BY <2>1, <3>1 DEF Frame, FrameType
    <3> QED BY <2>3, <3>1, <3>2 DEF Sound
  <2>5. begun' = After(begun, parts) /\ over' = over \cup Ended(parts)
    BY <2>3 DEF Sends, After, Ended
  <2>6. PICK e : Plays(PartsItems(parts), a, e)
                 /\ Meets(e, After(begun, parts), over \cup Ended(parts))
    BY <2>2 DEF Spoken
  <2>7. Plays(Parse(f), a, e)
    BY <2>3, <2>4, <2>6, ParsePlays
  <2> QED BY <2>4, <2>5, <2>6, <2>7
<1> QED BY <1>1, <1>2

-----------------------------------------------------------------------------
(* The inductive invariant.                                                *)

\* A call as it is reported to the sink.
Reports == [call : Calls, id : Ids, args : {"whole", "empty", "unreadable"}]

\* What the variables hold; what the provider began it began once.
Held ==
  /\ dialect \in Dialects
  /\ begun \in Seq(Calls) /\ Distinct(begun)
  /\ sent \in [Calls -> Nat] /\ over \subseteq Calls /\ frames \in 0..MaxFrames
  /\ partial = None \/ Sound(partial)
  /\ items \in Seq(Items)
  /\ open \in [Slots -> OpenCalls \cup {None}]
  /\ stop \in Reasons /\ closing \in Reasons \cup {None}
  /\ out \in Seq(Reports)
  /\ spoke \in BOOLEAN /\ heard \subseteq Calls /\ got \in [Calls -> Nat]

\* The accumulator as it stands.
Now == [table |-> [s \in Slots |-> IF open[s] = None THEN None ELSE open[s].call],
        heard |-> heard,
        order |-> [i \in DOMAIN out |-> out[i].call]]

\* The items waiting, and the line cut behind them, are a run of the accumulator
\* that catches up with the provider.
Ahead(q, a, f) ==
  \E m, e : /\ Plays(q, a, m)
            /\ Plays(Parse(f), m, e)
            /\ Meets(e, begun, over)
            /\ dialect = "gemini" => m.table = NoTable

\* While the stream lasts, what waits catches up with the provider.
Streamed == pc \in {"sending", "pausing", "streaming"} => Ahead(items, Now, partial)

\* A call that is open was heard of and not reported, has a slot of its own, and
\* has accumulated the pieces of it that were handled and no others.
Accumulated ==
  /\ \A s \in Slots : open[s] # None =>
       /\ open[s].call \in heard
       /\ open[s].json = [n \in 1..got[open[s].call] |-> open[s].call]
       /\ \A i \in DOMAIN out : out[i].call # open[s].call
  /\ \A s, t \in Slots : open[s] # None /\ open[t] # None /\ open[s].call = open[t].call => s = t
  /\ \A c \in Calls : c \notin heard => got[c] = 0

\* A call that was heard of is open or reported, and reported once.
Settled ==
  /\ \A i \in DOMAIN out : out[i].call \in heard
  /\ \A i, j \in DOMAIN out : out[i].call = out[j].call => i = j
  /\ \A c \in heard : \/ \E s \in Slots : open[s] # None /\ open[s].call = c
                      \/ \E i \in DOMAIN out : out[i].call = c

\* Gemini's calls are reported in the order they began, and none is ever flushed.
Ordered ==
  dialect = "gemini" =>
    /\ Starts(Now.order, begun)
    /\ pc = "flushing" => open = NoCall

\* An open call, and what it is.
LEMMA OpenIs ==
  ASSUME Held, NEW s \in Slots, open[s] # None
  PROVE  /\ open[s] \in OpenCalls
         /\ open[s].call \in Calls /\ open[s].id \in Ids /\ open[s].json \in Seq(Calls)
<1>1. open[s] \in OpenCalls
  BY DEF Held
<1> QED BY <1>1 DEF OpenCalls

\* The accumulator's table, calls and order.
LEMMA NowIs ==
  ASSUME Held
  PROVE  /\ Now \in Accums
         /\ Now.heard = heard
         /\ \A s \in Slots : /\ open[s] = None => Now.table[s] = None
                             /\ open[s] # None => /\ Now.table[s] = open[s].call
                                                  /\ Now.table[s] # None
         /\ Len(Now.order) = Len(out) /\ \A i \in 1..Len(out) : Now.order[i] = out[i].call
<1>1. \A s \in Slots : open[s] # None => open[s].call \in Calls /\ open[s].call # None
  BY OpenIs, ConstantsOK
<1>2. out \in Seq(Reports) /\ heard \subseteq Calls
  BY DEF Held
<1>3. PICK n \in Nat : n = Len(out) /\ DOMAIN out = 1..n
  BY <1>2
<1>4. \A i \in 1..n : out[i].call \in Calls
  <2>1. \A i \in 1..n : out[i] \in Reports
    BY <1>2, <1>3
  <2> QED BY <2>1 DEF Reports
<1>5. [s \in Slots |-> IF open[s] = None THEN None ELSE open[s].call] \in [Slots -> Calls \cup {None}]
  BY <1>1
<1>6. PICK order \in Seq(Calls) : order = [i \in 1..n |-> out[i].call]
  <2>1. [i \in 1..n |-> out[i].call] \in Seq(Calls)
    BY <1>4
  <2> QED BY <2>1, Zenon
<1>7. Len(order) = n /\ \A i \in 1..n : order[i] = out[i].call
  BY <1>6
<1>8. Now.order = order
  BY <1>3, <1>6 DEF Now
<1> QED BY <1>1, <1>2, <1>3, <1>5, <1>6, <1>7, <1>8 DEF Now, Accums

-----------------------------------------------------------------------------
(* What one item does to the accumulator.                                  *)

\* A run of the accumulator depends on the provider alone.
LEMMA AheadStill ==
  ASSUME UNCHANGED <<dialect, begun, over>>
  PROVE  \A q, a, f : Ahead(q, a, f) => Ahead(q, a, f)'
<1>1. \A f : Parse(f)' = Parse(f)
  BY DEF Parse
<1>2. \A e : Meets(e, begun, over) => Meets(e, begun, over)'
  BY DEF Meets
<1>3. ASSUME NEW q, NEW a, NEW f, Ahead(q, a, f) PROVE Ahead(q, a, f)'
  <2>1. PICK m, e : /\ Plays(q, a, m) /\ Plays(Parse(f), m, e)
                    /\ Meets(e, begun, over) /\ (dialect = "gemini" => m.table = NoTable)
    BY <1>3 DEF Ahead
  <2>2. /\ Plays(q, a, m) /\ Plays(Parse(f)', m, e)
        /\ Meets(e, begun, over)' /\ (dialect' = "gemini" => m.table = NoTable)
    BY <1>1, <1>2, <2>1
  <2> QED BY <2>2 DEF Ahead
<1> QED BY <1>3

\* The item at the head of the queue is one the accumulator takes, and the rest
\* is a run from there.
LEMMA HeadTaken ==
  ASSUME Held, Streamed, NEW kind, Handles(kind)
  PROVE  \E b : /\ Takes(Now, Head(items), b)
                /\ Ahead(Tail(items), b, partial)
                /\ Head(items) \in Items
                /\ Tail(items) \in Seq(Items)
<1>1. pc = "streaming" /\ items # <<>> /\ items \in Seq(Items)
  BY DEF Handles, Held
<1>2. PICK m, e : /\ Plays(items, Now, m) /\ Plays(Parse(partial), m, e)
                  /\ Meets(e, begun, over) /\ (dialect = "gemini" => m.table = NoTable)
  BY <1>1 DEF Streamed, Ahead
<1>3. PICK b : Takes(Now, Head(items), b) /\ Plays(Tail(items), b, m)
  BY <1>1, <1>2, PlaysHead
<1>4. Head(items) \in Items /\ Tail(items) \in Seq(Items)
  BY <1>1
<1> QED BY <1>2, <1>3, <1>4 DEF Ahead

\* A step that leaves the provider and the cut line alone.
LEMMA StreamedNext ==
  ASSUME UNCHANGED providerVars, UNCHANGED partial, Ahead(items', Now', partial)
  PROVE  Streamed'
<1>1. Ahead(items', Now', partial')
  OBVIOUS
<1>2. Ahead(items, Now, partial)'
  BY <1>1, AheadStill
<1> QED BY <1>2 DEF Streamed

\* A call as it starts is an open call without arguments.
LEMMA OpenCallIs ==
  ASSUME NEW c \in Calls, NEW s \in Slots
  PROVE  /\ OpenCall(c, s) \in OpenCalls /\ OpenCall(c, s) # None
         /\ OpenCall(c, s).call = c /\ OpenCall(c, s).json = <<>>
<1>1. IdOf(c, s) \in Ids
  BY SlotsAre DEF IdOf, Ids
<1>2. <<>> \in Seq(Calls)
  OBVIOUS
<1>3. OpenCall(c, s) \in OpenCalls
  BY <1>1, <1>2 DEF OpenCall, OpenCalls
<1> QED BY <1>3, NoneApart DEF OpenCall

\* What the pieces handled make of a call's arguments.
LEMMA ArgumentsAre ==
  ASSUME Held, NEW c \in Calls, NEW k \in Nat
  PROVE  /\ Arguments(c, [n \in 1..k |-> c]) \in {"whole", "empty", "unreadable"}
         /\ Arguments(c, [n \in 1..k |-> c]) =
              CASE k = Pieces(c) -> "whole"
                [] k = 0 /\ Pieces(c) # 0 -> "empty"
                [] OTHER -> "unreadable"
<1>1. PICK p \in Nat : p = Pieces(c)
  BY ConstantsOK DEF Pieces
<1>2. [n \in 1..k |-> c] = [n \in 1..p |-> c] <=> k = p
  <2>1. ASSUME [n \in 1..k |-> c] = [n \in 1..p |-> c] PROVE k = p
    <3>1. 1..k = 1..p
      BY <2>1
    <3>2. k \in 1..p \/ k = 0
      BY <3>1
    <3>3. p \in 1..k \/ p = 0
      BY <3>1
    <3>4. k = 0 => p = 0
      BY <3>3
    <3>5. p = 0 => k = 0
      BY <3>2
    <3> QED BY <3>2, <3>3, <3>4, <3>5
  <2> QED BY <2>1
<1>3. [n \in 1..k |-> c] = <<>> <=> k = 0
  <2>1. ASSUME [n \in 1..k |-> c] = <<>> PROVE k = 0
    <3>1. DOMAIN [n \in 1..k |-> c] = {}
      BY <2>1
    <3>2. 1..k = {}
      BY <3>1
    <3> QED BY <3>2
  <2>2. k = 0 => [n \in 1..k |-> c] = <<>>
    OBVIOUS
  <2> QED BY <2>1, <2>2
<1>4. CASE k = p
  <2>1. Arguments(c, [n \in 1..k |-> c]) = "whole"
    BY <1>1, <1>4 DEF Arguments
  <2> QED BY <1>1, <1>4, <2>1
<1>5. CASE k # p /\ k = 0
  <2>1. Arguments(c, [n \in 1..k |-> c]) = "empty"
    BY <1>1, <1>2, <1>3, <1>5 DEF Arguments
  <2> QED BY <1>1, <1>5, <2>1
<1>6. CASE k # p /\ k # 0
  <2>1. Arguments(c, [n \in 1..k |-> c]) = "unreadable"
    BY <1>1, <1>2, <1>3, <1>6 DEF Arguments
  <2> QED BY <1>1, <1>6, <2>1
<1> QED BY <1>4, <1>5, <1>6

\* What is true of the calls open and reported.
Correct == Accumulated /\ Settled /\ OwnArguments

\* A call starts: StartCall.
LEMMA Starting ==
  ASSUME Held, Correct, NEW s \in Slots, NEW c \in Calls, c \notin heard, open[s] = None,
         open' = [open EXCEPT ![s] = OpenCall(c, s)], heard' = heard \cup {c},
         UNCHANGED <<out, got, dialect>>
  PROVE  /\ Correct'
         /\ open' \in [Slots -> OpenCalls \cup {None}]
         /\ Now' = [table |-> [Now.table EXCEPT ![s] = c], heard |-> Now.heard \cup {c},
                    order |-> Now.order]
<1>1. PICK o \in OpenCalls : /\ o = OpenCall(c, s) /\ o # None /\ o.call = c /\ o.json = <<>>
  BY OpenCallIs
<1>2. /\ open \in [Slots -> OpenCalls \cup {None}] /\ heard \subseteq Calls
      /\ got \in [Calls -> Nat]
  BY DEF Held
<1>3. /\ open' \in [Slots -> OpenCalls \cup {None}] /\ open'[s] = o
      /\ \A t \in Slots : t # s => open'[t] = open[t]
  BY <1>1, <1>2
<1>4. got[c] = 0
  BY DEF Correct, Accumulated
<1>5. \A i \in DOMAIN out : out[i].call # c
  BY DEF Correct, Settled
<1>6. Accumulated'
  <2>1. ASSUME NEW t \in Slots, open'[t] # None
        PROVE  /\ open'[t].call \in heard'
               /\ open'[t].json = [n \in 1..got'[open'[t].call] |-> open'[t].call]
               /\ \A i \in DOMAIN out' : out'[i].call # open'[t].call
    <3>1. CASE t = s
      <4>1. [n \in 1..0 |-> c] = <<>>
        OBVIOUS
      <4> QED BY <1>1, <1>3, <1>4, <1>5, <3>1, <4>1
    <3>2. CASE t # s
      BY <1>3, <2>1, <3>2 DEF Correct, Accumulated
    <3> QED BY <3>1, <3>2
  <2>2. ASSUME NEW t \in Slots, NEW u \in Slots, open'[t] # None, open'[u] # None,
               open'[t].call = open'[u].call
        PROVE  t = u
    <3>1. \A v \in Slots : v # s /\ open[v] # None => open[v].call # c
      BY DEF Correct, Accumulated
    <3>2. CASE t # s /\ u # s
      BY <1>3, <2>2, <3>2 DEF Correct, Accumulated
    <3>3. CASE t = s /\ u # s
      BY <1>1, <1>3, <2>2, <3>1, <3>3
    <3>4. CASE t # s /\ u = s
      BY <1>1, <1>3, <2>2, <3>1, <3>4
    <3> QED BY <3>2, <3>3, <3>4
  <2>3. \A d \in Calls : d \notin heard' => got'[d] = 0
    BY DEF Correct, Accumulated
  <2> QED BY <2>1, <2>2, <2>3 DEF Accumulated
<1>7. Settled'
  <2>1. ASSUME NEW d \in heard'
        PROVE  \/ \E t \in Slots : open'[t] # None /\ open'[t].call = d
               \/ \E i \in DOMAIN out' : out'[i].call = d
    <3>1. CASE d = c
      BY <1>1, <1>3, <3>1
    <3>2. CASE d # c
      <4>1. d \in heard
        BY <2>1, <3>2
      <4>2. CASE \E i \in DOMAIN out : out[i].call = d
        BY <4>2
      <4>3. CASE \E t \in Slots : open[t] # None /\ open[t].call = d
        <5>1. PICK t \in Slots : open[t] # None /\ open[t].call = d
          BY <4>3
        <5>2. t # s
          BY <5>1
        <5> QED BY <1>3, <5>1, <5>2
      <4> QED BY <4>1, <4>2, <4>3 DEF Correct, Settled
    <3> QED BY <3>1, <3>2
  <2>2. /\ \A i \in DOMAIN out' : out'[i].call \in heard'
        /\ \A i, j \in DOMAIN out' : out'[i].call = out'[j].call => i = j
    BY DEF Correct, Settled
  <2> QED BY <2>1, <2>2 DEF Settled
<1>8. OwnArguments'
  BY DEF Correct, OwnArguments, Pieces
<1>9. Now' = [table |-> [Now.table EXCEPT ![s] = c], heard |-> Now.heard \cup {c},
              order |-> Now.order]
  <2>1. [t \in Slots |-> IF open'[t] = None THEN None ELSE open'[t].call]
          = [[t \in Slots |-> IF open[t] = None THEN None ELSE open[t].call] EXCEPT ![s] = c]
    BY <1>1, <1>3
  <2> QED BY <2>1 DEF Now
<1> QED BY <1>3, <1>6, <1>7, <1>8, <1>9 DEF Correct

\* A piece comes to its call: AddArgs.
LEMMA Growing ==
  ASSUME Held, Correct, NEW s \in Slots, NEW c \in Calls, open[s] # None, open[s].call = c,
         open' = [open EXCEPT ![s].json = Append(@, c)], got' = [got EXCEPT ![c] = @ + 1],
         UNCHANGED <<out, heard, dialect>>
  PROVE  /\ Correct'
         /\ open' \in [Slots -> OpenCalls \cup {None}] /\ got' \in [Calls -> Nat]
         /\ Now' = Now
<1>1. /\ open \in [Slots -> OpenCalls \cup {None}] /\ heard \subseteq Calls
      /\ got \in [Calls -> Nat]
  BY DEF Held
<1>2. PICK o \in OpenCalls : o = open[s] /\ o.call = c
  BY OpenIs
<1>3. PICK k \in Nat : k = got[c]
  BY <1>1
<1>4. o.json = [n \in 1..k |-> c] /\ o.id \in Ids /\ c \in heard
  BY <1>2, <1>3 DEF Correct, Accumulated, OpenCalls
<1> DEFINE p == [call |-> c, id |-> o.id, json |-> Append(o.json, c)]
<1>5. Append(o.json, c) = [n \in 1..(k + 1) |-> c] /\ Append(o.json, c) \in Seq(Calls)
  BY <1>4
<1>6. p \in OpenCalls /\ p # None /\ p.call = c /\ p.json = [n \in 1..(k + 1) |-> c]
  <2>1. p \in OpenCalls
    BY <1>4, <1>5 DEF OpenCalls
  <2> QED BY <1>5, <2>1, NoneApart
<1>7. p = [o EXCEPT !.json = Append(@, c)]
  <2>1. PICK i, j : o = [call |-> c, id |-> i, json |-> j]
    BY <1>2 DEF OpenCalls
  <2>2. o.id = i /\ o.json = j
    BY <2>1
  <2>3. [[call |-> c, id |-> i, json |-> j] EXCEPT !.json = Append(@, c)]
          = [call |-> c, id |-> i, json |-> Append(j, c)]
    BY SMTT(30)
  <2> QED BY <2>1, <2>2, <2>3, Zenon
<1>8. /\ open' \in [Slots -> OpenCalls \cup {None}] /\ open'[s] = p
      /\ \A t \in Slots : t # s => open'[t] = open[t]
  <2>1. open' = [open EXCEPT ![s] = p]
    BY <1>2, <1>7
  <2> HIDE DEF p
  <2> QED BY <1>1, <1>6, <2>1
<1> HIDE DEF p
<1>9. /\ got' \in [Calls -> Nat] /\ got'[c] = k + 1
      /\ \A d \in Calls : d # c => got'[d] = got[d]
  BY <1>1, <1>3
<1>10. \A i \in DOMAIN out : out[i].call # c
  BY DEF Correct, Accumulated
<1>11. Accumulated'
  <2>1. ASSUME NEW t \in Slots, open'[t] # None
        PROVE  /\ open'[t].call \in heard'
               /\ open'[t].json = [n \in 1..got'[open'[t].call] |-> open'[t].call]
               /\ \A i \in DOMAIN out' : out'[i].call # open'[t].call
    <3>1. CASE t = s
      <4>1. open'[t].call = c /\ open'[t].json = [n \in 1..(k + 1) |-> c] /\ got'[c] = k + 1
        BY <1>6, <1>8, <1>9, <3>1
      <4>2. [n \in 1..got'[c] |-> c] = [n \in 1..(k + 1) |-> c]
        BY <4>1, Zenon
      <4>3. open'[t].json = [n \in 1..got'[open'[t].call] |-> open'[t].call]
        BY <4>1, <4>2
      <4> QED BY <1>4, <1>10, <4>1, <4>3
    <3>2. CASE t # s
      <4>1. open[t] # None /\ open'[t] = open[t] /\ open[t].call \in Calls
        BY <1>8, <2>1, <3>2, OpenIs
      <4>2. open[t].call # c
        BY <3>2, <4>1 DEF Correct, Accumulated
      <4>3. got'[open[t].call] = got[open[t].call]
        BY <1>9, <4>1, <4>2
      <4>4. /\ open[t].call \in heard
            /\ open[t].json = [n \in 1..got[open[t].call] |-> open[t].call]
            /\ \A i \in DOMAIN out : out[i].call # open[t].call
        BY <4>1 DEF Correct, Accumulated
      <4>5. [n \in 1..got'[open[t].call] |-> open[t].call] = [n \in 1..got[open[t].call] |-> open[t].call]
        BY <4>3, Zenon
      <4>6. open'[t].json = [n \in 1..got'[open'[t].call] |-> open'[t].call]
        BY <4>1, <4>4, <4>5, ZenonT(30)
      <4> QED BY <4>1, <4>4, <4>6
    <3> QED BY <3>1, <3>2
  <2>2. ASSUME NEW t \in Slots, NEW u \in Slots, open'[t] # None, open'[u] # None,
               open'[t].call = open'[u].call
        PROVE  t = u
    <3>1. \A v \in Slots : open'[v] # None => open[v] # None /\ open[v].call = open'[v].call
      BY <1>2, <1>6, <1>8
    <3> QED BY <2>2, <3>1 DEF Correct, Accumulated
  <2>3. \A d \in Calls : d \notin heard' => got'[d] = 0
    BY <1>4, <1>9 DEF Correct, Accumulated
  <2> QED BY <2>1, <2>2, <2>3 DEF Accumulated
<1>12. Settled'
  <2>1. \A v \in Slots : open[v] # None => open'[v] # None /\ open'[v].call = open[v].call
    BY <1>2, <1>6, <1>8
  <2>2. ASSUME NEW d \in heard'
        PROVE  \/ \E t \in Slots : open'[t] # None /\ open'[t].call = d
               \/ \E i \in DOMAIN out' : out'[i].call = d
    BY <2>1 DEF Correct, Settled
  <2>3. /\ \A i \in DOMAIN out' : out'[i].call \in heard'
        /\ \A i, j \in DOMAIN out' : out'[i].call = out'[j].call => i = j
    BY DEF Correct, Settled
  <2> QED BY <2>2, <2>3 DEF Settled
<1>13. OwnArguments'
  <2>1. ASSUME NEW i \in DOMAIN out PROVE got'[out[i].call] = got[out[i].call]
    <3>1. out[i].call \in heard /\ out[i].call # c
      BY <1>10 DEF Correct, Settled
    <3> QED BY <1>1, <1>9, <3>1
  <2>2. \A d : Pieces(d)' = Pieces(d)
    BY DEF Pieces
  <2> QED BY <2>1, <2>2 DEF Correct, OwnArguments
<1>14. Now' = Now
  <2>1. \A t \in Slots : (IF open'[t] = None THEN None ELSE open'[t].call)
                           = (IF open[t] = None THEN None ELSE open[t].call)
    BY <1>2, <1>6, <1>8
  <2> QED BY <2>1 DEF Now
<1> QED BY <1>8, <1>9, <1>11, <1>12, <1>13, <1>14 DEF Correct

\* A call is reported: EndCall and FlushCall.
LEMMA Reporting ==
  ASSUME Held, Correct, NEW s \in Slots, NEW c, open[s] # None, open[s].call = c,
         out' = Append(out, Completed(s)), open' = [open EXCEPT ![s] = None],
         UNCHANGED <<heard, got, dialect>>
  PROVE  /\ Correct' /\ c \in Calls
         /\ open' \in [Slots -> OpenCalls \cup {None}] /\ out' \in Seq(Reports)
         /\ Now' = [table |-> [Now.table EXCEPT ![s] = None], heard |-> Now.heard,
                    order |-> Append(Now.order, c)]
         /\ c \in heard /\ \A i \in DOMAIN out : out[i].call # c
<1>1. /\ open \in [Slots -> OpenCalls \cup {None}] /\ heard \subseteq Calls
      /\ got \in [Calls -> Nat] /\ out \in Seq(Reports)
  BY DEF Held
<1>2. PICK o \in OpenCalls : o = open[s] /\ o.call = c /\ o.id \in Ids /\ c \in Calls
  BY OpenIs
<1>3. PICK k \in Nat : k = got[c]
  BY <1>1, <1>2
<1>4. o.json = [n \in 1..k |-> c] /\ c \in heard
  BY <1>2, <1>3 DEF Correct, Accumulated
<1>5. PICK r : r = Completed(s)
  OBVIOUS
<1>6. /\ r \in Reports /\ r.call = c
      /\ r.args = CASE k = Pieces(c) -> "whole"
                    [] k = 0 /\ Pieces(c) # 0 -> "empty"
                    [] OTHER -> "unreadable"
  <2>1. PICK v : v = Arguments(c, o.json)
    OBVIOUS
  <2>2. /\ v \in {"whole", "empty", "unreadable"}
        /\ v = CASE k = Pieces(c) -> "whole"
                 [] k = 0 /\ Pieces(c) # 0 -> "empty"
                 [] OTHER -> "unreadable"
    BY <1>2, <1>4, <2>1, ArgumentsAre
  <2>3. r = [call |-> c, id |-> o.id, args |-> v]
    BY <1>2, <1>5, <2>1 DEF Completed
  <2>4. r.call = c /\ r.args = v /\ r \in Reports
    BY <1>2, <2>2, <2>3 DEF Reports
  <2> QED BY <2>2, <2>4
<1>7. /\ open' \in [Slots -> OpenCalls \cup {None}] /\ open'[s] = None
      /\ \A t \in Slots : t # s => open'[t] = open[t]
  BY <1>1
<1>8. PICK m \in Nat : m = Len(out) /\ DOMAIN out = 1..m
  BY <1>1
<1>9. /\ out' \in Seq(Reports) /\ DOMAIN out' = 1..(m + 1) /\ out'[m + 1] = r
      /\ \A i \in 1..m : out'[i] = out[i]
  BY <1>1, <1>5, <1>6, <1>8
<1>10. \A i \in DOMAIN out : out[i].call # c
  BY <1>2, ZenonT(30) DEF Correct, Accumulated
<1>11. Accumulated'
  <2>1. ASSUME NEW t \in Slots, open'[t] # None
        PROVE  /\ open'[t].call \in heard'
               /\ open'[t].json = [n \in 1..got'[open'[t].call] |-> open'[t].call]
               /\ \A i \in DOMAIN out' : out'[i].call # open'[t].call
    <3>1. t # s /\ open'[t] = open[t] /\ open[t] # None
      BY <1>7, <2>1
    <3>2. open[t].call # c
      BY <1>2, <3>1 DEF Correct, Accumulated
    <3>3. /\ open[t].call \in heard
          /\ open[t].json = [n \in 1..got[open[t].call] |-> open[t].call]
          /\ \A i \in DOMAIN out : out[i].call # open[t].call
      BY <3>1 DEF Correct, Accumulated
    <3>4. \A i \in 1..(m + 1) : out'[i].call # open[t].call
      <4>1. \A i \in 1..(m + 1) : i \in 1..m \/ i = m + 1
        OBVIOUS
      <4> QED BY <1>6, <1>8, <1>9, <3>2, <3>3, <4>1
    <3> QED BY <1>9, <3>1, <3>3, <3>4
  <2>2. \A t, u \in Slots : open'[t] # None /\ open'[u] # None /\ open'[t].call = open'[u].call => t = u
    <3>1. \A v \in Slots : open'[v] # None => open[v] # None /\ open[v] = open'[v]
      BY <1>7
    <3> QED BY <3>1 DEF Correct, Accumulated
  <2>3. \A d \in Calls : d \notin heard' => got'[d] = 0
    BY DEF Correct, Accumulated
  <2> QED BY <2>1, <2>2, <2>3 DEF Accumulated
<1>12. Settled'
  <2>1. ASSUME NEW d \in heard'
        PROVE  \/ \E t \in Slots : open'[t] # None /\ open'[t].call = d
               \/ \E i \in DOMAIN out' : out'[i].call = d
    <3>1. CASE d = c
      <4>1. m + 1 \in 1..(m + 1)
        OBVIOUS
      <4> QED BY <1>6, <1>9, <3>1, <4>1
    <3>2. CASE d # c /\ \E i \in DOMAIN out : out[i].call = d
      <4>1. PICK i \in 1..m : out[i].call = d
        BY <1>8, <3>2
      <4>2. i \in 1..(m + 1) /\ out'[i].call = d
        BY <1>9, <4>1
      <4> QED BY <1>9, <4>2
    <3>3. CASE d # c /\ \E t \in Slots : open[t] # None /\ open[t].call = d
      BY <1>2, <1>7, <3>3
    <3> QED BY <2>1, <3>1, <3>2, <3>3 DEF Correct, Settled
  <2>2. ASSUME NEW i \in DOMAIN out' PROVE out'[i].call \in heard'
    <3>1. CASE i \in 1..m
      BY <1>8, <1>9, <3>1 DEF Correct, Settled
    <3>2. CASE i = m + 1
      BY <1>4, <1>6, <1>9, <3>2
    <3> QED BY <1>9, <2>2, <3>1, <3>2
  <2>3. ASSUME NEW i \in DOMAIN out', NEW j \in DOMAIN out', out'[i].call = out'[j].call
        PROVE  i = j
    <3>1. i \in 1..m \/ i = m + 1
      BY <1>9, <2>3
    <3>2. j \in 1..m \/ j = m + 1
      BY <1>9, <2>3
    <3>3. CASE i \in 1..m /\ j \in 1..m
      BY <1>8, <1>9, <2>3, <3>3 DEF Correct, Settled
    <3>4. CASE i \in 1..m /\ j = m + 1
      BY <1>6, <1>8, <1>9, <1>10, <2>3, <3>4
    <3>5. CASE i = m + 1 /\ j \in 1..m
      BY <1>6, <1>8, <1>9, <1>10, <2>3, <3>5
    <3> QED BY <3>1, <3>2, <3>3, <3>4, <3>5
  <2> QED BY <2>1, <2>2, <2>3 DEF Settled
<1>13. OwnArguments'
  <2>1. \A d : Pieces(d)' = Pieces(d)
    BY DEF Pieces
  <2>2. ASSUME NEW i \in 1..(m + 1)
        PROVE  out'[i].args = CASE got[out'[i].call] = Pieces(out'[i].call) -> "whole"
                                [] got[out'[i].call] = 0 /\ Pieces(out'[i].call) # 0 -> "empty"
                                [] OTHER -> "unreadable"
    <3>1. CASE i \in 1..m
      BY <1>8, <1>9, <3>1 DEF Correct, OwnArguments
    <3>2. CASE i = m + 1
      <4>1. out'[i].call = c /\ out'[i].args = r.args
        BY <1>6, <1>9, <3>2
      <4>2. got[out'[i].call] = k /\ Pieces(out'[i].call) = Pieces(c)
        BY <1>3, <4>1
      <4>3. CASE k = Pieces(c)
        <5>1. out'[i].args = "whole"
          BY <1>6, <4>1, <4>3
        <5> QED BY <4>2, <4>3, <5>1
      <4>4. CASE k # Pieces(c) /\ k = 0 /\ Pieces(c) # 0
        <5>1. out'[i].args = "empty"
          BY <1>6, <4>1, <4>4
        <5> QED BY <4>2, <4>4, <5>1
      <4>5. CASE k # Pieces(c) /\ ~(k = 0 /\ Pieces(c) # 0)
        <5>1. out'[i].args = "unreadable"
          BY <1>6, <4>1, <4>5
        <5> QED BY <4>2, <4>5, <5>1
      <4> QED BY <4>3, <4>4, <4>5
    <3>3. i \in 1..m \/ i = m + 1
      OBVIOUS
    <3> QED BY <3>1, <3>2, <3>3, Zenon
  <2> QED BY <1>9, <2>1, <2>2 DEF OwnArguments
<1>14. Now' = [table |-> [Now.table EXCEPT ![s] = None], heard |-> Now.heard,
               order |-> Append(Now.order, c)]
  <2>1. [t \in Slots |-> IF open'[t] = None THEN None ELSE open'[t].call]
          = [[t \in Slots |-> IF open[t] = None THEN None ELSE open[t].call] EXCEPT ![s] = None]
    BY <1>7
  <2>2. [i \in DOMAIN out' |-> out'[i].call] = Append([i \in DOMAIN out |-> out[i].call], c)
    <3>1. PICK p \in Seq(Calls) : p = [i \in 1..m |-> out[i].call]
      <4>1. \A i \in 1..m : out[i] \in Reports
        BY <1>1, <1>8
      <4>2. [i \in 1..m |-> out[i].call] \in Seq(Calls)
        BY <4>1 DEF Reports
      <4> QED BY <4>2, Zenon
    <3>2. Len(p) = m /\ \A i \in 1..m : p[i] = out[i].call
      BY <3>1
    <3>3. PICK q \in Seq(Calls) : q = Append(p, c)
      <4>1. Append(p, c) \in Seq(Calls)
        BY <1>2, <3>1
      <4> QED BY <4>1, Zenon
    <3>4. Len(q) = m + 1 /\ q[m + 1] = c /\ \A i \in 1..m : q[i] = out[i].call
      BY <1>2, <3>1, <3>2, <3>3
    <3>5. \A i \in 1..(m + 1) : q[i] = out'[i].call
      <4>1. \A i \in 1..(m + 1) : i \in 1..m \/ i = m + 1
        OBVIOUS
      <4> QED BY <1>6, <1>9, <3>4, <4>1
    <3>6. q = [i \in 1..(m + 1) |-> q[i]]
      <4>0. q \in Seq(Calls)
        BY <3>3, Zenon
      <4>1. q \in [1..Len(q) -> Calls]
        BY <4>0
      <4>2. q \in [1..(m + 1) -> Calls]
        BY <3>4, <4>1
      <4> QED BY <4>2
    <3>7. q = [i \in 1..(m + 1) |-> out'[i].call]
      BY <3>5, <3>6
    <3> QED BY <1>8, <1>9, <3>1, <3>3, <3>7
  <2> QED BY <2>1, <2>2 DEF Now
<1> QED BY <1>2, <1>4, <1>7, <1>9, <1>10, <1>11, <1>12, <1>13, <1>14 DEF Correct

\* A step that touches no call.
LEMMA Leaving ==
  ASSUME Correct, UNCHANGED <<open, out, heard, got, dialect>>
  PROVE  Correct' /\ Now' = Now
<1>1. Accumulated' /\ Settled'
  BY DEF Correct, Accumulated, Settled
<1>2. OwnArguments'
  BY DEF Correct, OwnArguments, Pieces
<1>3. Now' = Now
  BY DEF Now
<1> QED BY <1>1, <1>2, <1>3 DEF Correct

-----------------------------------------------------------------------------
(* Each step keeps the invariant.                                          *)

\* All of it: it is inductive together with Patient.
Invariants == Held /\ Streamed /\ Correct /\ Ordered

\* Gemini's run reports calls in the order they began.
LEMMA AheadStarts ==
  ASSUME dialect = "gemini", NEW q, NEW a, NEW f, Ahead(q, a, f)
  PROVE  Starts(a.order, begun)
<1>1. PICK m, e : Plays(q, a, m) /\ Plays(Parse(f), m, e) /\ Meets(e, begun, over)
  BY DEF Ahead
<1>2. Starts(a.order, m.order) /\ Starts(m.order, e.order) /\ e.order = begun
  BY <1>1, PlaysTyped DEF Meets
<1>3. a \in Accums /\ m \in Accums /\ e \in Accums
  BY <1>1, PlaysTyped
<1>4. a.order \in Seq(Calls) /\ m.order \in Seq(Calls) /\ e.order \in Seq(Calls)
  BY <1>3 DEF Accums
<1>5. Starts(a.order, e.order)
  BY <1>2, <1>4, StartsThrough
<1> QED BY <1>2, <1>5

\* A step of Http, or one that ends the prompt, leaves the stream alone.
LEMMA Untouched ==
  ASSUME Invariants, UNCHANGED Streams,
         pc' \in {"sending", "pausing", "streaming"} => pc \in {"sending", "pausing", "streaming"},
         pc' = "flushing" => pc = "flushing" \/ (dialect = "gemini" => open = NoCall),
         pc' = "done" => pc = "done"
  PROVE  Invariants'
<1>1. Held'
  BY DEF Invariants, Held
<1>2. Correct' /\ Now' = Now
  BY Leaving DEF Invariants
<1>3. Streamed'
  <2>1. CASE pc' \in {"sending", "pausing", "streaming"}
    <3>1. Ahead(items', Now', partial)
      BY <1>2, <2>1 DEF Invariants, Streamed
    <3> QED BY <3>1, StreamedNext
  <2>2. CASE pc' \notin {"sending", "pausing", "streaming"}
    BY <2>2 DEF Streamed
  <2> QED BY <2>1, <2>2
<1>4. Ordered'
  BY <1>2 DEF Invariants, Ordered, NoCall
<1> QED BY <1>1, <1>2, <1>3, <1>4 DEF Invariants

\* What an item leads to, while the stream goes on.
LEMMA Taken ==
  ASSUME NEW kind, Handles(kind), pc' = pc, NEW b, Ahead(Tail(items), b, partial), Now' = b
  PROVE  Streamed' /\ Ordered'
<1>1. items' = Tail(items) /\ UNCHANGED providerVars /\ UNCHANGED partial /\ pc' = "streaming"
  BY DEF Handles
<1>2. Ahead(items', Now', partial)
  BY <1>1
<1>3. Streamed'
  BY <1>1, <1>2, StreamedNext
<1>4. dialect = "gemini" => Starts(Now'.order, begun)
  BY AheadStarts
<1>5. Ordered'
  BY <1>1, <1>4 DEF Ordered
<1> QED BY <1>3, <1>5

\* An item that leaves the accumulator as it is.
LEMMA Passing ==
  ASSUME Invariants, NEW kind \in {"text", "stop"}, Handles(kind), pc' = pc,
         UNCHANGED <<open, out, heard, got>>
  PROVE  /\ Streamed' /\ Ordered' /\ Correct' /\ items' \in Seq(Items)
         /\ kind = "stop" => Head(items).reason \in Reasons
<1>1. PICK b : /\ Takes(Now, Head(items), b) /\ Ahead(Tail(items), b, partial)
               /\ Tail(items) \in Seq(Items)
  BY HeadTaken DEF Invariants
<1>2. Head(items).kind = kind /\ items' = Tail(items) /\ UNCHANGED providerVars
  BY DEF Handles
<1>3. b = Now /\ (kind = "stop" => Head(items).reason \in Reasons)
  BY <1>1, <1>2 DEF Takes, Opens, Closes, Stays
<1>4. Correct' /\ Now' = Now
  BY <1>2, Leaving DEF Invariants
<1>5. Streamed' /\ Ordered'
  BY <1>1, <1>3, <1>4, Taken
<1> QED BY <1>1, <1>2, <1>3, <1>4, <1>5

\* A start comes for a call not heard of, at a free slot.
LEMMA StartCallKeeps ==
  ASSUME Invariants, StartCall
  PROVE  Invariants' /\ Head(items).call \in Calls \ heard
<1>1. Handles("start") /\ pc' = pc /\ UNCHANGED <<stop, out, spoke, got, closing>>
  BY DEF StartCall, Handles
<1>2. PICK b : /\ Takes(Now, Head(items), b) /\ Ahead(Tail(items), b, partial)
               /\ Head(items) \in Items /\ Tail(items) \in Seq(Items)
  BY <1>1, HeadTaken DEF Invariants
<1>3. PICK it \in Items : it = Head(items)
  BY <1>2
<1>4. it.kind = "start" /\ items' = Tail(items) /\ UNCHANGED providerVars /\ UNCHANGED partial
  BY <1>1, <1>3 DEF Handles
<1>5. Opens(Now, it, b)
  BY <1>2, <1>3, <1>4 DEF Takes, Closes, Stays
<1>6. PICK c \in Calls, s \in Slots : c = it.call /\ s = it.slot
  BY <1>5 DEF Opens, Items
<1>7. /\ open' = [open EXCEPT ![s] = OpenCall(c, s)] /\ heard' = heard \cup {c}
  BY <1>3, <1>6 DEF StartCall
<1>8. Held
  BY DEF Invariants
<1>9. c \notin heard /\ open[s] = None
  BY <1>5, <1>6, <1>8, NowIs DEF Opens
<1>10. /\ Correct' /\ open' \in [Slots -> OpenCalls \cup {None}]
       /\ Now' = [table |-> [Now.table EXCEPT ![s] = c], heard |-> Now.heard \cup {c},
                  order |-> Now.order]
  BY <1>1, <1>4, <1>6, <1>7, <1>8, <1>9, Starting DEF Invariants
<1>11. Now' = b
  BY <1>5, <1>6, <1>10 DEF Opens
<1>12. Streamed' /\ Ordered'
  BY <1>1, <1>2, <1>11, Taken
<1>13. Held'
  <2>1. items' \in Seq(Items) /\ heard' \subseteq Calls
    BY <1>2, <1>4, <1>7, <1>8 DEF Held
  <2> QED BY <1>1, <1>4, <1>8, <1>10, <2>1 DEF Held
<1> QED BY <1>3, <1>6, <1>9, <1>10, <1>12, <1>13 DEF Invariants

\* A piece comes to the slot of its call, which is open.
LEMMA AddArgsKeeps ==
  ASSUME Invariants, AddArgs
  PROVE  Invariants' /\ UNCHANGED heard
<1>1. Handles("args") /\ pc' = pc /\ UNCHANGED <<stop, out, spoke, heard, closing>>
  BY DEF AddArgs, Handles
<1>2. PICK b : /\ Takes(Now, Head(items), b) /\ Ahead(Tail(items), b, partial)
               /\ Head(items) \in Items /\ Tail(items) \in Seq(Items)
  BY <1>1, HeadTaken DEF Invariants
<1>3. PICK it \in Items : it = Head(items)
  BY <1>2
<1>4. it.kind = "args" /\ items' = Tail(items) /\ UNCHANGED providerVars /\ UNCHANGED partial
  BY <1>1, <1>3 DEF Handles
<1>5. b = Now /\ it.call \in Calls /\ Now.table[it.slot] = it.call
  BY <1>2, <1>3, <1>4 DEF Takes, Opens, Closes, Stays
<1>6. PICK c \in Calls, s \in Slots : c = it.call /\ s = it.slot
  BY <1>5 DEF Items
<1>7. Held
  BY DEF Invariants
<1>8. c # None
  BY ConstantsOK
<1>9. open[s] # None /\ open[s].call = c
  BY <1>5, <1>6, <1>7, <1>8, NowIs
<1>10. open' = [open EXCEPT ![s].json = Append(@, c)] /\ got' = [got EXCEPT ![c] = @ + 1]
  BY <1>3, <1>6, <1>9 DEF AddArgs
<1>11. /\ Correct' /\ Now' = Now
       /\ open' \in [Slots -> OpenCalls \cup {None}] /\ got' \in [Calls -> Nat]
  BY <1>1, <1>4, <1>7, <1>9, <1>10, Growing DEF Invariants
<1>12. Streamed' /\ Ordered'
  BY <1>1, <1>2, <1>5, <1>11, Taken
<1>13. Held'
  <2>1. items' \in Seq(Items)
    BY <1>2, <1>4
  <2> QED BY <1>1, <1>4, <1>7, <1>11, <2>1 DEF Held
<1> QED BY <1>1, <1>11, <1>12, <1>13 DEF Invariants

\* An end comes to the slot of its call, which is reported.
LEMMA EndCallKeeps ==
  ASSUME Invariants, EndCall
  PROVE  Invariants' /\ \E c \in heard : /\ \A i \in DOMAIN out : out[i].call # c
                                         /\ Now'.order = Append(Now.order, c)
<1>1. /\ Handles("end") /\ pc' = pc /\ UNCHANGED <<stop, heard, got, closing>>
      /\ spoke' = TRUE /\ open[Head(items).slot] # None
  BY DEF EndCall, Handles
<1>2. PICK b : /\ Takes(Now, Head(items), b) /\ Ahead(Tail(items), b, partial)
               /\ Head(items) \in Items /\ Tail(items) \in Seq(Items)
  BY <1>1, HeadTaken DEF Invariants
<1>3. PICK it \in Items : it = Head(items)
  BY <1>2
<1>4. it.kind = "end" /\ items' = Tail(items) /\ UNCHANGED providerVars /\ UNCHANGED partial
  BY <1>1, <1>3 DEF Handles
<1>5. Held
  BY DEF Invariants
<1>6. PICK s \in Slots : s = it.slot
  BY DEF Items
<1>7. open[s] # None /\ Now.table[s] = open[s].call /\ Now.table[s] # None
  BY <1>1, <1>3, <1>5, <1>6, NowIs
<1>8. Closes(Now, it, b)
  BY <1>2, <1>3, <1>4, <1>6, <1>7 DEF Takes, Opens, Stays
<1>9. PICK c : c = it.call
  OBVIOUS
<1>10. open[s].call = c
  BY <1>6, <1>7, <1>8, <1>9 DEF Closes
<1>11. out' = Append(out, Completed(s)) /\ open' = [open EXCEPT ![s] = None]
  BY <1>3, <1>6 DEF EndCall
<1>12. /\ Correct' /\ open' \in [Slots -> OpenCalls \cup {None}] /\ out' \in Seq(Reports)
       /\ Now' = [table |-> [Now.table EXCEPT ![s] = None], heard |-> Now.heard,
                  order |-> Append(Now.order, c)]
       /\ c \in heard /\ \A i \in DOMAIN out : out[i].call # c
  BY <1>1, <1>4, <1>5, <1>7, <1>10, <1>11, Reporting DEF Invariants
<1>13. Now' = b
  BY <1>6, <1>8, <1>9, <1>12 DEF Closes
<1>14. Streamed' /\ Ordered'
  BY <1>1, <1>2, <1>13, Taken
<1>15. Held'
  <2>1. items' \in Seq(Items)
    BY <1>2, <1>4
  <2> QED BY <1>1, <1>4, <1>5, <1>12, <2>1 DEF Held
<1> QED BY <1>12, <1>14, <1>15 DEF Invariants

\* An end where no call is open is that of no call.
LEMMA EndNothingKeeps ==
  ASSUME Invariants, EndNothing
  PROVE  Invariants'
<1>1. Handles("end") /\ pc' = pc /\ UNCHANGED accumVars /\ UNCHANGED historyVars
      /\ open[Head(items).slot] = None
  BY DEF EndNothing, Handles
<1>2. PICK b : /\ Takes(Now, Head(items), b) /\ Ahead(Tail(items), b, partial)
               /\ Head(items) \in Items /\ Tail(items) \in Seq(Items)
  BY <1>1, HeadTaken DEF Invariants
<1>3. PICK it \in Items : it = Head(items)
  BY <1>2
<1>4. it.kind = "end" /\ items' = Tail(items) /\ UNCHANGED providerVars /\ UNCHANGED partial
  BY <1>1, <1>3 DEF Handles
<1>5. Held
  BY DEF Invariants
<1>6. PICK s \in Slots : s = it.slot
  BY DEF Items
<1>7. Now.table[s] = None
  BY <1>1, <1>3, <1>5, <1>6, NowIs
<1>8. b = Now
  BY <1>2, <1>3, <1>4, <1>6, <1>7, ConstantsOK DEF Takes, Opens, Closes, Stays
<1>9. Correct' /\ Now' = Now
  BY <1>1, <1>4, Leaving DEF Invariants
<1>10. Streamed' /\ Ordered'
  BY <1>1, <1>2, <1>8, <1>9, Taken
<1>11. Held'
  <2>1. items' \in Seq(Items)
    BY <1>2, <1>4
  <2> QED BY <1>1, <1>4, <1>5, <2>1 DEF Held
<1> QED BY <1>9, <1>10, <1>11 DEF Invariants

\* The line left over parses to a run that catches up with the provider.
LEMMA LineAhead ==
  ASSUME Held, Streamed, Reading
  PROVE  \E e : Plays(Parse(partial), Now, e) /\ Meets(e, begun, over)
<1>1. pc = "streaming" /\ items = <<>>
  BY DEF Reading
<1>2. PICK m, e : Plays(items, Now, m) /\ Plays(Parse(partial), m, e) /\ Meets(e, begun, over)
  BY <1>1 DEF Streamed, Ahead
<1>3. Plays(<<>>, Now, m)
  BY <1>1, <1>2
<1>4. m = Now
  BY <1>3, PlaysNothing
<1> QED BY <1>2, <1>4

\* What a frame changes of the provider keeps its type.
LEMMA SendsTyped ==
  ASSUME Held, NEW f, Sends(f), frames < MaxFrames
  PROVE  /\ sent' \in [Calls -> Nat] /\ over' \subseteq Calls /\ frames' \in 0..MaxFrames
         /\ dialect' = dialect
<1>1. sent \in [Calls -> Nat] /\ over \subseteq Calls /\ frames \in 0..MaxFrames
  BY DEF Held
<1>2. sent' \in [Calls -> Nat]
  <2>1. \A c \in Calls : sent[c] \in Nat /\ sent[c] + 1 \in Nat
    BY <1>1
  <2> QED BY <2>1, ZenonT(30) DEF Sends
<1>3. over' \subseteq Calls
  BY <1>1 DEF Sends
<1>4. frames' \in 0..MaxFrames
  <2>1. frames' = frames + 1
    BY Zenon DEF Sends
  <2> QED BY <1>1, <2>1, ConstantsOK
<1> QED BY <1>2, <1>3, <1>4 DEF Sends

\* A chunk arrives, its last frame cut or whole.
LEMMA ChunkKeeps ==
  ASSUME Invariants, NEW f \in Frames, NEW cut \in BOOLEAN, ChunkArrives(f, cut)
  PROVE  Invariants'
<1>1. /\ pc = "streaming" /\ pc' = pc /\ Sends(f) /\ frames < MaxFrames
      /\ UNCHANGED accumVars /\ UNCHANGED historyVars /\ Reading
      /\ items' = Parse(partial) \o (IF cut THEN <<>> ELSE Parse(f))
      /\ partial' = IF cut THEN f ELSE None
  BY DEF ChunkArrives, Reading
<1>2. Held
  BY DEF Invariants
<1>3. PICK e : Plays(Parse(partial), Now, e) /\ Meets(e, begun, over)
  BY <1>1, LineAhead DEF Invariants
<1>4. Sound(f) /\ \E g : Plays(Parse(f), e, g) /\ Meets(g, begun', over')
  BY <1>1, <1>2, <1>3, Catches DEF Held
<1>5. PICK g : Plays(Parse(f), e, g) /\ Meets(g, begun', over')
  BY <1>4
<1>6. /\ sent' \in [Calls -> Nat] /\ over' \subseteq Calls /\ frames' \in 0..MaxFrames
      /\ dialect' = dialect
  BY <1>1, <1>2, SendsTyped
<1>7. Correct' /\ Now' = Now
  BY <1>1, <1>6, Leaving DEF Invariants
<1>8. Parse(f)' = Parse(f) /\ Meets(g, begun, over)' /\ Parse(None)' = <<>>
  <2>1. Meets(g, begun, over)'
    BY <1>5, <1>6 DEF Meets
  <2>2. Parse(f)' = Parse(f)
    BY <1>6 DEF Parse
  <2>3. Parse(None)' = <<>>
    BY DEF Parse
  <2> QED BY <2>1, <2>2, <2>3
<1>9. g \in Accums /\ begun' \in Seq(Calls) /\ Distinct(begun') /\ (dialect' = "gemini" => g.order = begun')
  BY <1>5, <1>6 DEF Meets
<1>10. Starts(Now.order, e.order) /\ Starts(e.order, g.order) /\ e \in Accums /\ Now \in Accums
  BY <1>3, <1>5, PlaysTyped
<1>11. Starts(Now.order, g.order)
  <2>1. Now.order \in Seq(Calls) /\ e.order \in Seq(Calls) /\ g.order \in Seq(Calls)
    BY <1>9, <1>10 DEF Accums
  <2> QED BY <1>10, <2>1, StartsThrough
<1>12. Ordered'
  BY <1>1, <1>7, <1>9, <1>11 DEF Ordered
<1>13. \E m, h : /\ Plays(items', Now', m) /\ Plays(Parse(partial)', m, h)
                 /\ Meets(h, begun, over)' /\ (dialect' = "gemini" => m.table = NoTable)
  <2>1. CASE cut
    <3>1. items' = Parse(partial) /\ partial' = f
      <4>1. Parse(partial) \in Seq(Items)
        BY <1>3, PlaysTyped
      <4>2. Parse(partial) \o <<>> = Parse(partial)
        BY <4>1, ConcatEmptySeq
      <4> QED BY <1>1, <2>1, <4>2
    <3>2. Parse(partial)' = Parse(f)
      BY <1>6, <3>1 DEF Parse
    <3>3. dialect' = "gemini" => e.table = NoTable
      BY <1>3, <1>6 DEF Meets
    <3> QED BY <1>3, <1>5, <1>7, <1>8, <3>1, <3>2, <3>3
  <2>2. CASE ~cut
    <3>1. items' = Parse(partial) \o Parse(f) /\ partial' = None
      BY <1>1, <2>2
    <3>2. Plays(Parse(partial) \o Parse(f), Now, g)
      BY <1>3, <1>5, PlaysBoth
    <3>3. Parse(partial)' = <<>>
      BY <3>1 DEF Parse
    <3>4. Plays(<<>>, g, g)
      BY <1>9, PlaysNone
    <3>5. dialect' = "gemini" => g.table = NoTable
      BY <1>5, <1>6 DEF Meets
    <3> QED BY <1>7, <1>8, <3>1, <3>2, <3>3, <3>4, <3>5
  <2> QED BY <2>1, <2>2
<1>14. Streamed'
  BY <1>13 DEF Streamed, Ahead
<1>15. Held'
  <2>1. items' \in Seq(Items)
    BY <1>13, PlaysTyped
  <2>2. partial' = None \/ Sound(partial')
    BY <1>1, <1>4
  <2> QED BY <1>1, <1>2, <1>6, <1>9, <2>1, <2>2 DEF Held
<1> QED BY <1>7, <1>12, <1>14, <1>15 DEF Invariants

\* The line left over is complete.
LEMMA TailKeeps ==
  ASSUME Invariants, TailArrives
  PROVE  Invariants'
<1>1. /\ pc = "streaming" /\ pc' = pc /\ Reading /\ UNCHANGED providerVars
      /\ UNCHANGED accumVars /\ UNCHANGED historyVars
      /\ items' = Parse(partial) /\ partial' = None
  BY DEF TailArrives, Reading
<1>2. Held
  BY DEF Invariants
<1>3. PICK e : Plays(Parse(partial), Now, e) /\ Meets(e, begun, over)
  BY <1>1, LineAhead DEF Invariants
<1>4. Correct' /\ Now' = Now
  BY <1>1, Leaving DEF Invariants
<1>5. /\ Parse(partial)' = <<>> /\ Meets(e, begun, over)'
      /\ (dialect' = "gemini" => e.table = NoTable) /\ e \in Accums
  <2>1. Parse(partial)' = <<>>
    BY <1>1 DEF Parse
  <2>2. Meets(e, begun, over)'
    BY <1>1, <1>3 DEF Meets
  <2> QED BY <1>1, <1>3, <2>1, <2>2 DEF Meets
<1>6. Plays(<<>>, e, e)
  BY <1>5, PlaysNone
<1>7. Plays(items', Now', e)
  BY <1>1, <1>3, <1>4
<1>8. Streamed'
  BY <1>5, <1>6, <1>7 DEF Streamed, Ahead
<1>9. Ordered'
  BY <1>1, <1>4 DEF Invariants, Ordered
<1>10. Held'
  <2>1. items' \in Seq(Items)
    BY <1>7, PlaysTyped
  <2> QED BY <1>1, <1>2, <2>1 DEF Held
<1> QED BY <1>4, <1>8, <1>9, <1>10 DEF Invariants

\* The body ends.
LEMMA StreamEndsKeeps ==
  ASSUME Invariants, StreamEnds
  PROVE  Invariants'
<1>1. pc = "streaming" /\ items = <<>> /\ pc' = "flushing" /\ UNCHANGED Streams
  BY DEF StreamEnds, Reading
<1>2. dialect = "gemini" => open = NoCall
  <2> SUFFICES ASSUME dialect = "gemini" PROVE open = NoCall
    OBVIOUS
  <2>1. PICK m : Plays(items, Now, m) /\ m.table = NoTable
    BY <1>1 DEF Invariants, Streamed, Ahead
  <2>2. Plays(<<>>, Now, m)
    BY <1>1, <2>1
  <2>3. Now.table = NoTable
    BY <2>1, <2>2, PlaysNothing
  <2>4. Held
    BY DEF Invariants
  <2>5. \A s \in Slots : open[s] = None
    BY <2>3, <2>4, NowIs DEF NoTable
  <2>6. open = [s \in Slots |-> open[s]]
    BY <2>4 DEF Held
  <2> QED BY <2>5, <2>6 DEF NoCall
<1> QED BY <1>1, <1>2, Untouched

\* A call still open is reported at the end.
LEMMA FlushCallKeeps ==
  ASSUME Invariants, NEW s \in Slots, FlushCall(s)
  PROVE  Invariants' /\ \E c \in heard : /\ \A i \in DOMAIN out : out[i].call # c
                                         /\ Now'.order = Append(Now.order, c)
<1>1. /\ pc = "flushing" /\ pc' = pc /\ open[s] # None /\ spoke' = TRUE
      /\ out' = Append(out, Completed(s)) /\ open' = [open EXCEPT ![s] = None]
      /\ UNCHANGED <<providerVars, partial, items, stop, heard, got, closing>>
  BY DEF FlushCall
<1>2. Held
  BY DEF Invariants
<1>3. PICK c : c = open[s].call
  OBVIOUS
<1>4. /\ Correct' /\ open' \in [Slots -> OpenCalls \cup {None}] /\ out' \in Seq(Reports)
      /\ Now' = [table |-> [Now.table EXCEPT ![s] = None], heard |-> Now.heard,
                 order |-> Append(Now.order, c)]
      /\ c \in heard /\ \A i \in DOMAIN out : out[i].call # c
  BY <1>1, <1>2, <1>3, Reporting DEF Invariants
<1>5. Streamed'
  BY <1>1 DEF Streamed
<1>6. dialect # "gemini"
  BY <1>1 DEF Invariants, Ordered, NoCall
<1>7. Ordered'
  BY <1>1, <1>6 DEF Ordered
<1>8. Held'
  BY <1>1, <1>2, <1>4 DEF Held
<1> QED BY <1>4, <1>5, <1>7, <1>8 DEF Invariants

\* Done closes the reply.
LEMMA EmitDoneKeeps ==
  ASSUME Invariants, EmitDone
  PROVE  Invariants'
<1>1. /\ pc = "flushing" /\ pc' = "done" /\ closing' = stop /\ spoke' = TRUE
      /\ UNCHANGED <<providerVars, partial, items, accumVars, out, heard, got>>
  BY DEF EmitDone
<1>2. Held'
  BY <1>1 DEF Invariants, Held
<1>3. Correct' /\ Now' = Now
  BY <1>1, Leaving DEF Invariants
<1>4. Streamed'
  BY <1>1 DEF Streamed
<1>5. Ordered'
  BY <1>1, <1>3 DEF Invariants, Ordered
<1> QED BY <1>2, <1>3, <1>4, <1>5 DEF Invariants

\* Text and stop reasons.
LEMMA SpeakKeeps ==
  ASSUME Invariants, Speak \/ HearStop
  PROVE  Invariants'
<1>1. Held
  BY DEF Invariants
<1>2. CASE Speak
  <2>1. /\ Handles("text") /\ pc' = pc /\ spoke' = TRUE
        /\ UNCHANGED <<accumVars, out, heard, got, closing>>
        /\ UNCHANGED providerVars /\ UNCHANGED partial
    BY <1>2 DEF Speak, Handles
  <2>2. Streamed' /\ Ordered' /\ Correct' /\ items' \in Seq(Items)
    BY <2>1, Passing
  <2>3. Held'
    BY <1>1, <2>1, <2>2 DEF Held
  <2> QED BY <2>2, <2>3 DEF Invariants
<1>3. CASE HearStop
  <2>1. /\ Handles("stop") /\ pc' = pc /\ UNCHANGED <<open, out, spoke, heard, got, closing>>
        /\ stop' = Head(items).reason
        /\ UNCHANGED providerVars /\ UNCHANGED partial /\ pc = "streaming"
    BY <1>3 DEF HearStop, Handles
  <2>2. /\ Streamed' /\ Ordered' /\ Correct' /\ items' \in Seq(Items)
        /\ Head(items).reason \in Reasons
    BY <2>1, Passing
  <2>3. Held'
    BY <1>1, <2>1, <2>2 DEF Held
  <2> QED BY <2>2, <2>3 DEF Invariants
<1> QED BY <1>2, <1>3

\* An error in the stream ends the prompt.
LEMMA HearErrorKeeps ==
  ASSUME Invariants, HearError
  PROVE  Invariants'
<1>1. /\ items # <<>> /\ items' = Tail(items) /\ pc' = "failed"
      /\ UNCHANGED <<providerVars, partial, accumVars, historyVars>>
  BY DEF HearError, Handles
<1>2. Held'
  <2>1. items' \in Seq(Items)
    BY <1>1 DEF Invariants, Held
  <2> QED BY <1>1, <2>1 DEF Invariants, Held
<1>3. Correct' /\ Now' = Now
  BY <1>1, Leaving DEF Invariants
<1>4. Streamed'
  BY <1>1 DEF Streamed
<1>5. Ordered'
  BY <1>1, <1>3 DEF Invariants, Ordered
<1> QED BY <1>2, <1>3, <1>4, <1>5 DEF Invariants

\* A prompt starts with nothing heard, waiting or sent.
LEMMA InitHolds ==
  ASSUME Init
  PROVE  Invariants
<1>1. /\ dialect \in Dialects /\ begun = <<>> /\ sent = [c \in Calls |-> 0] /\ over = {}
      /\ frames = 0 /\ partial = None /\ items = <<>> /\ open = NoCall
      /\ stop = "EndTurn" /\ out = <<>> /\ spoke = FALSE /\ heard = {}
      /\ got = [c \in Calls |-> 0] /\ closing = None /\ pc = "sending"
  BY DEF Init
<1>2. \A s \in Slots : open[s] = None
  BY <1>1 DEF NoCall
<1>3. Distinct(begun) /\ begun \in Seq(Calls) /\ Called(begun) = {} /\ Len(begun) = 0
  BY <1>1 DEF Distinct, Called
<1>4. Held
  <2>1. open \in [Slots -> OpenCalls \cup {None}]
    BY <1>1 DEF NoCall
  <2>2. items \in Seq(Items) /\ out \in Seq(Reports)
    BY <1>1
  <2>3. sent \in [Calls -> Nat] /\ got \in [Calls -> Nat] /\ frames \in 0..MaxFrames
    BY <1>1, ConstantsOK
  <2>4. stop \in Reasons /\ closing \in Reasons \cup {None}
    BY <1>1, ConstantsOK
  <2> QED BY <1>1, <1>3, <2>1, <2>2, <2>3, <2>4 DEF Held
<1>5. Now.order = <<>> /\ Now.heard = {} /\ Now.table = NoTable /\ Now \in Accums
  <2>1. Now.order = <<>>
    BY <1>1 DEF Now
  <2>2. Now.table = NoTable
    BY <1>2 DEF Now, NoTable
  <2> QED BY <1>1, <1>4, <2>1, <2>2, NowIs
<1>6. Meets(Now, begun, over)
  BY <1>1, <1>3, <1>5 DEF Meets, NoTable
<1>7. Plays(<<>>, Now, Now)
  BY <1>5, PlaysNone
<1>8. Streamed
  <2>1. Parse(partial) = <<>> /\ items = <<>>
    BY <1>1 DEF Parse
  <2> QED BY <1>5, <1>6, <1>7, <2>1 DEF Streamed, Ahead
<1>9. Correct
  BY <1>1, <1>2 DEF Correct, Accumulated, Settled, OwnArguments
<1>10. Ordered
  BY <1>1, <1>3, <1>5 DEF Ordered, Starts
<1> QED BY <1>4, <1>8, <1>9, <1>10 DEF Invariants

\* A step of Http, or one that breaks the prompt off.
LEMMA OtherStepsKeep ==
  ASSUME Invariants, pc \in Stages,
         \/ \E asked \in RetryAfters \cup {None} : Overloaded(asked)
         \/ Unreached \/ Resume \/ GivesUp \/ Accepted
         \/ StreamBreaks \/ SinkFails
  PROVE  Invariants' /\ UNCHANGED Streams
<1>1. /\ UNCHANGED Streams
      /\ pc' \in {"sending", "pausing", "streaming", "failed"}
      /\ pc' # "failed" => pc \in {"sending", "pausing"}
  <2>1. CASE \E asked \in RetryAfters \cup {None} : Overloaded(asked)
    BY <2>1 DEF Overloaded, RetryIn
  <2>2. CASE Unreached
    BY <2>2 DEF Unreached, RetryIn
  <2>3. CASE Resume \/ GivesUp \/ Accepted
    BY <2>3 DEF Resume, GivesUp, Accepted
  <2>4. CASE StreamBreaks \/ SinkFails
    BY <2>4 DEF StreamBreaks, SinkFails
  <2> QED BY <2>1, <2>2, <2>3, <2>4
<1> QED BY <1>1, Untouched

\* The invariant holds at all times, in every dialect, for every number of calls,
\* pieces and frames, wherever the stream is cut or broken.
THEOREM StreamCorrect == Spec => []Invariants
<1>1. Init => Invariants
  BY InitHolds
<1>2. pc \in Stages /\ Invariants /\ [Next]_vars => Invariants'
  <2> SUFFICES ASSUME pc \in Stages, Invariants, [Next]_vars
               PROVE  Invariants'
    OBVIOUS
  <2>1. CASE \/ \E asked \in RetryAfters \cup {None} : Overloaded(asked)
             \/ Unreached \/ Resume \/ GivesUp \/ Accepted
             \/ StreamBreaks \/ SinkFails
    BY <2>1, OtherStepsKeep
  <2>2. ASSUME NEW f \in Frames, NEW cut \in BOOLEAN, ChunkArrives(f, cut)
        PROVE  Invariants'
    BY <2>2, ChunkKeeps
  <2>3. CASE TailArrives \/ StreamEnds
    BY <2>3, TailKeeps, StreamEndsKeeps
  <2>4. CASE Speak \/ HearStop \/ HearError
    BY <2>4, SpeakKeeps, HearErrorKeeps
  <2>5. CASE StartCall \/ AddArgs
    BY <2>5, StartCallKeeps, AddArgsKeeps
  <2>6. CASE EndCall \/ EndNothing
    BY <2>6, EndCallKeeps, EndNothingKeeps
  <2>7. ASSUME NEW slot \in Slots, FlushCall(slot)
        PROVE  Invariants'
    BY <2>7, FlushCallKeeps
  <2>8. CASE EmitDone
    BY <2>8, EmitDoneKeeps
  <2>9. CASE UNCHANGED vars
    BY <2>9, Untouched DEF vars
  <2> QED
    BY <2>1, <2>2, <2>3, <2>4, <2>5, <2>6, <2>7, <2>8, <2>9 DEF Next, Progress, Rest
<1>3. Patient => pc \in Stages
  BY DEF Patient
<1> QED BY <1>1, <1>2, <1>3, PatientCorrect, PTL DEF Spec

-----------------------------------------------------------------------------
(* What follows of it.                                                     *)

\* Every variable holds a value of its type, the retries' budget included.
THEOREM TypeCorrect == Spec => []TypeOK
<1>1. Patient /\ Invariants => TypeOK
  <2> SUFFICES ASSUME Patient, Held PROVE TypeOK
    BY DEF Invariants
  <2>1. attempt \in 0..MaxRetries /\ requests \in Nat
    BY ConstantsOK DEF Patient
  <2> QED BY <2>1 DEF Patient, Held, TypeOK
<1> QED BY <1>1, PatientCorrect, StreamCorrect, PTL

\* A call is reported with its own arguments: whole, missing or unreadable
\* exactly as its pieces came (ToolAccum, parse_tool_arguments).
THEOREM ArgumentsOwn == Spec => []OwnArguments
<1>1. Invariants => OwnArguments
  BY DEF Invariants, Correct
<1> QED BY <1>1, StreamCorrect, PTL

\* A dialect that sends calls whole keeps their order (ToolAccum).
THEOREM GeminiInOrder == Spec => []WholeCallsInOrder
<1>1. Invariants => WholeCallsInOrder
  <2> SUFFICES ASSUME Held, Ordered, dialect = "gemini",
                      NEW i \in DOMAIN out, NEW j \in DOMAIN out, i < j
               PROVE  SlotOf(out[i].call, begun) < SlotOf(out[j].call, begun)
    BY DEF Invariants, WholeCallsInOrder, IssueOrder
  <2>1. begun \in Seq(Calls) /\ Distinct(begun) /\ out \in Seq(Reports)
    BY DEF Held
  <2>2. i \in 1..Len(out) /\ j \in 1..Len(out) /\ Len(out) \in Nat
    BY <2>1
  <2>3. Starts(Now.order, begun)
    BY DEF Ordered
  <2>4. Len(Now.order) = Len(out) /\ \A k \in 1..Len(out) : Now.order[k] = out[k].call
    BY NowIs
  <2>5. PICK n \in Nat : n = Len(out) /\ n <= Len(begun)
    BY <2>2, <2>3, <2>4 DEF Starts
  <2>6. out[i].call = begun[i] /\ out[j].call = begun[j]
    BY <2>2, <2>3, <2>4 DEF Starts
  <2>7. i \in 1..Len(begun) /\ j \in 1..Len(begun)
    BY <2>1, <2>2, <2>5
  <2>8. SlotOf(begun[i], begun) = i - 1 /\ SlotOf(begun[j], begun) = j - 1
    BY <2>1, <2>7, SlotIs
  <2> QED BY <2>2, <2>6, <2>8
<1> QED BY <1>1, StreamCorrect, PTL

\* The calls reported so far, as the sink has them.
LEMMA ReportedIs ==
  ASSUME Held
  PROVE  /\ Now.order = [i \in DOMAIN out |-> out[i].call]
         /\ \A c : c \in Reply!Reported <=> \E i \in DOMAIN out : out[i].call = c
<1>1. DOMAIN [i \in DOMAIN out |-> out[i].call] = DOMAIN out
  OBVIOUS
<1> QED BY <1>1 DEF Now, Reply!Reported

\* Every step is one of AgentReply, or changes nothing the sink sees.
LEMMA StepReplies ==
  ASSUME pc \in Stages, Invariants, [Next]_vars
  PROVE  [Reply!Next]_(Reply!vars)
<1> USE DEF Reply!vars
<1>1. Held
  BY DEF Invariants
<1>2. Now.order = [i \in DOMAIN out |-> out[i].call] /\ Now'.order = [i \in DOMAIN out' |-> out'[i].call]
  BY DEF Now
<1>3. CASE \/ \E asked \in RetryAfters \cup {None} : Overloaded(asked)
           \/ Unreached \/ Resume \/ Accepted
  BY <1>3 DEF Overloaded, Unreached, RetryIn, Resume, Accepted
<1>4. CASE GivesUp \/ StreamBreaks \/ SinkFails
  <2>1. pc \notin {"done", "failed"} /\ pc' = "failed" /\ UNCHANGED <<heard, out>>
    BY <1>4 DEF GivesUp, StreamBreaks, SinkFails, Reading
  <2> QED BY <2>1 DEF Reply!Next, Reply!Break
<1>5. ASSUME NEW f \in Frames, NEW cut \in BOOLEAN, ChunkArrives(f, cut)
      PROVE  UNCHANGED Reply!vars
  BY <1>5 DEF ChunkArrives
<1>6. CASE TailArrives \/ StreamEnds
  <2>1. pc \notin {"done", "failed"} /\ pc' \notin {"done", "failed"} /\ UNCHANGED <<heard, out>>
    BY <1>6 DEF TailArrives, StreamEnds, Reading
  <2> QED BY <2>1
<1>7. CASE Speak \/ HearStop \/ AddArgs \/ EndNothing
  BY <1>7 DEF Speak, HearStop, AddArgs, EndNothing, Handles
<1>8. CASE HearError
  <2>1. pc \notin {"done", "failed"} /\ pc' = "failed" /\ UNCHANGED <<heard, out>>
    BY <1>8 DEF HearError, Handles
  <2> QED BY <2>1 DEF Reply!Next, Reply!Break
<1>9. CASE StartCall
  <2>1. PICK c \in Calls : c = Head(items).call /\ c \notin heard
    BY <1>9, StartCallKeeps
  <2>2. heard' = heard \cup {c} /\ UNCHANGED <<out, pc>> /\ pc = "streaming"
    BY <1>9, <2>1 DEF StartCall, Handles
  <2>3. Reply!Issue(c)
    BY <2>1, <2>2 DEF Reply!Issue
  <2> QED BY <2>3 DEF Reply!Next
<1>10. ASSUME NEW c \in heard, \A i \in DOMAIN out : out[i].call # c,
              Now'.order = Append(Now.order, c), UNCHANGED <<heard, pc>>,
              pc \notin {"done", "failed"}
       PROVE  Reply!Next
  <2>1. c \in Calls /\ c \notin Reply!Reported
    BY <1>1, <1>10, ReportedIs DEF Held
  <2>2. Reply!Report(c)
    BY <1>2, <1>10, <2>1 DEF Reply!Report
  <2> QED BY <2>1, <2>2 DEF Reply!Next
<1>11. CASE EndCall
  <2>1. UNCHANGED <<heard, pc>> /\ pc = "streaming"
    BY <1>11 DEF EndCall, Handles
  <2> QED BY <1>10, <1>11, <2>1, EndCallKeeps
<1>12. ASSUME NEW slot \in Slots, FlushCall(slot)
       PROVE  Reply!Next
  <2>1. UNCHANGED <<heard, pc>> /\ pc = "flushing"
    BY <1>12 DEF FlushCall
  <2> QED BY <1>10, <1>12, <2>1, FlushCallKeeps
<1>13. CASE EmitDone
  <2>1. pc = "flushing" /\ pc' = "done" /\ open = NoCall /\ UNCHANGED <<heard, out>>
    BY <1>13 DEF EmitDone
  <2>2. \A s \in Slots : open[s] = None
    BY <2>1 DEF NoCall
  <2>3. \A c : c \in heard <=> \E i \in DOMAIN out : out[i].call = c
    BY <2>2 DEF Invariants, Correct, Settled
  <2>4. Reply!Reported = heard
    BY <1>1, <2>3, ReportedIs
  <2> QED BY <2>1, <2>4 DEF Reply!Next, Reply!Finish
<1>14. CASE UNCHANGED vars
  BY <1>14 DEF vars
<1> QED
  BY <1>3, <1>4, <1>5, <1>6, <1>7, <1>8, <1>9, <1>11, <1>12, <1>13, <1>14 DEF Next, Progress, Rest

\* The sink sees each call once and after it began, and Done only behind every
\* call that began: the stream implements AgentReply.
THEOREM ReplyIsKept == Spec => ReplyKept
<1>1. Init => Reply!Init
  BY DEF Init, Reply!Init
<1>2. Patient => pc \in Stages
  BY DEF Patient
<1>3. pc \in Stages /\ Invariants /\ [Next]_vars => [Reply!Next]_(Reply!vars)
  BY StepReplies
<1> QED BY <1>1, <1>2, <1>3, PatientCorrect, StreamCorrect, PTL DEF Spec, ReplyKept, Reply!Spec
=============================================================================
