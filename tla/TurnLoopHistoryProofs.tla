------------------------ MODULE TurnLoopHistoryProofs ------------------------
(***************************************************************************)
(* What one turn at a time makes of the log.  While a turn is at work no    *)
(* other appends, so a flush stands at the end of the log until it ends:    *)
(* a model is prompted with valid history, the calls of a batch stay        *)
(* together, and the log grows as AtomicHistory says.                       *)
(***************************************************************************)
EXTENDS TurnLoopCallProofs

USE DEF loopVars, turnVars, callVars

\* All turns are of one session, whose consumer runs one at a time.
OneAtATime == Serial /\ \A t, u \in Turns : SessionOf[t] = SessionOf[u]

-----------------------------------------------------------------------------
(* One turn at work.                                                        *)

\* No two turns are at work at a time.
OneBusy == \A t, u \in Turns : Busy(t) /\ Busy(u) => t = u

\* A step of a turn, by its kind.
StepOf(t) ==
  \/ Moves(t) \/ Errors(t) \/ Settles(t) \/ ReportInProgress(t) \/ CallTool(t)
  \/ \E o \in Decisions : PolicyResolves(t, o)
  \/ \E p \in Calls, o \in Decisions : Approve(t, p, o)
  \/ PolicyAsks(t)
  \/ \E q \in Batches, h \in BOOLEAN : AgentReplies(t, q, h)
  \/ FlushEntry(t) \/ FlushEnds(t)

\* Every step belongs to a turn.
LEMMA StepsOfTurns ==
  ASSUME [Next]_vars
  PROVE  (\E t \in Turns : StepOf(t)) \/ UNCHANGED vars
BY StepKinds DEF StepOf

\* A step leaves the other turns alone.
LEMMA StepOthers == ASSUME TypeOK, NEW t \in Turns, StepOf(t) PROVE Others(t)
BY MovesEffect, ErrorsEffect, SettlesEffect, ReportInProgressEffect, CallToolEffect,
   PolicyResolvesEffect, ApproveEffect, PolicyAsksEffect, AgentRepliesEffect,
   FlushEntryEffect, FlushEndsEffect DEF StepOf

\* The runtime steps only where a call is open; a consumer waits for its turn.
LEMMA StepLicensed ==
  ASSUME TypeOK, NEW t \in Turns, StepOf(t)
  PROVE  Busy(t) \/ MaySubmit(t)
<1>1. CASE Moves(t)
  <2>1. CASE Handle(t) \/ HandleUnknownAgent(t) \/ \E p \in Calls : ApproveUnknown(t, p)
    BY <2>1 DEF Handle, HandleUnknownAgent, ApproveUnknown, MayApprove
  <2>2. CASE \/ AppendBlock(t) \/ MessageStored(t) \/ Assemble(t) \/ AppendText(t)
             \/ EmitDone(t) \/ DispatchRead(t) \/ BatchEnds(t)
    BY <2>2 DEF AppendBlock, MessageStored, Assemble, AppendText, EmitDone, DispatchRead,
         AtCall, BatchEnds, Busy
  <2> QED BY <1>1, <2>1, <2>2 DEF Moves
<1>2. CASE Errors(t)
  BY <1>2 DEF Errors, Exceeded, AgentFails, PolicyFails, NeedsDecision, AtCall, SinkFails,
       AppendFails, Busy
<1>3. CASE Settles(t) \/ ReportInProgress(t) \/ CallTool(t) \/ PolicyAsks(t)
  BY <1>3, SettlesEffect, ReportInProgressEffect, CallToolEffect, PolicyAsksEffect DEF Busy
<1>4. ASSUME NEW o \in Decisions, PolicyResolves(t, o) PROVE Busy(t)
  BY <1>4, PolicyResolvesEffect DEF Busy
<1>5. ASSUME NEW p \in Calls, NEW o \in Decisions, Approve(t, p, o) PROVE MaySubmit(t)
  BY <1>5 DEF Approve, MayApprove
<1>6. ASSUME NEW q \in Batches, NEW h \in BOOLEAN, AgentReplies(t, q, h) PROVE Busy(t)
  BY <1>6, AgentRepliesEffect DEF Busy
<1>7. CASE FlushEntry(t) \/ FlushEnds(t)
  BY <1>7, FlushEntryEffect, FlushEndsEffect DEF Busy
<1> QED BY <1>1, <1>2, <1>3, <1>4, <1>5, <1>6, <1>7 DEF StepOf

\* While a turn steps, no other is at work.
LEMMA StepsAlone ==
  ASSUME OneAtATime, TypeOK, OneBusy, NEW t \in Turns, StepOf(t), NEW u \in Turns, u # t
  PROVE  ~Busy(u) /\ ~Busy(u)' /\ pc'[u] = pc[u]
<1>1. ~Busy(u)
  BY StepLicensed DEF OneBusy, MaySubmit, OneAtATime
<1>2. pc'[u] = pc[u]
  BY StepOthers DEF Others
<1> QED BY <1>1, <1>2 DEF Busy

\* A consumer that waits has one turn at work.
THEOREM OneBusyCorrect == ASSUME OneAtATime PROVE Spec => []OneBusy
<1>1. Init => OneBusy
  BY DEF Init, OneBusy, Busy
<1>2. TypeOK /\ OneBusy /\ [Next]_vars => OneBusy'
  <2> SUFFICES ASSUME TypeOK, OneBusy, [Next]_vars PROVE OneBusy'
    OBVIOUS
  <2>1. ASSUME NEW t \in Turns, StepOf(t) PROVE OneBusy'
    <3>1. \A u \in Turns : u # t => ~Busy(u)'
      BY <2>1, StepsAlone
    <3> QED BY <3>1 DEF OneBusy
  <2>2. CASE UNCHANGED vars
    BY <2>2 DEF vars, OneBusy, Busy
  <2> QED BY <2>1, <2>2, StepsOfTurns
<1> QED BY <1>1, <1>2, TypeCorrect, PTL DEF Spec

-----------------------------------------------------------------------------
(* The end of the log belongs to the flush that is being written.           *)

\* Entry k of the flush of a turn.
Planned(t, k) == LET item == FlushItem(buf[t], k) IN Entry(t, item[1], item[2])

\* The last entries of the log are those the flush has counted, in its order.
InFlight(t) ==
  /\ appended[t] <= Len(log) /\ appended[t] <= 2 * Len(buf[t])
  /\ \A k \in 1..appended[t] : log[Len(log) - appended[t] + k] = Planned(t, k)

TailInFlight == \A t \in Turns : pc[t] = "flush" => InFlight(t)

\* A flush starts with nothing written, and no other step but its own goes on.
LEMMA FlushStarts ==
  ASSUME TypeOK, Written, NEW t \in Turns, StepOf(t), ~FlushEntry(t), pc'[t] = "flush"
  PROVE  appended'[t] = 0 /\ pc[t] # "flush" /\ log' = log
<1>0. pc[t] \notin {"greeting", "flush"} => appended[t] = 0
  BY DEF Written
<1>1. ASSUME Moves(t) PROVE appended'[t] = 0 /\ pc[t] # "flush" /\ log' = log
  <2>1. pc[t] = "batch"
    BY <1>1, MovesStages
  <2>2. BatchEnds(t)
    BY <1>1, <2>1 DEF Moves, Handle, HandleUnknownAgent, AppendBlock, MessageStored,
         Assemble, AppendText, EmitDone, DispatchRead, ApproveUnknown, MayApprove, Busy,
         Goto, AtCall, TypeOK
  <2> QED BY <1>0, <2>1, <2>2 DEF BatchEnds
<1>2. ASSUME NEW o \in Decisions, PolicyResolves(t, o)
      PROVE  appended'[t] = 0 /\ pc[t] # "flush" /\ log' = log
  BY <1>0, <1>2, PolicyResolvesEffect
<1>3. ASSUME NEW p \in Calls, NEW o \in Decisions, Approve(t, p, o)
      PROVE  appended'[t] = 0 /\ pc[t] # "flush" /\ log' = log
  BY <1>0, <1>3, ApproveEffect DEF AtRest
<1>4. ASSUME PolicyAsks(t) PROVE appended'[t] = 0 /\ pc[t] # "flush" /\ log' = log
  BY <1>0, <1>4, PolicyAsksEffect
<1>5. ~Errors(t) /\ ~Settles(t) /\ ~ReportInProgress(t) /\ ~CallTool(t) /\ ~FlushEnds(t)
  BY ErrorsEffect, SettlesEffect, ReportInProgressEffect, CallToolEffect, FlushEndsEffect
<1>6. ~(\E q \in Batches, h \in BOOLEAN : AgentReplies(t, q, h))
  BY AgentRepliesEffect
<1> QED BY <1>1, <1>2, <1>3, <1>4, <1>5, <1>6 DEF StepOf

\* What one entry of a flush adds.
LEMMA FlushAppends ==
  ASSUME TypeOK, NEW t \in Turns, FlushEntry(t)
  PROVE  /\ pc[t] = "flush" /\ pc'[t] = "flush" /\ buf' = buf
         /\ appended[t] \in Nat /\ Len(buf[t]) \in Nat /\ appended[t] < 2 * Len(buf[t])
         /\ appended'[t] = appended[t] + 1
         /\ log' = Append(log, Planned(t, appended[t] + 1))
         /\ Len(log) \in Nat /\ DOMAIN log = 1..Len(log)
         /\ Len(log') = Len(log) + 1 /\ DOMAIN log' = 1..(Len(log) + 1)
         /\ \A i \in 1..Len(log) : log'[i] = log[i]
         /\ log'[Len(log) + 1] = Planned(t, appended[t] + 1)
<1>1. /\ pc[t] = "flush" /\ appended[t] < 2 * Len(buf[t]) /\ pc' = pc /\ buf' = buf
      /\ log' = Append(log, Planned(t, appended[t] + 1))
      /\ appended'[t] = appended[t] + 1
  BY DEF FlushEntry, Planned, TypeOK
<1>2. log \in Seq(Entries) /\ buf[t] \in Seq(Calls) /\ appended[t] \in Nat
  BY DEF TypeOK
<1>3. Planned(t, appended[t] + 1) \in Entries
  <2>1. PICK i \in DOMAIN buf[t], k \in {"call", "result"} :
          log' = Append(log, Entry(t, k, buf[t][i])) /\ Entry(t, k, buf[t][i]) \in Entries
    BY FlushEntryEffect
  <2>2. Planned(t, appended[t] + 1) = Entry(t, k, buf[t][i])
    <3>1. log'[Len(log) + 1] = Planned(t, appended[t] + 1)
      BY <1>1, <1>2
    <3>2. log'[Len(log) + 1] = Entry(t, k, buf[t][i])
      BY <1>2, <2>1
    <3> QED BY <3>1, <3>2
  <2> QED BY <2>1, <2>2
<1>4. /\ Len(log) \in Nat /\ DOMAIN log = 1..Len(log)
      /\ Len(log') = Len(log) + 1 /\ DOMAIN log' = 1..(Len(log) + 1)
      /\ \A i \in 1..Len(log) : log'[i] = log[i]
      /\ log'[Len(log) + 1] = Planned(t, appended[t] + 1)
  BY <1>1, <1>2, <1>3
<1> QED BY <1>1, <1>2, <1>4

\* Whatever fails, the entries of a flush that goes on are the last of the log.
THEOREM TailCorrect == ASSUME OneAtATime PROVE Spec => []TailInFlight
<1>1. Init => TailInFlight
  BY DEF Init, TailInFlight
<1>2. TypeOK /\ TypeOK' /\ Written /\ OneBusy /\ TailInFlight /\ [Next]_vars => TailInFlight'
  <2> SUFFICES ASSUME TypeOK, TypeOK', Written, OneBusy, TailInFlight, [Next]_vars
               PROVE  TailInFlight'
    OBVIOUS
  <2>1. ASSUME NEW t \in Turns, StepOf(t) PROVE TailInFlight'
    <3>1. \A u \in Turns : u # t => pc'[u] # "flush"
      BY <2>1, StepsAlone DEF Busy
    <3>2. CASE FlushEntry(t)
      <4>1. InFlight(t)
        BY <3>2, FlushAppends DEF TailInFlight
      <4>2. ASSUME NEW k \in 1..appended'[t]
            PROVE  log'[Len(log') - appended'[t] + k] = Planned(t, k)
        <5>1. CASE k \in 1..appended[t]
          <6>1. Len(log) - appended[t] + k \in 1..Len(log)
            BY <3>2, <4>1, <5>1, FlushAppends DEF InFlight
          <6>2. Len(log') - appended'[t] + k = Len(log) - appended[t] + k
            BY <3>2, <5>1, FlushAppends, SMTT(30)
          <6> QED BY <3>2, <4>1, <5>1, <6>1, <6>2, FlushAppends DEF InFlight
        <5>2. CASE k = appended[t] + 1
          <6>1. Len(log') - appended'[t] + k = Len(log) + 1
            BY <3>2, <5>2, FlushAppends
          <6> QED BY <3>2, <5>2, <6>1, FlushAppends
        <5> QED BY <3>2, <5>1, <5>2, FlushAppends
      <4>3. \A k : Planned(t, k)' = Planned(t, k)
        BY <3>2, FlushAppends DEF Planned
      <4>4. appended'[t] <= Len(log') /\ appended'[t] <= 2 * Len(buf'[t])
        BY <3>2, <4>1, FlushAppends DEF InFlight
      <4>5. InFlight(t)'
        BY <4>2, <4>3, <4>4 DEF InFlight
      <4> QED BY <3>1, <4>5 DEF TailInFlight
    <3>3. CASE ~FlushEntry(t) /\ pc'[t] = "flush"
      <4>1. appended'[t] = 0
        BY <2>1, <3>3, FlushStarts
      <4>2. Len(log') \in Nat /\ Len(buf'[t]) \in Nat
        <5>1. log' \in Seq(Entries) /\ buf'[t] \in Seq(Calls)
          BY DEF TypeOK
        <5> QED BY <5>1
      <4>3. InFlight(t)'
        BY <4>1, <4>2 DEF InFlight
      <4> QED BY <3>1, <4>3 DEF TailInFlight
    <3>4. CASE pc'[t] # "flush"
      BY <3>1, <3>4 DEF TailInFlight
    <3> QED BY <3>2, <3>3, <3>4
  <2>2. CASE UNCHANGED vars
    BY <2>2 DEF vars, TailInFlight, InFlight, Planned
  <2> QED BY <2>1, <2>2, StepsOfTurns
<1> QED BY <1>1, <1>2, TypeCorrect, WrittenCorrect, OneBusyCorrect, PTL DEF Spec

-----------------------------------------------------------------------------
(* The history a model is prompted with.                                    *)

\* The call in entry i of a log is answered by a later entry, and no assistant
\* entry follows a user entry between the two.
AnsweredAt(l, i) ==
  \E j \in DOMAIN l :
    /\ j > i /\ l[j].kind = "result" /\ l[j].call = l[i].call
    /\ \A k, m \in i..j : k < m /\ RoleOf(l[k]) = "User" => RoleOf(l[m]) = "User"

\* An answered call stays answered.
LEMMA AnsweredKeeps ==
  ASSUME NEW l \in Seq(Entries), NEW e \in Entries, NEW i \in DOMAIN l, AnsweredAt(l, i)
  PROVE  AnsweredAt(Append(l, e), i)
<1>1. /\ Len(l) \in Nat /\ DOMAIN l = 1..Len(l) /\ DOMAIN Append(l, e) = 1..(Len(l) + 1)
      /\ \A n \in 1..Len(l) : Append(l, e)[n] = l[n]
  OBVIOUS
<1>2. PICK j \in DOMAIN l :
        /\ j > i /\ l[j].kind = "result" /\ l[j].call = l[i].call
        /\ \A k, m \in i..j : k < m /\ RoleOf(l[k]) = "User" => RoleOf(l[m]) = "User"
  BY DEF AnsweredAt
<1>3. j \in DOMAIN Append(l, e) /\ Append(l, e)[j] = l[j] /\ Append(l, e)[i] = l[i]
  BY <1>1
<1>4. \A n \in i..j : Append(l, e)[n] = l[n]
  BY <1>1
<1> QED BY <1>2, <1>3, <1>4 DEF AnsweredAt

\* Every call stored is answered, or is being written.
Answers ==
  \A i \in DOMAIN log : log[i].kind = "call" =>
    \/ AnsweredAt(log, i)
    \/ \E t \in Turns : pc[t] = "flush" /\ i > Len(log) - appended[t]

\* What a step other than a flush's adds to the log.
LEMMA LogChanges ==
  ASSUME TypeOK, NEW t \in Turns, StepOf(t), ~FlushEntry(t)
  PROVE  \/ log' = log
         \/ /\ pc[t] \in {"greeting", "text"} /\ pc'[t] # "flush"
            /\ \E k \in {"block", "text"} : log' = Append(log, Entry(t, k, None))
<1>1. CASE Moves(t)
  <2>1. CASE AppendBlock(t) \/ AppendText(t)
    BY <1>1, <2>1, MovesStages DEF AppendBlock, AppendText
  <2>2. CASE ~(AppendBlock(t) \/ AppendText(t))
    BY <1>1, <2>2 DEF Moves, Handle, HandleUnknownAgent, MessageStored, Assemble, EmitDone,
         DispatchRead, BatchEnds, ApproveUnknown
  <2> QED BY <2>1, <2>2
<1>2. CASE ~Moves(t)
  BY <1>2, ErrorsEffect, SettlesEffect, ReportInProgressEffect, CallToolEffect,
     PolicyResolvesEffect, ApproveEffect, PolicyAsksEffect, AgentRepliesEffect,
     FlushEndsEffect DEF StepOf
<1> QED BY <1>1, <1>2

\* With a store that works, a flush goes on until it is done.
LEMMA FlushGoesOn ==
  ASSUME "append" \notin Faults, TypeOK, NEW t \in Turns, StepOf(t), pc[t] = "flush"
  PROVE  FlushEntry(t) \/ FlushEnds(t)
<1>1. ~Moves(t)
  BY MovesStages DEF AtRest
<1>2. ~Errors(t)
  BY DEF Errors, Exceeded, AgentFails, PolicyFails, NeedsDecision, AtCall, SinkFails,
         AppendFails
<1>3. ~Settles(t) /\ ~ReportInProgress(t) /\ ~CallTool(t) /\ ~PolicyAsks(t)
  BY SettlesEffect, ReportInProgressEffect, CallToolEffect, PolicyAsksEffect
<1>4. \A o \in Decisions :
        ~PolicyResolves(t, o) /\ \A p \in Calls : ~Approve(t, p, o)
  BY PolicyResolvesEffect, ApproveEffect DEF AtRest
<1>5. \A q \in Batches, h \in BOOLEAN : ~AgentReplies(t, q, h)
  BY AgentRepliesEffect
<1> QED BY <1>1, <1>2, <1>3, <1>4, <1>5 DEF StepOf

\* A batch of n calls written behind `base` entries: the calls, then the results.
WrittenBehind(l, b, n, base, t) ==
  /\ n = Len(b) /\ DOMAIN l = 1..(base + 2 * n)
  /\ \A k \in 1..(2 * n) :
       l[base + k] = Entry(t, FlushItem(b, k)[1], FlushItem(b, k)[2])

\* Such a batch is answered.
LEMMA BatchAnswers ==
  ASSUME NEW l, NEW b, NEW n \in Nat, NEW base \in Nat, NEW t,
         WrittenBehind(l, b, n, base, t),
         NEW i \in DOMAIN l, i > base, l[i].kind = "call"
  PROVE  AnsweredAt(l, i)
<1>0. /\ n = Len(b) /\ DOMAIN l = 1..(base + 2 * n)
      /\ \A k \in 1..(2 * n) :
           l[base + k] = Entry(t, FlushItem(b, k)[1], FlushItem(b, k)[2])
  BY DEF WrittenBehind
<1>1. \A m \in Nat : m > base /\ m <= base + n => l[m] = Entry(t, "call", b[m - base])
  <2> SUFFICES ASSUME NEW m \in Nat, m > base, m <= base + n
               PROVE  l[m] = Entry(t, "call", b[m - base])
    OBVIOUS
  <2>1. m - base \in 1..(2 * n) /\ base + (m - base) = m /\ m - base <= n
    OBVIOUS
  <2>2. FlushItem(b, m - base) = <<"call", b[m - base]>>
    BY <1>0, <2>1 DEF FlushItem
  <2> QED BY <1>0, <2>1, <2>2
<1>2. \A m \in Nat : m > base + n /\ m <= base + 2 * n =>
        l[m] = Entry(t, "result", b[m - base - n])
  <2> SUFFICES ASSUME NEW m \in Nat, m > base + n, m <= base + 2 * n
               PROVE  l[m] = Entry(t, "result", b[m - base - n])
    OBVIOUS
  <2>1. m - base \in 1..(2 * n) /\ base + (m - base) = m /\ ~(m - base <= n)
    OBVIOUS
  <2>2. FlushItem(b, m - base) = <<"result", b[m - base - n]>>
    BY <1>0, <2>1 DEF FlushItem
  <2> QED BY <1>0, <2>1, <2>2
<1>3. i \in Nat /\ i <= base + 2 * n
  BY <1>0
<1>4. i <= base + n /\ l[i] = Entry(t, "call", b[i - base])
  <2>1. ASSUME i > base + n PROVE FALSE
    <3>1. l[i] = Entry(t, "result", b[i - base - n])
      BY <1>2, <1>3, <2>1
    <3> QED BY <3>1 DEF Entry
  <2>2. i <= base + n
    BY <1>3, <2>1
  <2> QED BY <1>1, <1>3, <2>2
<1>5. /\ i + n \in Nat /\ i + n > base + n /\ i + n <= base + 2 * n
      /\ (i + n) - base - n = i - base /\ i + n > i
  <2>1. n # 0
    BY <1>3, <1>4
  <2> QED BY <1>3, <1>4, <2>1
<1>6. l[i + n] = Entry(t, "result", b[i - base])
  BY <1>2, <1>5
<1>7. ASSUME NEW k \in i..(i + n), NEW m \in i..(i + n), k < m, RoleOf(l[k]) = "User"
      PROVE  RoleOf(l[m]) = "User"
  <2>1. k \in Nat /\ m \in Nat /\ k > base /\ m <= base + 2 * n
    BY <1>3, <1>5
  <2>2. ASSUME k <= base + n PROVE FALSE
    <3>1. l[k] = Entry(t, "call", b[k - base])
      BY <1>1, <2>1, <2>2
    <3> QED BY <1>7, <3>1 DEF Entry, RoleOf
  <2>3. m > base + n
    BY <1>7, <2>1, <2>2
  <2>4. l[m] = Entry(t, "result", b[m - base - n])
    BY <1>2, <2>1, <2>3
  <2> QED BY <2>4 DEF Entry, RoleOf
<1>8. i + n \in DOMAIN l
  BY <1>0, <1>3, <1>5
<1> QED BY <1>4, <1>5, <1>6, <1>7, <1>8 DEF AnsweredAt, Entry

\* The calls of a flush that has written everything are answered.
LEMMA FlushAnswers ==
  ASSUME TypeOK, NEW t \in Turns, InFlight(t), appended[t] = 2 * Len(buf[t]),
         NEW i \in DOMAIN log, i > Len(log) - appended[t], log[i].kind = "call"
  PROVE  AnsweredAt(log, i)
<1>1. log \in Seq(Entries) /\ buf[t] \in Seq(Calls) /\ appended[t] \in Nat
  BY DEF TypeOK
<1>2. PICK n \in Nat : n = Len(buf[t])
  BY <1>1
<1>3. PICK base \in Nat : base = Len(log) - appended[t]
  <2>1. Len(log) \in Nat /\ appended[t] <= Len(log)
    BY <1>1 DEF InFlight
  <2>2. Len(log) - appended[t] \in Nat
    BY <1>1, <2>1
  <2> QED BY <2>2
<1>4. DOMAIN log = 1..(base + 2 * n)
  BY <1>1, <1>2, <1>3
<1>5. \A k \in 1..(2 * n) :
        log[base + k] = Entry(t, FlushItem(buf[t], k)[1], FlushItem(buf[t], k)[2])
  BY <1>2, <1>3 DEF InFlight, Planned
<1>6. WrittenBehind(log, buf[t], n, base, t) /\ i > base
  BY <1>2, <1>3, <1>4, <1>5 DEF WrittenBehind
<1> QED BY <1>6, BatchAnswers

\* Every call in the log is answered, but for the ones a flush is writing.
THEOREM AnswersCorrect == ASSUME OneAtATime, "append" \notin Faults PROVE Spec => []Answers
<1>1. Init => Answers
  BY DEF Init, Answers
<1>2. TypeOK /\ OneBusy /\ TailInFlight /\ Answers /\ [Next]_vars => Answers'
  <2> SUFFICES ASSUME TypeOK, OneBusy, TailInFlight, Answers, [Next]_vars PROVE Answers'
    OBVIOUS
  <2>0. log \in Seq(Entries) /\ Len(log) \in Nat /\ DOMAIN log = 1..Len(log)
    <3>1. log \in Seq(Entries)
      BY DEF TypeOK
    <3> QED BY <3>1
  <2>1. ASSUME NEW t \in Turns, StepOf(t) PROVE Answers'
    <3>1. \A u \in Turns : u # t => pc[u] # "flush"
      BY <2>1, StepsAlone DEF Busy
    <3>2. CASE FlushEntry(t)
      <4>1. ASSUME NEW i \in DOMAIN log, log[i].kind = "call"
            PROVE  AnsweredAt(log, i) \/ i > Len(log) - appended[t]
        BY <3>1, <4>1 DEF Answers
      <4>2. Planned(t, appended[t] + 1) \in Entries
        <5>1. PICK i \in DOMAIN buf[t], k \in {"call", "result"} :
                log' = Append(log, Entry(t, k, buf[t][i])) /\ Entry(t, k, buf[t][i]) \in Entries
          BY <3>2, FlushEntryEffect
        <5>2. log'[Len(log) + 1] = Entry(t, k, buf[t][i])
          BY <2>0, <5>1
        <5> QED BY <3>2, <5>1, <5>2, FlushAppends
      <4>3. ASSUME NEW i \in DOMAIN log', log'[i].kind = "call"
            PROVE  AnsweredAt(log', i) \/ i > Len(log') - appended'[t]
        <5>1. CASE i \in DOMAIN log
          <6>1. log'[i] = log[i]
            BY <2>0, <3>2, <5>1, FlushAppends
          <6>2. AnsweredAt(log, i) \/ i > Len(log) - appended[t]
            BY <4>1, <4>3, <5>1, <6>1
          <6>3. AnsweredAt(log, i) => AnsweredAt(log', i)
            BY <2>0, <3>2, <4>2, <5>1, AnsweredKeeps, FlushAppends
          <6>4. Len(log') - appended'[t] = Len(log) - appended[t]
            <7>1. /\ Len(log') = Len(log) + 1 /\ appended'[t] = appended[t] + 1
                  /\ appended[t] \in Nat
              BY <3>2, FlushAppends
            <7> QED BY <2>0, <7>1
          <6> QED BY <6>2, <6>3, <6>4
        <5>2. CASE i = Len(log) + 1
          BY <3>2, <5>2, FlushAppends
        <5> QED BY <2>0, <3>2, <5>1, <5>2, FlushAppends
      <4>4. pc'[t] = "flush"
        BY <3>2, FlushAppends
      <4> QED BY <4>3, <4>4 DEF Answers
    <3>3. CASE FlushEnds(t)
      <4>1. pc[t] = "flush" /\ appended[t] = 2 * Len(buf[t]) /\ log' = log
        BY <3>3, FlushEndsEffect
      <4>2. InFlight(t)
        BY <4>1 DEF TailInFlight
      <4>3. \A i \in DOMAIN log : log[i].kind = "call" => AnsweredAt(log, i)
        BY <3>1, <4>1, <4>2, FlushAnswers DEF Answers
      <4> QED BY <4>1, <4>3 DEF Answers
    <3>4. CASE ~FlushEntry(t) /\ ~FlushEnds(t)
      <4>1. pc[t] # "flush"
        BY <2>1, <3>4, FlushGoesOn
      <4>2. \A i \in DOMAIN log : log[i].kind = "call" => AnsweredAt(log, i)
        BY <3>1, <4>1 DEF Answers
      <4>3. CASE log' = log
        BY <4>2, <4>3 DEF Answers
      <4>4. ASSUME NEW k \in {"block", "text"}, log' = Append(log, Entry(t, k, None))
            PROVE  Answers'
        <5>1. Entry(t, k, None) \in Entries /\ Entry(t, k, None).kind # "call"
          BY DEF Entry, Entries
        <5>2. /\ DOMAIN log' = 1..(Len(log) + 1)
              /\ \A i \in DOMAIN log : log'[i] = log[i]
              /\ log'[Len(log) + 1] = Entry(t, k, None)
          BY <2>0, <4>4, <5>1
        <5>3. \A i \in DOMAIN log : AnsweredAt(log, i) => AnsweredAt(log', i)
          BY <2>0, <4>4, <5>1, AnsweredKeeps
        <5>4. ASSUME NEW i \in DOMAIN log', log'[i].kind = "call" PROVE AnsweredAt(log', i)
          <6>1. i \in DOMAIN log \/ i = Len(log) + 1
            BY <2>0, <5>2
          <6> QED BY <4>2, <5>1, <5>2, <5>3, <5>4, <6>1
        <5> QED BY <5>4 DEF Answers
      <4> QED BY <2>1, <3>4, <4>3, <4>4, LogChanges
    <3> QED BY <3>2, <3>3, <3>4
  <2>2. CASE UNCHANGED vars
    BY <2>2 DEF vars, Answers
  <2> QED BY <2>1, <2>2, StepsOfTurns
<1> QED BY <1>1, <1>2, TypeCorrect, OneBusyCorrect, TailCorrect, PTL DEF Spec

\* Whenever a model is prompted, the context it is given is valid history: every
\* call is answered, and in the user turn that follows the call's assistant turn
\* once coalesce_turns has merged neighbours.  It takes a consumer that runs one
\* turn at a time and a store that works; every other collaborator may fail, and
\* pending calls may be submitted again.
THEOREM PromptsValid == ASSUME OneAtATime, "append" \notin Faults PROVE Spec => []HistoryValid
<1>1. OneBusy /\ Answers => HistoryValid
  <2> SUFFICES ASSUME OneBusy, Answers, NEW t \in Turns, pc[t] = "loop",
                      NEW i \in DOMAIN log, log[i].kind = "call"
               PROVE  AnsweredAt(log, i)
    BY DEF HistoryValid, Context, AnsweredAt
  <2>1. \A u \in Turns : pc[u] # "flush"
    BY DEF OneBusy, Busy
  <2> QED BY <2>1 DEF Answers
<1> QED BY <1>1, OneBusyCorrect, AnswersCorrect, PTL

-----------------------------------------------------------------------------
(* The calls of one batch in the log.                                       *)

\* The calls of a reply are being run or stored for the first time: some of
\* them no human was asked about.
FirstPass(t) ==
  /\ pc[t] \in Handling \cup {"flush"}
  /\ ~(Elements(queue[t]) \cup Elements(buf[t]) \subseteq asked)

\* Until that pass ends, the log has the calls of the reply in its tail only.
Adjacent ==
  /\ BatchFolds
  /\ \A t \in Turns : held[t] # None => held[t] \in asked
  /\ \A t \in Turns : FirstPass(t) =>
       \A j \in DOMAIN log : log[j].kind = "call" /\ log[j].call \in Current(t) =>
         pc[t] = "flush" /\ j > Len(log) - appended[t]

\* A turn that is in its first pass is at work.
LEMMA FirstPassBusy ==
  ASSUME NEW t \in Turns, FirstPass(t)
  PROVE  Busy(t)
BY DEF FirstPass, Busy, Handling, AtHead

\* The tail of a flush that still writes calls holds calls only.
LEMMA TailOfCalls ==
  ASSUME TypeOK, NEW t \in Turns, InFlight(t), appended[t] <= Len(buf[t]),
         NEW k \in DOMAIN log, k > Len(log) - appended[t]
  PROVE  log[k].kind = "call"
<1>1. log \in Seq(Entries) /\ buf[t] \in Seq(Calls) /\ appended[t] \in Nat
  BY DEF TypeOK
<1>2. /\ Len(log) \in Nat /\ DOMAIN log = 1..Len(log) /\ Len(buf[t]) \in Nat
      /\ appended[t] <= Len(log)
  BY <1>1 DEF InFlight
<1>3. PICK n \in 1..appended[t] : n = k - (Len(log) - appended[t])
  <2>1. k - (Len(log) - appended[t]) \in 1..appended[t]
    BY <1>1, <1>2
  <2> QED BY <2>1
<1>4. Len(log) - appended[t] + n = k /\ n <= Len(buf[t])
  BY <1>1, <1>2, <1>3
<1>5. log[k] = Planned(t, n)
  BY <1>4 DEF InFlight
<1> QED BY <1>4, <1>5 DEF Planned, FlushItem, Entry

\* An entry that is no call leaves the calls where they are.
LEMMA FoldedKeeps ==
  ASSUME TypeOK, NEW e \in Entries, e.kind # "call", log' = Append(log, e),
         NEW c, NEW d, Folded(c, d)
  PROVE  Folded(c, d)'
<1>1. log \in Seq(Entries)
  BY DEF TypeOK
<1>2. /\ Len(log) \in Nat /\ DOMAIN log = 1..Len(log) /\ DOMAIN log' = 1..(Len(log) + 1)
      /\ \A i \in 1..Len(log) : log'[i] = log[i]
      /\ log'[Len(log) + 1] = e
  BY <1>1
<1>3. \A i \in DOMAIN log' : log'[i].kind = "call" => i \in DOMAIN log /\ log'[i] = log[i]
  BY <1>2
<1>4. \A i, j \in DOMAIN log : \A k \in i..j : log'[k] = log[k]
  BY <1>2
<1> QED BY <1>3, <1>4 DEF Folded

\* A step that stores no call and takes up none that was not in hand.
LEMMA AdjacentSame ==
  ASSUME OneAtATime, TypeOK, OneBusy, Adjacent, NEW t \in Turns, StepOf(t),
         \/ log' = log
         \/ \E e \in Entries : e.kind # "call" /\ log' = Append(log, e),
         owner' = owner, round' = round, asked \subseteq asked',
         held'[t] # None => held'[t] \in asked',
         FirstPass(t)' => FirstPass(t) /\ pc[t] # "flush" /\ rounds'[t] = rounds[t]
  PROVE  Adjacent'
<1>1. \A c, d : Folded(c, d) => Folded(c, d)'
  <2>1. CASE log' = log
    BY <2>1 DEF Folded
  <2>2. CASE log' # log
    BY <2>2, FoldedKeeps
  <2> QED BY <2>1, <2>2
<1>2. BatchFolds'
  BY <1>1 DEF Adjacent, BatchFolds, SameBatch, Issued
<1>3. \A u \in Turns : held'[u] # None => held'[u] \in asked'
  BY StepOthers DEF Adjacent, Others
<1>4. \A u \in Turns : u # t => ~FirstPass(u)'
  BY StepsAlone DEF FirstPass, Busy, Handling, AtHead
<1>5. ASSUME FirstPass(t)', NEW j \in DOMAIN log', log'[j].kind = "call",
             log'[j].call \in Current(t)'
      PROVE  FALSE
  <2>1. \A c : c \in Current(t)' => c \in Current(t)
    BY <1>5 DEF Current
  <2>2. j \in DOMAIN log /\ log'[j] = log[j]
    <3>1. CASE log' = log
      BY <1>5, <3>1
    <3>2. ASSUME NEW e \in Entries, e.kind # "call", log' = Append(log, e)
          PROVE  j \in DOMAIN log /\ log'[j] = log[j]
      <4>1. log \in Seq(Entries)
        BY DEF TypeOK
      <4>2. /\ Len(log) \in Nat /\ DOMAIN log = 1..Len(log)
            /\ DOMAIN log' = 1..(Len(log) + 1)
            /\ \A i \in 1..Len(log) : log'[i] = log[i]
            /\ log'[Len(log) + 1] = e
        BY <3>2, <4>1
      <4>3. j # Len(log) + 1
        BY <1>5, <3>2, <4>2
      <4>4. j \in 1..Len(log)
        BY <4>2, <4>3
      <4> QED BY <4>2, <4>4
    <3> QED BY <3>1, <3>2
  <2> QED BY <1>5, <2>1, <2>2 DEF Adjacent
<1>6. \A u \in Turns : FirstPass(u)' =>
        \A j \in DOMAIN log' : log'[j].kind = "call" /\ log'[j].call \in Current(u)' =>
          pc'[u] = "flush" /\ j > Len(log') - appended'[u]
  BY <1>4, <1>5
<1> QED BY <1>2, <1>3, <1>6 DEF Adjacent

\* A reply brings calls the log does not have.
LEMMA AdjacentReplies ==
  ASSUME OneAtATime, TypeOK, OneBusy, Placed, Rounds, Adjacent, NEW t \in Turns, StepOf(t),
         NEW q \in Batches, NEW h \in BOOLEAN, AgentReplies(t, q, h)
  PROVE  Adjacent'
<1>1. /\ pc[t] = "prompting"
      /\ UNCHANGED <<log, rounds, held, asked>> /\ Others(t)
      /\ \A c \in Elements(q) : owner[c] = None /\ c \in Calls
                                /\ owner'[c] = t /\ round'[c] = rounds[t]
      /\ \A c \in Calls : c \notin Elements(q) => owner'[c] = owner[c] /\ round'[c] = round[c]
  BY AgentRepliesEffect
<1>2. \A c \in Elements(q) : c \notin Entered(log)
  BY <1>1 DEF Placed, Untouched
<1>3. ASSUME NEW c \in Current(t)' PROVE c \in Elements(q)
  <2>1. c \in Calls /\ owner'[c] = t /\ round'[c] = rounds[t]
    BY <1>1 DEF Current
  <2>2. ASSUME c \notin Elements(q) PROVE FALSE
    <3>1. owner[c] = t /\ round[c] = rounds[t] /\ round[c] \in Nat
      BY <1>1, <2>1, <2>2 DEF TypeOK
    <3>2. round[c] < rounds[t]
      BY <1>1, <2>1, <3>1 DEF Rounds, RoundsAt
    <3> QED BY <3>1, <3>2
  <2> QED BY <2>2
<1>4. \A j \in DOMAIN log : log[j].call \notin Elements(q)
  BY <1>2 DEF Entered
<1>5. ASSUME NEW c \in Calls, NEW d \in Calls, SameBatch(c, d)', {c, d} \cap asked = {}
      PROVE  Folded(c, d)
  <2>1. CASE c \in Elements(q) \/ d \in Elements(q)
    BY <1>4, <2>1 DEF Folded
  <2>2. CASE c \notin Elements(q) /\ d \notin Elements(q)
    <3>1. SameBatch(c, d)
      BY <1>1, <1>5, <2>2 DEF SameBatch, Issued
    <3> QED BY <1>5, <3>1 DEF Adjacent, BatchFolds
  <2> QED BY <2>1, <2>2
<1>6. BatchFolds'
  BY <1>1, <1>5 DEF BatchFolds, Folded
<1>7. \A u \in Turns : u # t => ~FirstPass(u)'
  BY StepsAlone DEF FirstPass, Busy, Handling, AtHead
<1>8. \A j \in DOMAIN log' : log'[j].call \notin Current(t)'
  BY <1>1, <1>3, <1>4
<1>9. \A u \in Turns : FirstPass(u)' =>
        \A j \in DOMAIN log' : log'[j].kind = "call" /\ log'[j].call \in Current(u)' =>
          pc'[u] = "flush" /\ j > Len(log') - appended'[u]
  BY <1>7, <1>8
<1> QED BY <1>1, <1>6, <1>9 DEF Adjacent

\* A call a flush stores joins those of its batch at the end of the log.
LEMMA AdjacentFlush ==
  ASSUME OneAtATime, TypeOK, OneBusy, TailInFlight, Rounds, Adjacent,
         NEW t \in Turns, StepOf(t), FlushEntry(t)
  PROVE  Adjacent'
<1> DEFINE n == Len(log) + 1
<1>1. /\ pc[t] = "flush" /\ UNCHANGED <<pc, queue, buf, rounds, held, owner, round, asked>>
  BY FlushEntryEffect
<1>2. /\ appended[t] \in Nat /\ Len(buf[t]) \in Nat /\ Len(log) \in Nat
      /\ appended'[t] = appended[t] + 1
      /\ DOMAIN log = 1..Len(log)
      /\ Len(log') = Len(log) + 1 /\ DOMAIN log' = 1..(Len(log) + 1)
      /\ \A i \in 1..Len(log) : log'[i] = log[i]
  BY FlushAppends
<1>3. PICK i \in DOMAIN buf[t], k \in {"call", "result"} :
        /\ log' = Append(log, Entry(t, k, buf[t][i])) /\ Entry(t, k, buf[t][i]) \in Entries
        /\ k = "call" <=> appended[t] < Len(buf[t])
  BY FlushEntryEffect
<1>4. log'[Len(log) + 1] = Entry(t, k, buf[t][i])
  <2>1. log \in Seq(Entries)
    BY DEF TypeOK
  <2> QED BY <1>3, <2>1
<1>5. InFlight(t)
  BY <1>1 DEF TailInFlight
<1>6. buf[t][i] \in Current(t) /\ buf[t][i] \in Elements(buf[t])
  BY DEF Rounds, RoundsAt, Elements
<1>7. FirstPass(t) =>
        \A j \in DOMAIN log : log[j].kind = "call" /\ log[j].call \in Current(t) =>
          j > Len(log) - appended[t]
  BY DEF Adjacent
<1>8. ASSUME NEW c \in Calls, NEW d \in Calls, SameBatch(c, d), {c, d} \cap asked = {}
      PROVE  Folded(c, d)'
  <2>1. Folded(c, d)
    BY <1>8 DEF Adjacent, BatchFolds
  <2>2. SUFFICES ASSUME NEW x \in DOMAIN log', NEW y \in DOMAIN log',
                        log'[x].kind = "call", log'[x].call = c,
                        log'[y].kind = "call", log'[y].call = d, NEW z \in x..y
                 PROVE  RoleOf(log'[z]) = "Assistant"
    BY DEF Folded
  <2>3. CASE x \in DOMAIN log /\ y \in DOMAIN log
    <3>1. log'[x] = log[x] /\ log'[y] = log[y] /\ log'[z] = log[z]
      BY <1>2, <2>3
    <3> QED BY <2>1, <2>2, <2>3, <3>1 DEF Folded
  <2>4. CASE x = Len(log) + 1 \/ y = Len(log) + 1
    <3>1. k = "call" /\ buf[t][i] \in {c, d}
      BY <1>4, <2>2, <2>4 DEF Entry
    <3>2. c \in Current(t) /\ d \in Current(t)
      BY <1>6, <1>8, <3>1 DEF SameBatch, Current
    <3>3. FirstPass(t)
      BY <1>1, <1>6, <1>8, <3>1 DEF FirstPass
    <3>4. x > Len(log) - appended[t] /\ y > Len(log) - appended[t]
      <4>1. ASSUME NEW w \in DOMAIN log', log'[w].kind = "call", log'[w].call \in Current(t)
            PROVE  w > Len(log) - appended[t]
        <5>1. CASE w \in DOMAIN log
          BY <1>2, <1>7, <3>3, <4>1, <5>1
        <5>2. CASE w = Len(log) + 1
          BY <1>2, <5>2
        <5> QED BY <1>2, <5>1, <5>2
      <4> QED BY <2>2, <3>2, <4>1
    <3>5. CASE z \in DOMAIN log
      <4>1. z > Len(log) - appended[t]
        BY <1>2, <3>4
      <4>2. appended[t] <= Len(buf[t])
        BY <1>2, <1>3, <3>1
      <4>3. log[z].kind = "call"
        BY <1>5, <3>5, <4>1, <4>2, TailOfCalls
      <4> QED BY <1>2, <3>5, <4>3 DEF RoleOf
    <3>6. CASE z = Len(log) + 1
      BY <1>4, <3>1, <3>6 DEF Entry, RoleOf
    <3> QED BY <1>2, <3>5, <3>6
  <2> QED BY <1>2, <2>3, <2>4
<1>9. BatchFolds'
  BY <1>1, <1>8 DEF BatchFolds, SameBatch, Issued
<1>10. \A u \in Turns : u # t => ~FirstPass(u)'
  BY StepsAlone DEF FirstPass, Busy, Handling, AtHead
<1>11. ASSUME FirstPass(t)', NEW j \in DOMAIN log', log'[j].kind = "call",
              log'[j].call \in Current(t)'
       PROVE  j > Len(log') - appended'[t]
  <2>1. FirstPass(t) /\ Current(t)' = Current(t)
    BY <1>1, <1>11 DEF FirstPass, Current
  <2>2. CASE j \in DOMAIN log
    <3>1. j > Len(log) - appended[t]
      BY <1>2, <1>7, <1>11, <2>1, <2>2
    <3> QED BY <1>2, <3>1
  <2>3. CASE j = Len(log) + 1
    BY <1>2, <2>3
  <2> QED BY <1>2, <2>2, <2>3
<1>12. \A u \in Turns : held'[u] # None => held'[u] \in asked'
  BY <1>1 DEF Adjacent
<1>13. \A u \in Turns : FirstPass(u)' =>
        \A j \in DOMAIN log' : log'[j].kind = "call" /\ log'[j].call \in Current(u)' =>
          pc'[u] = "flush" /\ j > Len(log') - appended'[u]
  BY <1>1, <1>10, <1>11
<1> QED BY <1>9, <1>12, <1>13 DEF Adjacent

\* With one turn at a time, and decisions submitted once, the calls of a batch
\* that nobody was asked about reach the log side by side.
THEOREM AdjacentCorrect == ASSUME OneAtATime, ~Retry PROVE Spec => []Adjacent
<1>1. Init => Adjacent
  <2> SUFFICES ASSUME Init PROVE Adjacent
    OBVIOUS
  <2>1. /\ \A c \in Calls : owner[c] = None
        /\ \A t \in Turns : pc[t] = "idle" /\ held[t] = None
    BY DEF Init
  <2> QED BY <2>1 DEF Adjacent, BatchFolds, SameBatch, Issued, FirstPass, Handling, AtHead
<1>2. TypeOK /\ Placed /\ Tidy /\ Rounds /\ OneBusy /\ TailInFlight /\ Adjacent /\ [Next]_vars
        => Adjacent'
  <2> SUFFICES ASSUME TypeOK, Placed, Tidy, Rounds, OneBusy, TailInFlight, Adjacent, [Next]_vars
               PROVE  Adjacent'
    OBVIOUS
  <2>0. \A t \in Turns : held[t] # None => held[t] \in asked
    BY DEF Adjacent
  <2>1. ASSUME NEW t \in Turns, Moves(t) PROVE Adjacent'
    <3>1. UNCHANGED <<queue, buf, held, callVars>> /\ StepOf(t) /\ ~FlushEntry(t)
      BY <2>1, MovesEffect, MovesStages, FlushEntryEffect DEF StepOf
    <3>2. pc'[t] \in Handling \cup {"flush"} =>
            /\ pc[t] \in Handling /\ pc[t] # "flush" /\ rounds'[t] = rounds[t]
      BY <2>1, MovesStages DEF Handling, AtHead
    <3>3. FirstPass(t)' => FirstPass(t) /\ pc[t] # "flush" /\ rounds'[t] = rounds[t]
      BY <3>1, <3>2 DEF FirstPass
    <3>4. \A k \in {"block", "text"} :
            Entry(t, k, None) \in Entries /\ Entry(t, k, None).kind # "call"
      BY DEF Entry, Entries
    <3>5. log' = log \/ \E e \in Entries : e.kind # "call" /\ log' = Append(log, e)
      BY <3>1, <3>4, LogChanges
    <3> QED BY <2>0, <3>1, <3>3, <3>5, AdjacentSame
  <2>2. ASSUME NEW t \in Turns, Errors(t) \/ FlushEnds(t) PROVE Adjacent'
    <3>1. /\ UNCHANGED <<log, held, owner, round, asked>> /\ StepOf(t)
          /\ pc'[t] \in {"failed", "loop", "closing", "awaiting"}
      BY <2>2, ErrorsEffect, FlushEndsEffect DEF StepOf
    <3>2. ~FirstPass(t)'
      BY <3>1 DEF FirstPass, Handling, AtHead
    <3> QED BY <2>0, <3>1, <3>2, AdjacentSame
  <2>3. ASSUME NEW t \in Turns, Settles(t) PROVE Adjacent'
    <3>1. /\ queue[t] # <<>> /\ pc[t] \in {"batch", "called", "refusing"}
          /\ UNCHANGED <<log, rounds, held, owner, round, asked>> /\ StepOf(t)
          /\ queue'[t] = Tail(queue[t])
          /\ buf'[t] = Append(buf[t], Head(queue[t]))
      BY <2>3, SettlesEffect DEF StepOf
    <3>2. /\ buf[t] \in Seq(Calls) /\ Head(queue[t]) \in Calls /\ queue[t] \in Seq(Calls)
      BY <3>1, HeadType DEF TypeOK
    <3>3. /\ Elements(buf'[t]) = Elements(buf[t]) \cup {Head(queue[t])}
          /\ Elements(queue'[t]) \subseteq Elements(queue[t])
          /\ Head(queue[t]) \in Elements(queue[t])
      BY <3>1, <3>2, AppendElements, TailElements
    <3>4. FirstPass(t)' => FirstPass(t) /\ pc[t] # "flush"
      BY <3>1, <3>3 DEF FirstPass, Handling, AtHead
    <3> QED BY <2>0, <3>1, <3>4, AdjacentSame
  <2>4. ASSUME NEW t \in Turns, ReportInProgress(t) \/ CallTool(t) PROVE Adjacent'
    <3>1. /\ pc[t] \in {"starting", "calling"}
          /\ UNCHANGED <<log, queue, buf, rounds, held, owner, round, asked>> /\ StepOf(t)
      BY <2>4, ReportInProgressEffect, CallToolEffect DEF StepOf
    <3>2. FirstPass(t)' => FirstPass(t) /\ pc[t] # "flush"
      BY <3>1 DEF FirstPass, Handling, AtHead
    <3> QED BY <2>0, <3>1, <3>2, AdjacentSame
  <2>5. ASSUME NEW t \in Turns, NEW o \in Decisions, PolicyResolves(t, o) PROVE Adjacent'
    <3>1. /\ pc[t] = "batch" /\ StepOf(t)
          /\ UNCHANGED <<log, rounds, held, owner, round, asked>>
          /\ pc'[t] \in {"starting", "refusing", "flush", "failed"}
          /\ queue'[t] = queue[t] \/ queue'[t] = <<>>
          /\ buf'[t] = buf[t] \/ buf'[t] = <<>>
      BY <2>5, PolicyResolvesEffect DEF StepOf
    <3>2. /\ Elements(queue'[t]) \subseteq Elements(queue[t])
          /\ Elements(buf'[t]) \subseteq Elements(buf[t])
      BY <3>1, NoElements
    <3>3. FirstPass(t)' => FirstPass(t) /\ pc[t] # "flush"
      BY <3>1, <3>2 DEF FirstPass, Handling, AtHead
    <3> QED BY <2>0, <3>1, <3>3, AdjacentSame
  <2>6. ASSUME NEW t \in Turns, NEW p \in Calls, NEW o \in Decisions, Approve(t, p, o) PROVE Adjacent'
    <3>1. /\ pc[t] = "awaiting" /\ held[t] \in Calls /\ StepOf(t)
          /\ UNCHANGED <<log, buf, rounds, held, owner, round, asked>>
          /\ queue'[t] = <<held[t]>> \/ queue'[t] = <<>>
      BY <2>6, ApproveEffect DEF StepOf
    <3>2. held[t] \in asked
      BY <2>0, <3>1, ConstantsOK DEF ConstantsOK
    <3>3. Elements(queue'[t]) \subseteq asked
      <4>1. Elements(<<held[t]>>) = {held[t]}
        BY OneElement
      <4> QED BY <3>1, <3>2, <4>1, NoElements
    <3>4. Elements(buf'[t]) = {}
      BY <3>1, NoElements DEF Tidy, AtHead
    <3>5. ~FirstPass(t)'
      BY <3>1, <3>3, <3>4 DEF FirstPass
    <3> QED BY <2>0, <3>1, <3>5, AdjacentSame
  <2>7. ASSUME NEW t \in Turns, PolicyAsks(t) PROVE Adjacent'
    <3>1. /\ pc[t] = "batch" /\ StepOf(t) /\ queue'[t] = <<>>
          /\ UNCHANGED <<log, buf, rounds, owner, round>>
          /\ held'[t] = Head(queue[t]) /\ asked' = asked \cup {Head(queue[t])}
      BY <2>7, PolicyAsksEffect DEF StepOf
    <3>2. FirstPass(t)' => FirstPass(t) /\ pc[t] # "flush"
      BY <3>1, NoElements DEF FirstPass, Handling, AtHead
    <3> QED BY <3>1, <3>2, AdjacentSame
  <2>8. ASSUME NEW t \in Turns, NEW q \in Batches, NEW h \in BOOLEAN, AgentReplies(t, q, h)
        PROVE  Adjacent'
    <3>1. StepOf(t)
      BY <2>8 DEF StepOf
    <3> QED BY <2>8, <3>1, AdjacentReplies
  <2>9. ASSUME NEW t \in Turns, FlushEntry(t) PROVE Adjacent'
    <3>1. StepOf(t)
      BY <2>9 DEF StepOf
    <3> QED BY <2>9, <3>1, AdjacentFlush
  <2>10. CASE UNCHANGED vars
    BY <2>10 DEF vars, Adjacent, BatchFolds, SameBatch, Issued, Folded, FirstPass, Current
  <2> QED BY <2>1, <2>2, <2>3, <2>4, <2>5, <2>6, <2>7, <2>8, <2>9, <2>10, StepKinds
<1> QED BY <1>1, <1>2, TypeCorrect, PlacedCorrect, TidyCorrect, RoundsCorrect,
           OneBusyCorrect, TailCorrect, PTL DEF Spec

\* The calls of a batch that no human was asked about stay adjacent, so that
\* coalesce_turns folds them into one assistant turn (Buffer::flush writes every
\* call, then every result), whatever fails, the store included, for a consumer that runs
\* one turn at a time and submits each pending call once.
THEOREM BatchesFold == ASSUME OneAtATime, ~Retry PROVE Spec => []BatchFolds
<1>1. Adjacent => BatchFolds
  BY DEF Adjacent
<1> QED BY <1>1, AdjacentCorrect, PTL

-----------------------------------------------------------------------------
(* A call enters the log once.                                              *)

\* What a turn has in hand was not stored before, except by the flush it is in.
FreshAt(t) ==
  /\ Len(queue[t]) + Len(buf[t]) <= MaxBatch
  /\ held[t] # None => MaxBatch > 0
  /\ Distinct(buf[t])
  /\ pc[t] \in AtHead => Head(queue[t]) \notin Entered(log) \cup Elements(buf[t])
  /\ Suspended(t) =>
       held[t] # None /\ held[t] \notin Entered(log) \cup Elements(buf[t])
  /\ pc[t] # "flush" => \A c \in Elements(buf[t]) : c \notin Entered(log)
  /\ pc[t] = "flush" =>
       \A j \in DOMAIN log : log[j].call \in Elements(buf[t]) => j > Len(log) - appended[t]

\* The inductive strengthening of what AtomicHistory says of a batch.
Fresh == \A t \in Turns : FreshAt(t)

\* Distinct elements, with one more.
LEMMA AppendDistinct ==
  ASSUME NEW S, NEW s \in Seq(S), NEW e \in S, Distinct(s), e \notin Elements(s)
  PROVE  Distinct(Append(s, e)) /\ Len(Append(s, e)) = Len(s) + 1
<1>1. /\ Len(s) \in Nat /\ DOMAIN s = 1..Len(s) /\ DOMAIN Append(s, e) = 1..(Len(s) + 1)
      /\ \A i \in 1..Len(s) : Append(s, e)[i] = s[i]
      /\ Append(s, e)[Len(s) + 1] = e /\ Len(Append(s, e)) = Len(s) + 1
  OBVIOUS
<1>2. \A i \in 1..Len(s) : s[i] # e
  BY <1>1 DEF Elements
<1>3. ASSUME NEW i \in 1..(Len(s) + 1), NEW j \in 1..(Len(s) + 1),
             Append(s, e)[i] = Append(s, e)[j]
      PROVE  i = j
  <2>1. CASE i \in 1..Len(s) /\ j \in 1..Len(s)
    BY <1>1, <1>3, <2>1 DEF Distinct
  <2>2. CASE i = Len(s) + 1 \/ j = Len(s) + 1
    BY <1>1, <1>2, <1>3, <2>2
  <2> QED BY <1>1, <2>1, <2>2
<1> QED BY <1>1, <1>3 DEF Distinct

\* A batch that shrinks, or loses a call from the queue to the buffer, still fits.
LEMMA StillFits ==
  ASSUME NEW q \in Nat, NEW b \in Nat, NEW m \in Nat, q + b <= m
  PROVE  /\ q + 0 <= m /\ 0 + b <= m /\ 0 + 0 <= m
         /\ q >= 1 => (q - 1) + (b + 1) <= m /\ m > 0
  OBVIOUS

\* A step of one turn leaves the others, which are not at work, as they are.
LEMMA FreshOthers ==
  ASSUME OneAtATime, TypeOK, Owned, Tidy, OneBusy, Fresh, NEW t \in Turns, StepOf(t),
         \A c \in Calls : owner[c] # t /\ c \in Entered(log') => c \in Entered(log),
         NEW u \in Turns, u # t
  PROVE  FreshAt(u)'
<1>1. /\ ~Busy(u) /\ pc'[u] = pc[u] /\ queue'[u] = queue[u] /\ buf'[u] = buf[u]
      /\ held'[u] = held[u] /\ fate'[u] = fate[u] /\ FreshAt(u)
  BY StepsAlone, StepOthers DEF Others, Fresh
<1>2. pc[u] \notin AtHead \cup {"flush", "batch"}
  BY <1>1 DEF Busy, AtHead
<1>3. Elements(buf[u]) = {}
  BY <1>2, NoElements DEF Tidy
<1>4. ASSUME Suspended(u) PROVE held[u] \notin Entered(log')
  <2>1. held[u] \in Calls /\ owner[held[u]] = u /\ held[u] \notin Entered(log)
    BY <1>1, <1>4 DEF FreshAt, Owned, TypeOK
  <2> QED BY <2>1
<1> QED BY <1>1, <1>2, <1>3, <1>4 DEF FreshAt, Suspended

\* A step that is not a flush's, by its effect on the turn's own calls.
LEMMA FreshOwn ==
  ASSUME OneAtATime, TypeOK, Owned, Tidy, OneBusy, Fresh, NEW t \in Turns, StepOf(t),
         SameEntries,
         Len(queue'[t]) + Len(buf'[t]) <= MaxBatch,
         held'[t] # None => MaxBatch > 0,
         Distinct(buf'[t]),
         pc'[t] \in AtHead =>
           /\ Head(queue'[t]) \in Calls
           /\ Head(queue'[t]) \notin Entered(log) \cup Elements(buf'[t]),
         Suspended(t)' =>
           held'[t] \in Calls /\ held'[t] \notin Entered(log) \cup Elements(buf'[t]),
         \A c \in Elements(buf'[t]) : c \in Calls /\ c \notin Entered(log)
  PROVE  Fresh'
<1>1. \A c \in Calls : c \in Entered(log') <=> c \in Entered(log)
  BY DEF SameEntries
<1>2. \A j \in DOMAIN log' : log'[j].call \in Entered(log')
  BY DEF Entered
<1>3. FreshAt(t)'
  BY <1>1, <1>2, ConstantsOK DEF FreshAt, ConstantsOK
<1>4. \A u \in Turns : u # t => FreshAt(u)'
  BY <1>1, FreshOthers
<1> QED BY <1>3, <1>4 DEF Fresh

\* An entry of a flush is of a call whose earlier entries are in the same flush.
LEMMA FreshFlush ==
  ASSUME OneAtATime, TypeOK, Owned, Tidy, Rounds, OneBusy, Fresh,
         NEW t \in Turns, StepOf(t), FlushEntry(t)
  PROVE  Fresh'
<1>1. /\ pc[t] = "flush" /\ UNCHANGED <<pc, queue, buf, held, fate>>
  BY FlushEntryEffect
<1>2. /\ appended[t] \in Nat /\ Len(log) \in Nat
      /\ appended'[t] = appended[t] + 1
      /\ DOMAIN log = 1..Len(log)
      /\ Len(log') = Len(log) + 1 /\ DOMAIN log' = 1..(Len(log) + 1)
      /\ \A i \in 1..Len(log) : log'[i] = log[i]
  BY FlushAppends
<1>3. Entered(log') \subseteq Entered(log) \cup Elements(buf[t])
  <2>1. PICK i \in DOMAIN buf[t], k \in {"call", "result"} :
          log' = Append(log, Entry(t, k, buf[t][i])) /\ Entry(t, k, buf[t][i]) \in Entries
    BY FlushEntryEffect
  <2>2. log \in Seq(Entries)
    BY DEF TypeOK
  <2> QED BY <2>1, <2>2, EntryAdded DEF Entry, Elements
<1>4. FreshAt(t)
  BY DEF Fresh
<1>5. ASSUME NEW j \in DOMAIN log', log'[j].call \in Elements(buf[t])
      PROVE  j > Len(log') - appended'[t]
  <2>1. CASE j \in DOMAIN log
    <3>1. j > Len(log) - appended[t]
      BY <1>1, <1>2, <1>4, <1>5, <2>1 DEF FreshAt
    <3> QED BY <1>2, <3>1
  <2>2. CASE j = Len(log) + 1
    BY <1>2, <2>2
  <2> QED BY <1>2, <2>1, <2>2
<1>6. pc[t] \notin AtHead
  BY <1>1 DEF AtHead
<1>7. FreshAt(t)'
  BY <1>1, <1>3, <1>4, <1>5, <1>6 DEF FreshAt, Suspended
<1>8. \A c \in Calls : owner[c] # t /\ c \in Entered(log') => c \in Entered(log)
  BY <1>3 DEF Rounds, RoundsAt, Current
<1>9. \A u \in Turns : u # t => FreshAt(u)'
  BY <1>8, FreshOthers
<1> QED BY <1>7, <1>9 DEF Fresh

\* The bound a turn's queue and buffer keep.
Fits(t) ==
  /\ Len(queue[t]) \in Nat /\ Len(buf[t]) \in Nat /\ MaxBatch \in Nat
  /\ Len(queue[t]) + Len(buf[t]) <= MaxBatch
  /\ held[t] # None => MaxBatch > 0

\* With one turn at a time, and decisions submitted once, no call is stored twice.
THEOREM FreshCorrect == ASSUME OneAtATime, ~Retry PROVE Spec => []Fresh
<1>1. Init => Fresh
  <2> SUFFICES ASSUME Init PROVE Fresh
    OBVIOUS
  <2>1. \A t \in Turns : /\ pc[t] = "idle" /\ held[t] = None
                         /\ queue[t] = <<>> /\ buf[t] = <<>>
    BY DEF Init
  <2>2. Len(<<>>) = 0 /\ 0 + 0 <= MaxBatch
    BY ConstantsOK DEF ConstantsOK
  <2> QED BY <2>1, <2>2, NoElements DEF Fresh, FreshAt, Suspended, AtHead
<1>2. TypeOK /\ Owned /\ Placed /\ Tidy /\ Rounds /\ OneBusy /\ Fresh /\ [Next]_vars => Fresh'
  <2> SUFFICES ASSUME TypeOK, Owned, Placed, Tidy, Rounds, OneBusy, Fresh, [Next]_vars
               PROVE  Fresh'
    OBVIOUS
  <2>0. ASSUME NEW t \in Turns
        PROVE  /\ queue[t] \in Seq(Calls) /\ buf[t] \in Seq(Calls)
               /\ Len(queue[t]) \in Nat /\ Len(buf[t]) \in Nat /\ MaxBatch \in Nat
               /\ Elements(buf[t]) \subseteq Calls
               /\ FreshAt(t)
               /\ queue[t] # <<>> =>
                    /\ Head(queue[t]) \in Calls /\ Head(queue[t]) \in Elements(queue[t])
                    /\ Len(queue[t]) >= 1
                    /\ Len(Tail(queue[t])) = Len(queue[t]) - 1
    <3>1. queue[t] \in Seq(Calls) /\ buf[t] \in Seq(Calls)
      BY DEF TypeOK
    <3>2. Elements(buf[t]) \subseteq Calls
      BY <3>1 DEF Elements
    <3>3. queue[t] # <<>> => Len(queue[t]) >= 1 /\ Len(Tail(queue[t])) = Len(queue[t]) - 1
      BY <3>1
    <3> QED BY <3>1, <3>2, <3>3, HeadType, TailElements, ConstantsOK DEF Fresh, ConstantsOK
  <2>fits. ASSUME NEW t \in Turns PROVE Fits(t)
    BY <2>0 DEF Fits, FreshAt
  <2>1. ASSUME NEW t \in Turns, queue[t] # <<>>, pc[t] = "batch"
        PROVE  Head(queue[t]) \notin Entered(log) \cup Elements(buf[t])
    BY <2>0, <2>1 DEF Placed, Untouched
  <2>2. Len(<<>>) = 0 /\ Elements(<<>>) = {} /\ Distinct(<<>>)
    BY NoElements
  <2>3. ASSUME NEW t \in Turns, pc[t] # "flush"
        PROVE  \A c \in Elements(buf[t]) : c \in Calls /\ c \notin Entered(log)
    BY <2>0, <2>3 DEF FreshAt
  <2>4. ASSUME NEW t \in Turns, Moves(t) PROVE Fresh'
    <3>1. UNCHANGED <<queue, buf, held>> /\ SameEntries /\ StepOf(t)
      BY <2>4, MovesEffect DEF StepOf
    <3>2. /\ pc[t] # "flush" /\ ~Suspended(t)'
          /\ pc'[t] \in AtHead => pc[t] = "batch" /\ queue[t] # <<>>
      BY <2>4, MovesStages DEF Suspended, AtHead
    <3>3. /\ Len(queue'[t]) + Len(buf'[t]) <= MaxBatch
          /\ held'[t] # None => MaxBatch > 0
          /\ Distinct(buf'[t])
      BY <2>0, <3>1 DEF FreshAt
    <3>4. pc'[t] \in AtHead =>
            /\ Head(queue'[t]) \in Calls
            /\ Head(queue'[t]) \notin Entered(log) \cup Elements(buf'[t])
      BY <2>0, <2>1, <3>1, <3>2
    <3>5. \A c \in Elements(buf'[t]) : c \in Calls /\ c \notin Entered(log)
      BY <2>3, <3>1, <3>2
    <3> QED BY <3>1, <3>2, <3>3, <3>4, <3>5, FreshOwn
  <2>5. ASSUME NEW t \in Turns, Errors(t) PROVE Fresh'
    <3>1. /\ log' = log /\ held' = held /\ StepOf(t)
          /\ pc'[t] = "failed" /\ queue'[t] = <<>> /\ buf'[t] = <<>>
      BY <2>5, ErrorsEffect DEF StepOf
    <3>2. SameEntries /\ ~Suspended(t)' /\ pc'[t] \notin AtHead
      BY <3>1 DEF SameEntries, Suspended, AtHead
    <3>3. /\ Len(queue'[t]) + Len(buf'[t]) <= MaxBatch
          /\ held'[t] # None => MaxBatch > 0
      <4>1. Fits(t)
        BY <2>fits
      <4>2. Len(queue'[t]) = 0 /\ Len(buf'[t]) = 0
        BY <2>2, <3>1
      <4> QED BY <3>1, <4>1, <4>2, StillFits DEF Fits
    <3> QED BY <2>2, <3>1, <3>2, <3>3, FreshOwn
  <2>6. ASSUME NEW t \in Turns, Settles(t) PROVE Fresh'
    <3>1. /\ queue[t] # <<>> /\ pc[t] \in {"batch", "called", "refusing"}
          /\ log' = log /\ held' = held /\ StepOf(t) /\ pc'[t] = "batch"
          /\ queue'[t] = Tail(queue[t])
          /\ buf'[t] = Append(buf[t], Head(queue[t]))
      BY <2>6, SettlesEffect DEF StepOf
    <3>2. Head(queue[t]) \notin Entered(log) \cup Elements(buf[t])
      BY <2>0, <2>1, <3>1 DEF FreshAt, AtHead
    <3>3. Distinct(buf[t])
      BY <2>0 DEF FreshAt
    <3>4. /\ Distinct(buf'[t]) /\ Len(buf'[t]) = Len(buf[t]) + 1
          /\ Elements(buf'[t]) = Elements(buf[t]) \cup {Head(queue[t])}
      BY <2>0, <3>1, <3>2, <3>3, AppendDistinct, AppendElements
    <3>5. Len(queue'[t]) + Len(buf'[t]) <= MaxBatch /\ (held'[t] # None => MaxBatch > 0)
      <4>1. Fits(t)
        BY <2>fits
      <4>2. Len(queue'[t]) = Len(queue[t]) - 1 /\ Len(queue[t]) >= 1
        BY <2>0, <3>1
      <4> QED BY <3>1, <3>4, <4>1, <4>2, StillFits DEF Fits
    <3>6. \A c \in Elements(buf'[t]) : c \in Calls /\ c \notin Entered(log)
      BY <2>0, <2>3, <3>1, <3>2, <3>4
    <3>7. SameEntries /\ ~Suspended(t)' /\ pc'[t] \notin AtHead
      BY <3>1 DEF SameEntries, Suspended, AtHead
    <3> QED BY <3>1, <3>4, <3>5, <3>6, <3>7, FreshOwn
  <2>7. ASSUME NEW t \in Turns, ReportInProgress(t) \/ CallTool(t) PROVE Fresh'
    <3>1. /\ queue[t] # <<>> /\ pc[t] \in AtHead /\ pc'[t] \in {"calling", "called"}
          /\ UNCHANGED <<log, queue, buf, held>> /\ StepOf(t)
      BY <2>7, ReportInProgressEffect, CallToolEffect DEF StepOf, AtHead
    <3>2. SameEntries /\ ~Suspended(t)' /\ pc[t] # "flush"
      BY <3>1 DEF SameEntries, Suspended, AtHead
    <3>3. /\ Len(queue'[t]) + Len(buf'[t]) <= MaxBatch
          /\ held'[t] # None => MaxBatch > 0
          /\ Distinct(buf'[t])
          /\ Head(queue'[t]) \in Calls
          /\ Head(queue'[t]) \notin Entered(log) \cup Elements(buf'[t])
      BY <2>0, <3>1 DEF FreshAt
    <3>4. \A c \in Elements(buf'[t]) : c \in Calls /\ c \notin Entered(log)
      BY <2>3, <3>1, <3>2
    <3> QED BY <3>1, <3>2, <3>3, <3>4, FreshOwn
  <2>8. ASSUME NEW t \in Turns, NEW o \in Decisions, PolicyResolves(t, o) PROVE Fresh'
    <3>1. /\ queue[t] # <<>> /\ pc[t] = "batch" /\ StepOf(t)
          /\ log' = log /\ held' = held
          /\ pc'[t] \in {"starting", "refusing", "flush", "failed"}
          /\ pc'[t] \in {"starting", "refusing"} => queue'[t] = queue[t]
          /\ pc'[t] \in {"flush", "failed"} => queue'[t] = <<>>
          /\ buf'[t] = buf[t] \/ buf'[t] = <<>>
          /\ ~Suspended(t)'
      BY <2>8, PolicyResolvesEffect DEF StepOf, Suspended
    <3>2. SameEntries
      BY <3>1 DEF SameEntries
    <3>3. /\ Elements(buf'[t]) \subseteq Elements(buf[t]) /\ Distinct(buf'[t])
          /\ Len(queue'[t]) + Len(buf'[t]) <= MaxBatch
          /\ held'[t] # None => MaxBatch > 0
      <4>1. Fits(t) /\ Distinct(buf[t])
        BY <2>0, <2>fits DEF FreshAt
      <4>2. Len(queue'[t]) \in {Len(queue[t]), 0} /\ Len(buf'[t]) \in {Len(buf[t]), 0}
        BY <2>2, <3>1
      <4>3. Len(queue'[t]) + Len(buf'[t]) <= MaxBatch
        BY <4>1, <4>2, StillFits DEF Fits
      <4>4. Elements(buf'[t]) \subseteq Elements(buf[t]) /\ Distinct(buf'[t])
        BY <2>2, <3>1, <4>1
      <4> QED BY <3>1, <4>1, <4>3, <4>4 DEF Fits
    <3>4. pc'[t] \in AtHead =>
            /\ Head(queue'[t]) \in Calls
            /\ Head(queue'[t]) \notin Entered(log) \cup Elements(buf'[t])
      BY <2>0, <2>1, <3>1, <3>3 DEF AtHead
    <3>5. \A c \in Elements(buf'[t]) : c \in Calls /\ c \notin Entered(log)
      BY <2>3, <3>1, <3>3
    <3> QED BY <3>1, <3>2, <3>3, <3>4, <3>5, FreshOwn
  <2>9. ASSUME NEW t \in Turns, NEW p \in Calls, NEW o \in Decisions, Approve(t, p, o) PROVE Fresh'
    <3>1. /\ pc[t] = "awaiting" /\ held[t] \in Calls /\ StepOf(t)
          /\ log' = log /\ held' = held /\ buf' = buf
          /\ pc'[t] \in {"starting", "refusing", "flush", "failed"}
          /\ pc'[t] \in {"starting", "refusing"} => queue'[t] = <<held[t]>>
          /\ pc'[t] \in {"flush", "failed"} => queue'[t] = <<>>
          /\ ~Suspended(t)'
      BY <2>9, ApproveEffect DEF StepOf, Suspended
    <3>2. SameEntries /\ buf'[t] = <<>>
      BY <3>1 DEF SameEntries, Tidy, AtHead
    <3>3. held[t] \notin Entered(log) /\ held[t] # None /\ MaxBatch > 0
      BY <2>0, <3>1 DEF FreshAt, Suspended
    <3>4. Len(queue'[t]) \in {0, 1}
      <4>1. Len(<<held[t]>>) = 1
        OBVIOUS
      <4> QED BY <2>2, <3>1, <4>1
    <3>5. Len(queue'[t]) + Len(buf'[t]) <= MaxBatch
      <4>1. Len(buf'[t]) = 0 /\ MaxBatch \in Nat
        BY <2>2, <3>2, ConstantsOK DEF ConstantsOK
      <4>2. MaxBatch >= 1
        BY <3>3, <4>1
      <4>3. PICK n \in {0, 1} : Len(queue'[t]) = n
        BY <3>4
      <4>4. n + 0 <= MaxBatch
        BY <4>1, <4>2
      <4> QED BY <4>1, <4>3, <4>4
    <3>6. pc'[t] \in AtHead =>
            /\ Head(queue'[t]) \in Calls
            /\ Head(queue'[t]) \notin Entered(log) \cup Elements(buf'[t])
      BY <2>2, <3>1, <3>2, <3>3, OneElement DEF AtHead
    <3> QED BY <2>2, <3>1, <3>2, <3>3, <3>5, <3>6, FreshOwn
  <2>10. ASSUME NEW t \in Turns, PolicyAsks(t) PROVE Fresh'
    <3>1. /\ queue[t] # <<>> /\ pc[t] = "batch" /\ pc'[t] = "flush" /\ StepOf(t)
          /\ log' = log /\ buf' = buf /\ queue'[t] = <<>> /\ held'[t] = Head(queue[t])
      BY <2>10, PolicyAsksEffect DEF StepOf
    <3>2. SameEntries /\ pc'[t] \notin AtHead
      BY <3>1 DEF SameEntries, AtHead
    <3>3. Distinct(buf'[t]) /\ Fits(t)
      BY <2>0, <2>fits, <3>1 DEF FreshAt
    <3>4. Len(queue'[t]) + Len(buf'[t]) <= MaxBatch /\ MaxBatch > 0
      <4>1. Len(queue'[t]) = 0 /\ Len(buf'[t]) = Len(buf[t])
        BY <2>2, <3>1
      <4>2. Len(queue[t]) >= 1
        BY <2>0, <3>1
      <4> QED BY <3>3, <4>1, <4>2, StillFits DEF Fits
    <3>5. held'[t] \in Calls /\ held'[t] \notin Entered(log) \cup Elements(buf'[t])
      BY <2>0, <2>1, <3>1
    <3>6. \A c \in Elements(buf'[t]) : c \in Calls /\ c \notin Entered(log)
      BY <2>3, <3>1
    <3> QED BY <3>1, <3>2, <3>3, <3>4, <3>5, <3>6, FreshOwn
  <2>11. ASSUME NEW t \in Turns, NEW q \in Batches, NEW h \in BOOLEAN, AgentReplies(t, q, h)
         PROVE  Fresh'
    <3>1. /\ pc[t] = "prompting" /\ pc'[t] \in {"text", "batch", "closing"} /\ StepOf(t)
          /\ log' = log /\ buf' = buf /\ held' = held
          /\ q \in Seq(Calls) /\ queue'[t] = q /\ Len(q) <= MaxBatch
      BY <2>11, AgentRepliesEffect DEF StepOf
    <3>2. SameEntries /\ pc'[t] \notin AtHead /\ ~Suspended(t)' /\ buf'[t] = <<>>
      BY <3>1 DEF SameEntries, Suspended, AtHead, Tidy
    <3>3. Len(queue'[t]) + Len(buf'[t]) <= MaxBatch
      <4>1. Len(q) \in Nat
        BY <3>1
      <4> QED BY <2>2, <3>1, <3>2, <4>1
    <3>4. held'[t] # None => MaxBatch > 0
      BY <2>0, <3>1 DEF FreshAt
    <3> QED BY <2>2, <3>1, <3>2, <3>3, <3>4, FreshOwn
  <2>12. ASSUME NEW t \in Turns, FlushEntry(t) PROVE Fresh'
    <3>1. StepOf(t)
      BY <2>12 DEF StepOf
    <3> QED BY <2>12, <3>1, FreshFlush
  <2>13. ASSUME NEW t \in Turns, FlushEnds(t) PROVE Fresh'
    <3>1. /\ pc[t] = "flush" /\ StepOf(t)
          /\ log' = log /\ held' = held /\ queue' = queue /\ buf'[t] = <<>>
          /\ pc'[t] \in {"loop", "closing", "awaiting"}
          /\ pc'[t] = "awaiting" <=> fate[t] = "Suspended"
      BY <2>13, FlushEndsEffect DEF StepOf
    <3>2. SameEntries /\ pc'[t] \notin AtHead /\ queue'[t] = <<>>
      BY <3>1 DEF SameEntries, AtHead, Tidy
    <3>3. Suspended(t)' => Suspended(t)
      BY <3>1 DEF Suspended
    <3>4. Suspended(t)' => held'[t] \in Calls /\ held'[t] \notin Entered(log)
      BY <2>0, <3>1, <3>3 DEF FreshAt, TypeOK
    <3>5. Len(queue'[t]) + Len(buf'[t]) <= MaxBatch /\ (held'[t] # None => MaxBatch > 0)
      <4>1. Fits(t)
        BY <2>fits
      <4>2. Len(queue'[t]) = 0 /\ Len(buf'[t]) = 0
        BY <2>2, <3>1, <3>2
      <4> QED BY <3>1, <4>1, <4>2, StillFits DEF Fits
    <3> QED BY <2>2, <3>1, <3>2, <3>4, <3>5, FreshOwn
  <2>14. CASE UNCHANGED vars
    BY <2>14 DEF vars, Fresh, FreshAt, Suspended
  <2> QED BY <2>4, <2>5, <2>6, <2>7, <2>8, <2>9, <2>10, <2>11, <2>12, <2>13, <2>14, StepKinds
<1> QED BY <1>1, <1>2, TypeCorrect, OwnedCorrect, PlacedCorrect, TidyCorrect, RoundsCorrect,
           OneBusyCorrect, PTL DEF Spec

-----------------------------------------------------------------------------
(* The refinement.  The history that AtomicHistory speaks of is the log        *)
(* without the entries of the flush that is under way, of which there is one.  *)

\* Flushed, of any log, stages and counts.
FlushedOf(l, p, a) ==
  LET inFlight == {t \in Turns : p[t] = "flush"}
  IN  IF inFlight = {} THEN l
      ELSE SubSeq(l, 1, Len(l) - a[CHOOSE t \in inFlight : TRUE])

\* With no flush under way it is the log ...
LEMMA FlushedAll ==
  ASSUME NEW l, NEW p, NEW a, \A t \in Turns : p[t] # "flush"
  PROVE  FlushedOf(l, p, a) = l
BY DEF FlushedOf

\* ... and with one, the log up to what that flush has appended.
LEMMA FlushedBut ==
  ASSUME NEW l, NEW p, NEW a, NEW t \in Turns, p[t] = "flush",
         \A u \in Turns : p[u] = "flush" => u = t
  PROVE  FlushedOf(l, p, a) = SubSeq(l, 1, Len(l) - a[t])
<1>1. {u \in Turns : p[u] = "flush"} = {t}
  OBVIOUS
<1>2. (CHOOSE u \in {t} : TRUE) = t
  OBVIOUS
<1> QED BY <1>1, <1>2 DEF FlushedOf

\* The elements of a prefix.
LEMMA PrefixIs ==
  ASSUME NEW S, NEW l \in Seq(S), NEW m \in Nat, m <= Len(l)
  PROVE  /\ SubSeq(l, 1, m) \in Seq(S) /\ Len(SubSeq(l, 1, m)) = m
         /\ \A i \in 1..m : SubSeq(l, 1, m)[i] = l[i]
OBVIOUS

\* An entry appended behind a prefix leaves the prefix as it was.
LEMMA PrefixKept ==
  ASSUME NEW S, NEW l \in Seq(S), NEW e \in S, NEW m \in Nat, m <= Len(l)
  PROVE  SubSeq(Append(l, e), 1, m) = SubSeq(l, 1, m)
<1>1. /\ Append(l, e) \in Seq(S) /\ Len(l) \in Nat
      /\ Len(Append(l, e)) = Len(l) + 1
      /\ \A i \in 1..Len(l) : Append(l, e)[i] = l[i]
  OBVIOUS
<1>2. /\ SubSeq(l, 1, m) \in Seq(S) /\ Len(SubSeq(l, 1, m)) = m
      /\ \A i \in 1..m : SubSeq(l, 1, m)[i] = l[i]
  BY <1>1
<1>3. /\ SubSeq(Append(l, e), 1, m) \in Seq(S) /\ Len(SubSeq(Append(l, e), 1, m)) = m
      /\ \A i \in 1..m : SubSeq(Append(l, e), 1, m)[i] = Append(l, e)[i]
  BY <1>1
<1>4. \A i \in 1..m : SubSeq(Append(l, e), 1, m)[i] = SubSeq(l, 1, m)[i]
  BY <1>1, <1>2, <1>3
<1> QED BY <1>2, <1>3, <1>4, SeqEqual

\* A whole sequence is its own prefix.
LEMMA WholePrefix ==
  ASSUME NEW S, NEW l \in Seq(S)
  PROVE  SubSeq(l, 1, Len(l)) = l
<1>1. /\ SubSeq(l, 1, Len(l)) \in Seq(S) /\ Len(SubSeq(l, 1, Len(l))) = Len(l)
      /\ \A i \in 1..Len(l) : SubSeq(l, 1, Len(l))[i] = l[i]
  OBVIOUS
<1> QED BY <1>1, SeqEqual

\* The sequence of m elements, those of s, and n more, those of u.
Chained(r, s, u, m, n) ==
  /\ Len(r) = m + n
  /\ \A i \in 1..m : r[i] = s[i]
  /\ \A i \in 1..n : r[m + i] = u[i]

\* Two sequences, one behind the other.
LEMMA Joined ==
  ASSUME NEW S, NEW s \in Seq(S), NEW u \in Seq(S)
  PROVE  s \o u \in Seq(S) /\ Chained(s \o u, s, u, Len(s), Len(u))
<1>1. /\ s \o u \in Seq(S) /\ Len(s \o u) = Len(s) + Len(u)
      /\ Len(s) \in Nat /\ Len(u) \in Nat
  OBVIOUS
<1>2. ASSUME NEW m \in Nat, m = Len(s), NEW n \in Nat, n = Len(u)
      PROVE  /\ \A i \in 1..m : (s \o u)[i] = s[i]
             /\ \A i \in 1..n : (s \o u)[m + i] = u[i]
  <2>1. \A i \in 1..n : m + i \in 1..(m + n) /\ m + i - m = i /\ ~(m + i <= m)
    OBVIOUS
  <2>2. \A i \in 1..m : i \in 1..(m + n) /\ i <= m
    OBVIOUS
  <2> QED BY <1>2, <2>1, <2>2
<1> QED BY <1>1, <1>2 DEF Chained

\* The calls of a batch, and its results, as AtomicHistory commits them.
CallsOf(t, b) == [i \in 1..Len(b) |-> Entry(t, "call", b[i])]
ResultsOf(t, b) == [i \in 1..Len(b) |-> Entry(t, "result", b[i])]

\* A log that ends in the calls and the results of a batch is a commit of it.
LEMMA BatchCommits ==
  ASSUME NEW S, NEW l \in Seq(S), NEW t, NEW b, NEW base \in Nat, Len(b) \in Nat,
         WrittenBehind(l, b, Len(b), base, t)
  PROVE  l = SubSeq(l, 1, base) \o CallsOf(t, b) \o ResultsOf(t, b)
<1> DEFINE n == Len(b)
           p == SubSeq(l, 1, base)
           q == p \o CallsOf(t, b)
           r == q \o ResultsOf(t, b)
<1>1. /\ n \in Nat /\ Len(l) = base + 2 * n
      /\ \A k \in 1..(2 * n) :
           l[base + k] = Entry(t, FlushItem(b, k)[1], FlushItem(b, k)[2])
  <2>1. DOMAIN l = 1..(base + 2 * n) /\ DOMAIN l = 1..Len(l) /\ Len(l) \in Nat
    BY DEF WrittenBehind
  <2> QED BY <2>1 DEF WrittenBehind
<1>2. \A i \in 1..n : l[base + i] = Entry(t, "call", b[i])
  <2> SUFFICES ASSUME NEW i \in 1..n PROVE l[base + i] = Entry(t, "call", b[i])
    OBVIOUS
  <2>1. i \in 1..(2 * n) /\ i <= n
    BY <1>1
  <2>2. FlushItem(b, i) = <<"call", b[i]>>
    BY <2>1 DEF FlushItem
  <2> QED BY <1>1, <2>1, <2>2
<1>3. \A i \in 1..n : l[base + n + i] = Entry(t, "result", b[i])
  <2> SUFFICES ASSUME NEW i \in 1..n PROVE l[base + n + i] = Entry(t, "result", b[i])
    OBVIOUS
  <2>1. n + i \in 1..(2 * n) /\ ~(n + i <= n) /\ n + i - n = i /\ base + (n + i) = base + n + i
    BY <1>1
  <2>2. FlushItem(b, n + i) = <<"result", b[i]>>
    BY <2>1 DEF FlushItem
  <2> QED BY <1>1, <2>1, <2>2
<1>4. /\ p \in Seq(S) /\ Len(p) = base
      /\ \A i \in 1..base : p[i] = l[i]
  BY <1>1
<1>5. /\ CallsOf(t, b) = [i \in 1..n |-> Entry(t, "call", b[i])]
      /\ ResultsOf(t, b) = [i \in 1..n |-> Entry(t, "result", b[i])]
  BY DEF CallsOf, ResultsOf
<1>6. /\ \A i \in 1..n : Entry(t, "call", b[i]) \in S
      /\ \A i \in 1..n : Entry(t, "result", b[i]) \in S
  <2>1. \A i \in 1..n : base + i \in 1..Len(l) /\ base + n + i \in 1..Len(l)
    BY <1>1
  <2>2. \A k \in 1..Len(l) : l[k] \in S
    OBVIOUS
  <2>3. \A i \in 1..n : l[base + i] \in S /\ l[base + n + i] \in S
    BY <2>1, <2>2
  <2> QED BY <1>2, <1>3, <2>3
<1>7. /\ CallsOf(t, b) \in Seq(S) /\ Len(CallsOf(t, b)) = n
      /\ ResultsOf(t, b) \in Seq(S) /\ Len(ResultsOf(t, b)) = n
  BY <1>1, <1>5, <1>6
<1>8. /\ q \in Seq(S) /\ Chained(q, p, CallsOf(t, b), base, n)
      /\ r \in Seq(S) /\ Chained(r, q, ResultsOf(t, b), base + n, n)
  <2>1. q = p \o CallsOf(t, b) /\ r = q \o ResultsOf(t, b)
    OBVIOUS
  <2>2. p \in Seq(S) /\ Len(p) = base
    BY <1>4
  <2> HIDE DEF p, q, r, n
  <2>3. q \in Seq(S) /\ Chained(q, p, CallsOf(t, b), base, n)
    BY <1>7, <2>1, <2>2, Joined
  <2>4. Len(q) = base + n
    BY <2>3 DEF Chained
  <2>5. r \in Seq(S) /\ Chained(r, q, ResultsOf(t, b), base + n, n)
    BY <1>7, <2>1, <2>3, <2>4, Joined
  <2> QED BY <2>3, <2>5
<1>9. /\ Len(q) = base + n /\ Len(r) = base + n + n
      /\ \A i \in 1..base : q[i] = p[i]
      /\ \A i \in 1..n : q[base + i] = CallsOf(t, b)[i]
      /\ \A i \in 1..(base + n) : r[i] = q[i]
      /\ \A i \in 1..n : r[base + n + i] = ResultsOf(t, b)[i]
  <2> HIDE DEF p, q, r, n
  <2> QED BY <1>8 DEF Chained
<1> HIDE DEF q, r
<1>10. ASSUME NEW i \in 1..Len(l) PROVE l[i] = r[i]
  <2>1. CASE i <= base
    <3>1. i \in 1..base /\ i \in 1..(base + n)
      BY <1>1, <2>1
    <3> QED BY <3>1, <1>4, <1>9
  <2>2. CASE base < i /\ i <= base + n
    <3>1. PICK j \in 1..n : i = base + j
      <4>1. i - base \in 1..n /\ i = base + (i - base)
        BY <1>1, <2>2
      <4> QED BY <4>1
    <3>2. i \in 1..(base + n)
      BY <1>1, <2>2
    <3> QED BY <3>1, <3>2, <1>2, <1>5, <1>9
  <2>3. CASE base + n < i
    <3>1. PICK j \in 1..n : i = base + n + j
      <4>1. i - (base + n) \in 1..n /\ i = base + n + (i - (base + n))
        BY <1>1, <2>3
      <4> QED BY <4>1
    <3> QED BY <3>1, <1>3, <1>5, <1>9
  <2>4. i \in Nat /\ base \in Nat /\ n \in Nat
    BY <1>1
  <2>5. i <= base \/ (base < i /\ i <= base + n) \/ base + n < i
    BY <2>4
  <2> QED BY <2>1, <2>2, <2>3, <2>5
<1>11. Len(r) = Len(l)
  BY <1>1, <1>9
<1>12. l = r
  BY <1>8, <1>10, <1>11, SeqEqual
<1> QED BY <1>12 DEF q, r

\* The entry of a user's block, or of a reply's text, is something said.
LEMMA SaidIsSaid ==
  ASSUME NEW t \in Turns, NEW k \in {"block", "text"},
         Flushed = log, Flushed' = log', log' = Append(log, Entry(t, k, None))
  PROVE  Atomic!Next
<1>1. Atomic!Say(t, k)
  BY DEF Atomic!Say, Atomic!Item, Entry
<1> QED BY <1>1 DEF Atomic!Next

\* The end of a flush commits the batch, unless the batch is empty.
LEMMA FlushCommits ==
  ASSUME OneAtATime, TypeOK, OneBusy, OneBusy', TailInFlight, Fresh,
         NEW t \in Turns, FlushEnds(t), Flushed' = log,
         Flushed = SubSeq(log, 1, Len(log) - appended[t])
  PROVE  Atomic!Next \/ Flushed' = Flushed
<1> DEFINE base == Len(log) - appended[t]
           b == buf[t]
<1>1. /\ pc[t] = "flush" /\ appended[t] = 2 * Len(b) /\ log' = log
  BY FlushEndsEffect
<1>2. /\ log \in Seq(Entries) /\ Len(log) \in Nat /\ DOMAIN log = 1..Len(log)
      /\ b \in Seq(Calls) /\ Len(b) \in Nat /\ DOMAIN b = 1..Len(b)
      /\ appended[t] \in Nat
  BY DEF TypeOK
<1>3. /\ appended[t] <= Len(log)
      /\ \A k \in 1..appended[t] : log[Len(log) - appended[t] + k] = Planned(t, k)
  BY <1>1 DEF TailInFlight, InFlight
<1>4. base \in Nat /\ base + 2 * Len(b) = Len(log) /\ base <= Len(log)
  BY <1>1, <1>2, <1>3
<1>5. CASE Len(b) = 0
  <2>1. base = Len(log)
    BY <1>2, <1>4, <1>5
  <2> QED BY <1>2, <2>1, WholePrefix
<1>6. CASE Len(b) # 0
  <2>1. WrittenBehind(log, b, Len(b), base, t)
    BY <1>1, <1>2, <1>3, <1>4 DEF WrittenBehind, Planned
  <2>2. log = SubSeq(log, 1, base) \o CallsOf(t, b) \o ResultsOf(t, b)
    BY <1>2, <1>4, <2>1, BatchCommits
  <2>3. Atomic!Commit(t, b)
    BY <2>2 DEF Atomic!Commit, Atomic!Item, CallsOf, ResultsOf, Entry
  <2>4. /\ Distinct(b) /\ Fits(t)
        /\ \A j \in DOMAIN log : log[j].call \in Elements(b) => j > base
    <3>1. FreshAt(t)
      BY DEF Fresh
    <3>2. Len(queue[t]) \in Nat /\ MaxBatch \in Nat
      BY ConstantsOK DEF TypeOK, ConstantsOK
    <3> QED BY <1>1, <1>2, <3>1, <3>2 DEF FreshAt, Fits
  <2>5. Len(b) \in 1..MaxBatch
    <3>1. \A q, n, m \in Nat : q + n <= m /\ n # 0 => n \in 1..m
      OBVIOUS
    <3> QED BY <1>6, <2>4, <3>1 DEF Fits
  <2>6. /\ DOMAIN Flushed = 1..base
        /\ \A j \in 1..base : Flushed[j] = log[j]
    <3>1. /\ SubSeq(log, 1, base) \in Seq(Entries) /\ Len(SubSeq(log, 1, base)) = base
          /\ \A j \in 1..base : SubSeq(log, 1, base)[j] = log[j]
      BY <1>2, <1>4, PrefixIs
    <3> QED BY <3>1
  <2>7. ASSUME NEW i \in DOMAIN b PROVE b[i] \in Calls \ Atomic!Answered
    <3>1. b[i] \in Calls /\ b[i] \in Elements(b)
      BY <1>2 DEF Elements
    <3>2. ASSUME NEW j \in DOMAIN Flushed, Flushed[j].call = b[i] PROVE FALSE
      <4>1. j \in 1..base /\ j \in DOMAIN log /\ log[j].call \in Elements(b)
        <5>1. j \in 1..base /\ Flushed[j] = log[j]
          BY <2>6
        <5>2. 1..base \subseteq 1..Len(log)
          BY <1>2, <1>4
        <5> QED BY <1>2, <3>1, <3>2, <5>1, <5>2
      <4>2. j > base
        BY <2>4, <4>1
      <4> QED BY <1>4, <4>1, <4>2
    <3> QED BY <3>1, <3>2 DEF Atomic!Answered
  <2>8. b \in Atomic!Answerable
    <3>1. b \in [1..Len(b) -> Calls \ Atomic!Answered]
      BY <1>2, <2>7
    <3>2. \A i, j \in 1..Len(b) : b[i] = b[j] => i = j
      BY <1>2, <2>4 DEF Distinct
    <3> QED BY <2>5, <3>1, <3>2 DEF Atomic!Answerable
  <2> QED BY <2>3, <2>8 DEF Atomic!Next
<1> QED BY <1>5, <1>6

\* Flushed while no flush is under way, and while one is: before a step ...
LEMMA FlushedIs ==
  ASSUME OneBusy
  PROVE  /\ (\A t \in Turns : pc[t] # "flush") => Flushed = log
         /\ \A t \in Turns : pc[t] = "flush" =>
              Flushed = SubSeq(log, 1, Len(log) - appended[t])
<1>1. Flushed = FlushedOf(log, pc, appended)
  BY DEF Flushed, FlushedOf
<1>2. \A t, u \in Turns : pc[t] = "flush" /\ pc[u] = "flush" => u = t
  BY DEF OneBusy, Busy
<1> QED BY <1>1, <1>2, FlushedAll, FlushedBut, ZenonT(30)

\* ... and after it.
LEMMA FlushedBecomes ==
  ASSUME OneBusy'
  PROVE  /\ (\A t \in Turns : pc'[t] # "flush") => Flushed' = log'
         /\ \A t \in Turns : pc'[t] = "flush" =>
              Flushed' = SubSeq(log', 1, Len(log') - appended'[t])
<1>1. Flushed' = FlushedOf(log', pc', appended')
  BY DEF Flushed, FlushedOf
<1>2. \A t, u \in Turns : pc'[t] = "flush" /\ pc'[u] = "flush" => u = t
  BY DEF OneBusy, Busy
<1> QED BY <1>1, <1>2, FlushedAll, FlushedBut, ZenonT(30)

\* A step of a turn adds to the flushed history what AtomicHistory allows, or
\* nothing.
LEMMA StepRefines ==
  ASSUME OneAtATime, "append" \notin Faults,
         TypeOK, Written, OneBusy, OneBusy', TailInFlight, Fresh,
         NEW t \in Turns, StepOf(t)
  PROVE  Atomic!Next \/ Flushed' = Flushed
<1>1. \A u \in Turns : u # t => pc[u] # "flush" /\ pc'[u] # "flush"
  BY StepsAlone DEF Busy
<1>2. CASE FlushEntry(t)
  <2>1. /\ pc[t] = "flush" /\ pc'[t] = "flush"
        /\ appended[t] \in Nat /\ Len(log) \in Nat
        /\ appended'[t] = appended[t] + 1 /\ Len(log') = Len(log) + 1
    BY <1>2, FlushAppends
  <2>2. PICK e \in Entries : log' = Append(log, e)
    BY <1>2, FlushEntryEffect
  <2>3. Len(log') - appended'[t] = Len(log) - appended[t]
    BY <2>1
  <2>4. log \in Seq(Entries) /\ Len(log) - appended[t] \in Nat /\ Len(log) - appended[t] <= Len(log)
    BY <2>1 DEF TypeOK, TailInFlight, InFlight
  <2>5. SubSeq(log', 1, Len(log) - appended[t]) = SubSeq(log, 1, Len(log) - appended[t])
    BY <2>2, <2>4, PrefixKept
  <2> QED BY <2>1, <2>3, <2>5, FlushedIs, FlushedBecomes
<1>3. CASE pc[t] = "flush" /\ ~FlushEntry(t)
  <2>1. FlushEnds(t)
    BY <1>3, FlushGoesOn
  <2>2. log' = log /\ pc'[t] # "flush"
    BY <2>1, FlushEndsEffect
  <2>3. Flushed' = log /\ Flushed = SubSeq(log, 1, Len(log) - appended[t])
    BY <1>1, <1>3, <2>2, FlushedIs, FlushedBecomes
  <2> QED BY <2>1, <2>3, FlushCommits
<1>4. CASE pc[t] # "flush" /\ pc'[t] = "flush"
  <2>1. ~FlushEntry(t)
    BY <1>4 DEF FlushEntry
  <2>2. appended'[t] = 0 /\ log' = log
    BY <1>4, <2>1, FlushStarts
  <2>3. log \in Seq(Entries) /\ Len(log) - 0 = Len(log)
    BY DEF TypeOK
  <2> QED BY <1>1, <1>4, <2>2, <2>3, WholePrefix, FlushedIs, FlushedBecomes
<1>5. CASE pc[t] # "flush" /\ pc'[t] # "flush"
  <2>1. ~FlushEntry(t)
    BY <1>5 DEF FlushEntry
  <2>2. Flushed = log /\ Flushed' = log'
    BY <1>1, <1>5, FlushedIs, FlushedBecomes
  <2>3. CASE log' = log
    BY <2>2, <2>3
  <2>4. CASE \E k \in {"block", "text"} : log' = Append(log, Entry(t, k, None))
    BY <2>2, <2>4, SaidIsSaid
  <2> QED BY <2>1, <2>3, <2>4, LogChanges
<1> QED BY <1>2, <1>3, <1>4, <1>5

\* With one turn at a time, pending calls submitted once and a store that does not
\* fail, the turn loop implements AtomicHistory: to whoever reads the log between
\* flushes, a batch is one addition (dispatch.rs, Buffer::flush).
THEOREM HistoryIsAtomic ==
  ASSUME OneAtATime, ~Retry, "append" \notin Faults
  PROVE  Spec => AtomicBatches
<1>1. Init => Atomic!Init
  <2> SUFFICES ASSUME Init PROVE Flushed = <<>>
    BY DEF Atomic!Init
  <2>1. log = <<>> /\ \A t \in Turns : pc[t] # "flush"
    BY DEF Init
  <2>2. Flushed = FlushedOf(log, pc, appended)
    BY DEF Flushed, FlushedOf
  <2> QED BY <2>1, <2>2, FlushedAll
<1>2. /\ TypeOK /\ Written /\ OneBusy /\ OneBusy' /\ TailInFlight /\ Fresh
      /\ [Next]_vars
      => [Atomic!Next]_Flushed
  <2> SUFFICES ASSUME TypeOK, Written, OneBusy, OneBusy', TailInFlight, Fresh, [Next]_vars
               PROVE  [Atomic!Next]_Flushed
    OBVIOUS
  <2>1. CASE UNCHANGED vars
    BY <2>1 DEF vars, Flushed
  <2>2. CASE \E t \in Turns : StepOf(t)
    BY <2>2, StepRefines
  <2> QED BY <2>1, <2>2, StepsOfTurns
<1>3. Spec => [](Written /\ ResultAfterCall)
  BY WrittenCorrect
<1> QED BY <1>1, <1>2, <1>3, TypeCorrect, OneBusyCorrect, TailCorrect, FreshCorrect, PTL
        DEF Spec, AtomicBatches, Atomic!Spec
=============================================================================
