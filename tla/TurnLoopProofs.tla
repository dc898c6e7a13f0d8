--------------------------- MODULE TurnLoopProofs ---------------------------
(***************************************************************************)
(* What the prompt/tool loop guarantees for any number of turns, sessions  *)
(* and calls that overlap in any way, with every collaborator free to fail *)
(* and consumers free to submit a call again: types, whose call a call is, *)
(* no Draft tool called without an allow decision of its own, no turn that *)
(* prompts past its budget, and no result stored before its call.          *)
(***************************************************************************)
EXTENDS TurnLoop, FiniteSetTheorems, SequenceTheorems, TLAPS

USE DEF loopVars, turnVars, callVars

-----------------------------------------------------------------------------
(* Lemmas about the operators the actions are built from.                   *)

\* A reply's calls form a sequence of calls no agent issued before.
LEMMA BatchIsSeq ==
  ASSUME NEW q \in Batches
  PROVE  /\ q \in Seq(Calls)
         /\ \A i \in DOMAIN q : q[i] \in Calls /\ owner[q[i]] = None
  BY DEF Batches, Issued

\* A turn moves from stage to stage only.
LEMMA GotoType ==
  ASSUME TypeOK, NEW t \in Turns, NEW s \in Stages, Goto(t, s)
  PROVE  pc' \in [Turns -> Stages]
  BY DEF TypeOK, Goto

\* An error leaves an empty queue and an empty buffer.
LEMMA FailType ==
  ASSUME TypeOK, NEW t \in Turns, Fail(t)
  PROVE  /\ pc' \in [Turns -> Stages]
         /\ queue' \in [Turns -> Seq(Calls)]
         /\ buf' \in [Turns -> Seq(Calls)]
         /\ appended' \in [Turns -> Nat]
  <1>1. pc' \in [Turns -> Stages]
    BY GotoType DEF Fail, Stages
  <1>2. queue' \in [Turns -> Seq(Calls)] /\ buf' \in [Turns -> Seq(Calls)]
    BY DEF Fail, TypeOK
  <1>3. appended' \in [Turns -> Nat]
    BY DEF Fail, TypeOK
  <1>4. QED
    BY <1>1, <1>2, <1>3

\* An entry appended to the log keeps it a log.
LEMMA AppendType ==
  ASSUME TypeOK, NEW t \in Turns, NEW k \in {"block", "text", "call", "result"},
         NEW c \in Calls \cup {None}, log' = Append(log, Entry(t, k, c))
  PROVE  log' \in Seq(Entries)
  <1>1. Entry(t, k, c) \in Entries
    BY DEF Entry, Entries
  <1>2. QED
    BY <1>1 DEF TypeOK

\* The head and the rest of a queue that is not empty.
LEMMA HeadType ==
  ASSUME TypeOK, NEW t \in Turns, queue[t] # <<>>
  PROVE  Head(queue[t]) \in Calls /\ Tail(queue[t]) \in Seq(Calls)
  BY DEF TypeOK

\* A decision leaves the loop's variables within their types.
LEMMA ApplyType ==
  ASSUME TypeOK, NEW t \in Turns, NEW o \in Decisions, NEW q \in Seq(Calls),
         q # <<>>, Apply(t, o, q)
  PROVE  /\ pc' \in [Turns -> Stages]
         /\ queue' \in [Turns -> Seq(Calls)]
         /\ fate' \in [Turns -> Fates]
         /\ allowed' \in [Calls -> Nat]
         /\ dropped' \subseteq Calls
  <1>1. AfterDecision(o) \in Stages
    BY DEF AfterDecision, Decisions, Stages
  <1>2. pc' \in [Turns -> Stages]
    BY <1>1, GotoType DEF Apply
  <1>3. queue' \in [Turns -> Seq(Calls)]
    BY DEF Apply, TypeOK
  <1>4. fate' \in [Turns -> Fates]
    BY DEF Apply, TypeOK, Fates
  <1>5. allowed' \in [Calls -> Nat]
    BY SMTT(30) DEF Apply, TypeOK
  <1>6. dropped' \subseteq Calls
    <2>1. {q[i] : i \in 2..Len(q)} \subseteq Calls
      OBVIOUS
    <2>2. dropped \subseteq Calls
      BY DEF TypeOK
    <2>3. dropped' = dropped \/ dropped' = dropped \cup {q[i] : i \in 2..Len(q)}
      BY DEF Apply
    <2>4. QED
      BY <2>1, <2>2, <2>3
  <1>7. QED
    BY <1>2, <1>3, <1>4, <1>5, <1>6

-----------------------------------------------------------------------------
\* The runtime and the consumer keep every variable within its type.
THEOREM TypeCorrect == Spec => []TypeOK
<1> USE ConstantsOK
<1>1. Init => TypeOK
  <2> SUFFICES ASSUME Init PROVE TypeOK
    OBVIOUS
  <2>1. /\ log \in Seq(Entries)
        /\ queue \in [Turns -> Seq(Calls)]
        /\ buf \in [Turns -> Seq(Calls)]
    BY DEF Init
  <2>2. /\ pc \in [Turns -> Stages]
        /\ fate \in [Turns -> Fates]
        /\ shown \in [Calls -> Statuses]
    BY DEF Init, Stages, Fates, Statuses
  <2>3. /\ iters \in [Turns -> 0..MaxToolIters]
        /\ answers \in [Turns -> 0..MaxAnswers]
    BY DEF Init, ConstantsOK
  <2>4. QED
    BY <2>1, <2>2, <2>3 DEF Init, TypeOK
<1>2. TypeOK /\ [Next]_vars => TypeOK'
  <2> SUFFICES ASSUME TypeOK PROVE [Next]_vars => TypeOK'
    OBVIOUS
  <2>1. ASSUME NEW t \in Turns, Handle(t) PROVE TypeOK'
    <3>1. pc' \in [Turns -> Stages]
      BY <2>1, GotoType DEF Handle, Stages
    <3>2. iters' \in [Turns -> 0..MaxToolIters]
      BY <2>1 DEF Handle, TypeOK, FreshBudget
    <3>3. QED
      BY <2>1, <3>1, <3>2 DEF Handle, TypeOK
  <2>2. ASSUME NEW t \in Turns, HandleUnknownAgent(t) PROVE TypeOK'
    <3>1. pc' \in [Turns -> Stages]
      BY <2>2, GotoType DEF HandleUnknownAgent, Stages
    <3>2. QED
      BY <2>2, <3>1 DEF HandleUnknownAgent, TypeOK
  <2>3. ASSUME NEW t \in Turns, AppendBlock(t) PROVE TypeOK'
    <3>1. log' \in Seq(Entries)
      BY <2>3, AppendType DEF AppendBlock
    <3>2. appended' \in [Turns -> Nat]
      BY <2>3, SMTT(30) DEF AppendBlock, TypeOK
    <3>3. QED
      BY <2>3, <3>1, <3>2 DEF AppendBlock, TypeOK
  <2>4. ASSUME NEW t \in Turns, MessageStored(t) PROVE TypeOK'
    <3>1. pc' \in [Turns -> Stages]
      BY <2>4, GotoType DEF MessageStored, Stages
    <3>2. appended' \in [Turns -> Nat]
      BY <2>4 DEF MessageStored, TypeOK
    <3>3. QED
      BY <2>4, <3>1, <3>2 DEF MessageStored, TypeOK
  <2>5. ASSUME NEW t \in Turns, Assemble(t) PROVE TypeOK'
    <3>1. pc' \in [Turns -> Stages]
      BY <2>5, GotoType DEF Assemble, Stages
    <3>2. iters' \in [Turns -> 0..MaxToolIters]
      BY <2>5, SMTT(30) DEF Assemble, TypeOK, SpendPrompt
    <3>3. rounds' \in [Turns -> Nat]
      BY <2>5 DEF Assemble, TypeOK
    <3>4. QED
      BY <2>5, <3>1, <3>2, <3>3 DEF Assemble, TypeOK
  <2>6. ASSUME NEW t \in Turns, Exceeded(t) PROVE TypeOK'
    <3>1. /\ pc' \in [Turns -> Stages]
          /\ queue' \in [Turns -> Seq(Calls)]
          /\ buf' \in [Turns -> Seq(Calls)]
          /\ appended' \in [Turns -> Nat]
      BY <2>6, FailType DEF Exceeded
    <3>2. QED
      BY <2>6, <3>1 DEF Exceeded, TypeOK
  <2>7. ASSUME NEW t \in Turns, NEW q \in Batches, NEW h \in BOOLEAN,
               AgentReplies(t, q, h)
        PROVE  TypeOK'
    <3>1. pc' \in [Turns -> Stages]
      BY <2>7, GotoType DEF AgentReplies, Stages
    <3>2. queue' \in [Turns -> Seq(Calls)]
      BY <2>7, BatchIsSeq DEF AgentReplies, TypeOK
    <3>3. owner' \in [Calls -> Turns \cup {None}]
      BY <2>7 DEF AgentReplies, TypeOK
    <3>4. round' \in [Calls -> Nat]
      BY <2>7 DEF AgentReplies, TypeOK
    <3>5. QED
      BY <2>7, <3>1, <3>2, <3>3, <3>4 DEF AgentReplies, TypeOK
  <2>8. ASSUME NEW t \in Turns, AgentFails(t) PROVE TypeOK'
    <3>1. /\ pc' \in [Turns -> Stages]
          /\ queue' \in [Turns -> Seq(Calls)]
          /\ buf' \in [Turns -> Seq(Calls)]
          /\ appended' \in [Turns -> Nat]
      BY <2>8, FailType DEF AgentFails
    <3>2. QED
      BY <2>8, <3>1 DEF AgentFails, TypeOK
  <2>9. ASSUME NEW t \in Turns, AppendText(t) PROVE TypeOK'
    <3>1. log' \in Seq(Entries)
      BY <2>9, AppendType DEF AppendText
    <3>2. pc' \in [Turns -> Stages]
      BY <2>9, GotoType DEF AppendText, Stages
    <3>3. QED
      BY <2>9, <3>1, <3>2 DEF AppendText, TypeOK
  <2>10. ASSUME NEW t \in Turns, EmitDone(t) PROVE TypeOK'
    <3>1. pc' \in [Turns -> Stages]
      BY <2>10, GotoType DEF EmitDone, Stages
    <3>2. QED
      BY <2>10, <3>1 DEF EmitDone, TypeOK
  <2>11. ASSUME NEW t \in Turns, NEW s \in {"completed", "failed"},
                queue[t] # <<>>, Settle(t, s)
        PROVE  TypeOK'
    <3>1. pc' \in [Turns -> Stages]
      BY <2>11, GotoType DEF Settle, Stages
    <3>2. queue' \in [Turns -> Seq(Calls)]
      BY <2>11, HeadType DEF Settle, Advance, TypeOK
    <3>3. buf' \in [Turns -> Seq(Calls)]
      <4>1. /\ buf \in [Turns -> Seq(Calls)]
            /\ Head(queue[t]) \in Calls
        BY <2>11, HeadType DEF TypeOK
      <4>2. buf' = [buf EXCEPT ![t] = Append(buf[t], Head(queue[t]))]
        BY <2>11 DEF Settle, Record
      <4>3. Append(buf[t], Head(queue[t])) \in Seq(Calls)
        BY <4>1
      <4>4. QED
        BY <4>1, <4>2, <4>3
    <3>4. shown' \in [Calls -> Statuses]
      BY <2>11, HeadType DEF Settle, TypeOK, Statuses
    <3>5. QED
      BY <2>11, <3>1, <3>2, <3>3, <3>4 DEF Settle, TypeOK
  <2>12. ASSUME NEW t \in Turns, DispatchRead(t) PROVE TypeOK'
    <3>1. pc' \in [Turns -> Stages]
      BY <2>12, GotoType DEF DispatchRead, Stages
    <3>2. QED
      BY <2>12, <3>1 DEF DispatchRead, TypeOK
  <2>13. ASSUME NEW t \in Turns, NEW o \in Decisions, PolicyResolves(t, o) PROVE TypeOK'
    <3>1. queue[t] \in Seq(Calls) /\ queue[t] # <<>>
      BY <2>13 DEF PolicyResolves, NeedsDecision, AtCall, TypeOK
    <3>2. /\ pc' \in [Turns -> Stages]
          /\ queue' \in [Turns -> Seq(Calls)]
          /\ fate' \in [Turns -> Fates]
          /\ allowed' \in [Calls -> Nat]
          /\ dropped' \subseteq Calls
      BY <2>13, <3>1, ApplyType DEF PolicyResolves
    <3>3. buf' \in [Turns -> Seq(Calls)]
      BY <2>13 DEF PolicyResolves, TypeOK
    <3>4. QED
      BY <2>13, <3>1, <3>2, <3>3 DEF PolicyResolves, TypeOK
  <2>14. ASSUME NEW t \in Turns, PolicyAsks(t) PROVE TypeOK'
    <3>1. pc' \in [Turns -> Stages]
      BY <2>14, GotoType DEF PolicyAsks, Stages
    <3>2. Head(queue[t]) \in Calls
      BY <2>14, HeadType DEF PolicyAsks, NeedsDecision, AtCall
    <3>3. shown' \in [Calls -> Statuses] /\ held' \in [Turns -> Calls \cup {None}]
      BY <2>14, <3>2 DEF PolicyAsks, TypeOK, Statuses
    <3>4. asked' \subseteq Calls /\ dropped' \subseteq Calls
      <4>1. queue[t] \in Seq(Calls) /\ asked \subseteq Calls /\ dropped \subseteq Calls
        BY DEF TypeOK
      <4>2. \A i \in 2..Len(queue[t]) : queue[t][i] \in Calls
        BY <4>1
      <4>3. QED
        BY <2>14, <3>2, <4>1, <4>2 DEF PolicyAsks
    <3>5. fate' \in [Turns -> Fates] /\ queue' \in [Turns -> Seq(Calls)]
      BY <2>14, SMTT(30) DEF PolicyAsks, TypeOK, Fates
    <3>6. QED
      BY <2>14, <3>1, <3>2, <3>3, <3>4, <3>5 DEF PolicyAsks, TypeOK
  <2>15. ASSUME NEW t \in Turns, PolicyFails(t) PROVE TypeOK'
    <3>1. /\ pc' \in [Turns -> Stages]
          /\ queue' \in [Turns -> Seq(Calls)]
          /\ buf' \in [Turns -> Seq(Calls)]
          /\ appended' \in [Turns -> Nat]
      BY <2>15, FailType DEF PolicyFails
    <3>2. QED
      BY <2>15, <3>1 DEF PolicyFails, TypeOK
  <2>16. ASSUME NEW t \in Turns, ReportInProgress(t) PROVE TypeOK'
    <3>1. pc' \in [Turns -> Stages]
      BY <2>16, GotoType DEF ReportInProgress, Stages
    <3>2. shown' \in [Calls -> Statuses]
      BY <2>16, HeadType DEF ReportInProgress, AtCall, TypeOK, Statuses
    <3>3. QED
      BY <2>16, <3>1, <3>2 DEF ReportInProgress, TypeOK
  <2>17. ASSUME NEW t \in Turns, CallTool(t) PROVE TypeOK'
    <3>1. pc' \in [Turns -> Stages]
      BY <2>17, GotoType DEF CallTool, Stages
    <3>2. ran' \in [Calls -> Nat]
      <4>1. ran \in [Calls -> Nat] /\ Head(queue[t]) \in Calls
        BY <2>17, HeadType DEF CallTool, AtCall, TypeOK
      <4>2. QED
        BY <2>17, <4>1 DEF CallTool
    <3>3. QED
      BY <2>17, <3>1, <3>2 DEF CallTool, TypeOK
  <2>18. ASSUME NEW t \in Turns, BatchEnds(t) PROVE TypeOK'
    <3>1. pc' \in [Turns -> Stages]
      BY <2>18, GotoType DEF BatchEnds, Stages
    <3>2. fate' \in [Turns -> Fates]
      BY <2>18 DEF BatchEnds, TypeOK, Fates
    <3>3. QED
      BY <2>18, <3>1, <3>2 DEF BatchEnds, TypeOK
  <2>19. ASSUME NEW t \in Turns, SinkFails(t) PROVE TypeOK'
    <3>1. /\ pc' \in [Turns -> Stages]
          /\ queue' \in [Turns -> Seq(Calls)]
          /\ buf' \in [Turns -> Seq(Calls)]
          /\ appended' \in [Turns -> Nat]
      BY <2>19, FailType DEF SinkFails
    <3>2. QED
      BY <2>19, <3>1 DEF SinkFails, TypeOK
  <2>20. ASSUME NEW t \in Turns, FlushEntry(t) PROVE TypeOK'
    <3>1. FlushItem(buf[t], appended[t] + 1) \in {"call", "result"} \X Calls
      <4>1. buf[t] \in Seq(Calls) /\ appended[t] \in Nat
        BY DEF TypeOK
      <4>2. appended[t] < 2 * Len(buf[t])
        BY <2>20 DEF FlushEntry
      <4>3. CASE appended[t] + 1 <= Len(buf[t])
        BY <4>1, <4>3 DEF FlushItem
      <4>4. CASE ~(appended[t] + 1 <= Len(buf[t]))
        <5>1. appended[t] + 1 - Len(buf[t]) \in 1..Len(buf[t])
          BY <4>1, <4>2, <4>4
        <5>2. QED
          BY <4>1, <4>4, <5>1 DEF FlushItem
      <4>5. QED
        BY <4>3, <4>4
    <3>2. log' \in Seq(Entries)
      BY <2>20, <3>1, AppendType DEF FlushEntry
    <3>3. appended' \in [Turns -> Nat]
      <4>1. appended \in [Turns -> Nat]
        BY DEF TypeOK
      <4>2. QED
        BY <2>20, <4>1 DEF FlushEntry
    <3>4. QED
      BY <2>20, <3>1, <3>2, <3>3 DEF FlushEntry, TypeOK
  <2>21. ASSUME NEW t \in Turns, FlushEnds(t) PROVE TypeOK'
    <3>1. AfterFlush(fate[t]) \in Stages
      BY <2>21 DEF AfterFlush, TypeOK, Fates, Stages
    <3>2. pc' \in [Turns -> Stages]
      BY <2>21, <3>1, GotoType DEF FlushEnds
    <3>3. buf' \in [Turns -> Seq(Calls)]
      BY <2>21 DEF FlushEnds, TypeOK
    <3>4. appended' \in [Turns -> Nat]
      BY <2>21 DEF FlushEnds, TypeOK
    <3>5. handed' \subseteq Calls \cup {None}
      BY <2>21 DEF FlushEnds, TypeOK
    <3>6. QED
      BY <2>21, <3>1, <3>2, <3>3, <3>4, <3>5 DEF FlushEnds, TypeOK
  <2>22. ASSUME NEW t \in Turns, AppendFails(t) PROVE TypeOK'
    <3>1. /\ pc' \in [Turns -> Stages]
          /\ queue' \in [Turns -> Seq(Calls)]
          /\ buf' \in [Turns -> Seq(Calls)]
          /\ appended' \in [Turns -> Nat]
      BY <2>22, FailType DEF AppendFails
    <3>2. UNCHANGED <<log, fate, iters, turnVars, callVars>>
      BY <2>22 DEF AppendFails
    <3>3. QED
      BY <3>1, <3>2 DEF TypeOK
  <2>23. ASSUME NEW t \in Turns, NEW p \in Calls, NEW o \in Decisions, Approve(t, p, o) PROVE TypeOK'
    <3>2. /\ pc' \in [Turns -> Stages]
          /\ queue' \in [Turns -> Seq(Calls)]
          /\ fate' \in [Turns -> Fates]
          /\ allowed' \in [Calls -> Nat]
          /\ dropped' \subseteq Calls
      <4>1. <<p>> \in Seq(Calls) /\ <<p>> # <<>>
        BY <2>23
      <4>2. Apply(t, o, <<p>>)
        BY <2>23 DEF Approve
      <4>3. QED
        BY <4>1, <4>2, ApplyType
    <3>3. answers' \in [Turns -> 0..MaxAnswers]
      <4>1. answers \in [Turns -> 0..MaxAnswers] /\ answers[t] < MaxAnswers
        BY <2>23 DEF Approve, MayApprove, TypeOK
      <4>2. QED
        BY <2>23, <4>1 DEF Approve, ConstantsOK
    <3>4. iters' \in [Turns -> 0..MaxToolIters]
      <4>1. iters \in [Turns -> 0..MaxToolIters] /\ MaxToolIters \in 0..MaxToolIters
        BY DEF TypeOK, ConstantsOK
      <4>2. QED
        BY <2>23, <4>1 DEF Approve, FreshBudget
    <3>5. QED
      BY <2>23, <3>2, <3>3, <3>4 DEF Approve, TypeOK
  <2>24. ASSUME NEW t \in Turns, NEW p \in Calls, ApproveUnknown(t, p) PROVE TypeOK'
    <3>1. pc' \in [Turns -> Stages]
      BY <2>24, GotoType DEF ApproveUnknown, Stages
    <3>2. answers' \in [Turns -> 0..MaxAnswers]
      <4>1. answers \in [Turns -> 0..MaxAnswers] /\ answers[t] < MaxAnswers
        BY <2>24 DEF ApproveUnknown, MayApprove, TypeOK
      <4>2. QED
        BY <2>24, <4>1 DEF ApproveUnknown, ConstantsOK
    <3>3. QED
      BY <2>24, <3>1, <3>2 DEF ApproveUnknown, TypeOK
  <2>25. CASE UNCHANGED vars
    BY <2>25 DEF TypeOK, vars
  <2>26. QED
    BY <2>1, <2>2, <2>3, <2>4, <2>5, <2>6, <2>7, <2>8, <2>9, <2>10, <2>11,
       <2>12, <2>13, <2>14, <2>15, <2>16, <2>17, <2>18, <2>19, <2>20, <2>21,
       <2>22, <2>23, <2>24, <2>25
       DEF vars, Next, RuntimeStep, ConsumerStep, Rest, AnswerUnfit, ReportResult,
           ReportRefusal, AtCall
<1>3. QED
  BY <1>1, <1>2, PTL DEF Spec

-----------------------------------------------------------------------------
(* Whose call a call is.  The calls a turn has queued are calls its own agent *)
(* issued, but for a pending call submitted again, which a human was asked    *)
(* about; and so is the call it is suspended at.                              *)

\* The turn's own call, or one that is submitted again.
TakenUp(t, c) == owner[c] = t \/ (Retry /\ c \in asked)

\* Every call in a turn's hands is one it may take up.
Attributed ==
  /\ \A t \in Turns : \A i \in DOMAIN queue[t] : TakenUp(t, queue[t][i])
  /\ \A t \in Turns : held[t] # None => TakenUp(t, held[t]) /\ held[t] \in asked
  /\ handed \subseteq asked \cup {None}

\* A turn may take up any such calls.
LEMMA AttributedQueue ==
  ASSUME TypeOK, Attributed, NEW t \in Turns, NEW q \in Seq(Calls),
         \A i \in DOMAIN q : TakenUp(t, q[i]),
         queue' = [queue EXCEPT ![t] = q], UNCHANGED <<owner, asked, held, handed>>
  PROVE  Attributed'
  BY DEF TypeOK, Attributed, TakenUp

\* An error takes up none.
LEMMA AttributedFail ==
  ASSUME TypeOK, Attributed, NEW t \in Turns, Fail(t),
         UNCHANGED <<owner, asked, held, handed>>
  PROVE  Attributed'
  <1>1. <<>> \in Seq(Calls) /\ \A i \in DOMAIN <<>> : TakenUp(t, <<>>[i])
    OBVIOUS
  <1>2. queue' = [queue EXCEPT ![t] = <<>>]
    BY DEF Fail
  <1>3. QED
    BY <1>1, <1>2, AttributedQueue

\* A decision leaves the calls it was given, or none.
LEMMA AttributedApply ==
  ASSUME TypeOK, Attributed, NEW t \in Turns, NEW o \in Decisions, NEW q \in Seq(Calls),
         \A i \in DOMAIN q : TakenUp(t, q[i]),
         Apply(t, o, q), UNCHANGED <<owner, asked, held, handed>>
  PROVE  Attributed'
  <1>1. CASE o \in {"allow", "reject"}
    <2>1. queue' = [queue EXCEPT ![t] = q]
      BY <1>1 DEF Apply
    <2>2. QED
      BY <2>1, AttributedQueue
  <1>2. CASE o \notin {"allow", "reject"}
    <2>1. queue' = [queue EXCEPT ![t] = <<>>]
      BY <1>2 DEF Apply
    <2>2. <<>> \in Seq(Calls) /\ \A i \in DOMAIN <<>> : TakenUp(t, <<>>[i])
      OBVIOUS
    <2>3. QED
      BY <2>1, <2>2, AttributedQueue
  <1>3. QED
    BY <1>1, <1>2

\* Every call in a turn's hands was issued to it, or handed out and submitted again.
THEOREM AttributedCorrect == Spec => []Attributed
<1> USE ConstantsOK
<1>1. Init => Attributed
  BY DEF Init, Attributed
<1>2. TypeOK /\ Attributed /\ [Next]_vars => Attributed'
  <2> SUFFICES ASSUME TypeOK, Attributed PROVE [Next]_vars => Attributed'
    OBVIOUS
  <2>1. ASSUME UNCHANGED <<queue, owner, asked, held, handed>> PROVE Attributed'
    BY <2>1 DEF Attributed, TakenUp
  <2>2. ASSUME NEW t \in Turns, NEW q \in Batches, NEW h \in BOOLEAN,
               AgentReplies(t, q, h)
        PROVE  Attributed'
    <3>1. /\ queue' = [queue EXCEPT ![t] = q]
          /\ owner' = [c \in Calls |->
                         IF \E i \in DOMAIN q : q[i] = c THEN t ELSE owner[c]]
          /\ UNCHANGED <<held, handed, asked>>
      BY <2>2 DEF AgentReplies
    <3>2. \A c \in Calls : owner[c] # None => owner'[c] = owner[c]
      BY <3>1, BatchIsSeq
    <3>3. \A i \in DOMAIN q : owner'[q[i]] = t
      BY <3>1, BatchIsSeq
    <3>4. ASSUME NEW u \in Turns, NEW i \in DOMAIN queue'[u]
          PROVE  TakenUp(u, queue[u][i])'
      <4>1. CASE u = t
        BY <3>1, <3>3, <3>4, <4>1 DEF TypeOK, TakenUp
      <4>2. CASE u # t
        <5>1. queue'[u] = queue[u]
          BY <3>1, <4>2 DEF TypeOK
        <5>2. queue[u][i] \in Calls /\ TakenUp(u, queue[u][i])
          BY <3>4, <5>1, SMTT(30) DEF TypeOK, Attributed
        <5>3. u # None
          BY DEF ConstantsOK
        <5>4. QED
          BY <3>1, <3>2, <5>1, <5>2, <5>3 DEF TakenUp
      <4>3. QED
        BY <4>1, <4>2
    <3>5. ASSUME NEW u \in Turns, held'[u] # None
          PROVE  TakenUp(u, held[u])' /\ held'[u] \in asked'
      <4>1. held[u] \in Calls /\ TakenUp(u, held[u]) /\ held[u] \in asked
        BY <3>1, <3>5 DEF TypeOK, Attributed
      <4>2. u # None
        BY DEF ConstantsOK
      <4>3. QED
        BY <3>1, <3>2, <4>1, <4>2 DEF TakenUp
    <3>6. QED
      BY <3>1, <3>4, <3>5 DEF Attributed
  <2>3. ASSUME NEW t \in Turns, NEW s, queue[t] # <<>>, Settle(t, s) PROVE Attributed'
    <3>1. Tail(queue[t]) \in Seq(Calls)
      BY <2>3, HeadType
    <3>2. \A i \in DOMAIN Tail(queue[t]) : TakenUp(t, Tail(queue[t])[i])
      <4>1. queue[t] \in Seq(Calls) /\ \A i \in DOMAIN queue[t] : TakenUp(t, queue[t][i])
        BY DEF TypeOK, Attributed
      <4>2. Len(queue[t]) \in Nat \ {0}
        BY <2>3, <4>1
      <4>3. ASSUME NEW i \in DOMAIN Tail(queue[t]) PROVE TakenUp(t, Tail(queue[t])[i])
        <5>1. Tail(queue[t])[i] = queue[t][i + 1] /\ i + 1 \in DOMAIN queue[t]
          BY <2>3, <4>1, <4>2, <4>3
        <5>2. QED
          BY <4>1, <5>1
      <4>4. QED
        BY <4>3
    <3>3. /\ queue' = [queue EXCEPT ![t] = Tail(queue[t])]
          /\ UNCHANGED <<owner, asked, held, handed>>
      BY <2>3 DEF Settle, Advance
    <3>4. QED
      BY <3>1, <3>2, <3>3, AttributedQueue
  <2>4. ASSUME NEW t \in Turns, NEW o \in Decisions, PolicyResolves(t, o) PROVE Attributed'
    <3>1. queue[t] \in Seq(Calls) /\ \A i \in DOMAIN queue[t] : TakenUp(t, queue[t][i])
      BY DEF TypeOK, Attributed
    <3>2. Apply(t, o, queue[t]) /\ UNCHANGED <<owner, asked, held, handed>>
      BY <2>4 DEF PolicyResolves
    <3>3. QED
      BY <3>1, <3>2, AttributedApply
  <2>5. ASSUME NEW t \in Turns, PolicyAsks(t) PROVE Attributed'
    <3>1. queue[t] # <<>>
      BY <2>5 DEF PolicyAsks, NeedsDecision, AtCall
    <3>2. TakenUp(t, Head(queue[t]))
      BY <3>1, SMTT(30) DEF TypeOK, Attributed
    <3>3. /\ queue' = [queue EXCEPT ![t] = <<>>]
          /\ held' = [held EXCEPT ![t] = Head(queue[t])]
          /\ asked' = asked \cup {Head(queue[t])}
          /\ UNCHANGED <<owner, handed>>
      BY <2>5 DEF PolicyAsks
    <3>4. \A u, c : TakenUp(u, c) => TakenUp(u, c)'
      BY <3>3 DEF TakenUp
    <3>5. ASSUME NEW u \in Turns, NEW i \in DOMAIN queue'[u] PROVE TakenUp(u, queue[u][i])'
      <4>1. u # t /\ queue'[u] = queue[u]
        BY <3>3, <3>5 DEF TypeOK
      <4>2. TakenUp(u, queue[u][i])
        BY <3>5, <4>1 DEF Attributed
      <4>3. QED
        BY <3>3, <4>1, <4>2 DEF TakenUp
    <3>6. ASSUME NEW u \in Turns, held'[u] # None
          PROVE  TakenUp(u, held[u])' /\ held'[u] \in asked'
      <4>1. CASE u = t
        <5>1. held'[u] = Head(queue[t])
          BY <3>3, <4>1 DEF TypeOK
        <5>2. QED
          BY <3>2, <3>3, <4>1, <5>1 DEF TakenUp
      <4>2. CASE u # t
        <5>1. held'[u] = held[u]
          BY <3>3, <4>2 DEF TypeOK
        <5>2. TakenUp(u, held[u]) /\ held[u] \in asked
          BY <3>6, <5>1 DEF Attributed
        <5>3. QED
          BY <3>3, <5>1, <5>2 DEF TakenUp
      <4>3. QED
        BY <4>1, <4>2
    <3>7. QED
      BY <3>3, <3>5, <3>6 DEF Attributed
  <2>6. ASSUME NEW t \in Turns, NEW p \in Calls, NEW o \in Decisions, Approve(t, p, o)
        PROVE  Attributed'
    <3>1. TakenUp(t, p)
      <4>1. p # None
        BY DEF ConstantsOK
      <4>2. p = held[t] \/ (Retry /\ p \in handed)
        BY <2>6 DEF Approve, MayApprove
      <4>3. QED
        BY <4>1, <4>2 DEF Attributed, TakenUp
    <3>2. <<p>> \in Seq(Calls) /\ \A i \in DOMAIN <<p>> : TakenUp(t, <<p>>[i])
      BY <3>1
    <3>3. Apply(t, o, <<p>>) /\ UNCHANGED <<owner, asked, held, handed>>
      BY <2>6 DEF Approve
    <3>4. QED
      BY <3>2, <3>3, AttributedApply
  <2>7. ASSUME NEW t \in Turns,
               \/ Exceeded(t) \/ AgentFails(t) \/ PolicyFails(t)
               \/ SinkFails(t) \/ AppendFails(t)
        PROVE  Attributed'
    <3>1. Fail(t) /\ UNCHANGED <<owner, asked, held, handed>>
      BY <2>7 DEF Exceeded, AgentFails, PolicyFails, SinkFails, AppendFails
    <3>2. QED
      BY <3>1, AttributedFail
  <2>8. ASSUME NEW t \in Turns,
               \/ Handle(t) \/ HandleUnknownAgent(t) \/ AppendBlock(t)
               \/ MessageStored(t) \/ Assemble(t) \/ AppendText(t) \/ EmitDone(t)
               \/ DispatchRead(t) \/ ReportInProgress(t) \/ CallTool(t)
               \/ BatchEnds(t) \/ FlushEntry(t) \/ \E p \in Calls : ApproveUnknown(t, p)
        PROVE  UNCHANGED <<queue, owner, asked, held, handed>>
    BY <2>8
       DEF Handle, HandleUnknownAgent, AppendBlock, MessageStored, Assemble,
           AppendText, EmitDone, DispatchRead, ReportInProgress, CallTool,
           BatchEnds, FlushEntry, ApproveUnknown
  <2>9. CASE UNCHANGED vars
    BY <2>1, <2>9 DEF vars
  <2>10. ASSUME NEW t \in Turns, FlushEnds(t) PROVE Attributed'
    <3>1. /\ UNCHANGED <<queue, owner, asked, held>>
          /\ handed' = IF fate[t] = "Suspended" THEN handed \cup {held[t]} ELSE handed
      BY <2>10 DEF FlushEnds
    <3>2. handed' \subseteq asked \cup {None}
      BY <3>1 DEF Attributed
    <3>3. QED
      BY <3>1, <3>2 DEF Attributed, TakenUp
  <2>11. QED
    BY <2>1, <2>2, <2>3, <2>4, <2>5, <2>6, <2>7, <2>10, <2>8, <2>9
       DEF vars, Next, RuntimeStep, ConsumerStep, Rest, AnswerUnfit, ReportResult,
           ReportRefusal, AtCall
<1>3. QED
  BY <1>1, <1>2, TypeCorrect, PTL DEF Spec

\* When each pending call is submitted once, every call in a turn's hands is its
\* own, and no two turns ever have the same call in hand.
Owned ==
  /\ \A t \in Turns : \A i \in DOMAIN queue[t] : owner[queue[t][i]] = t
  /\ \A t \in Turns : held[t] # None => owner[held[t]] = t

\* No turn processes another turn's call, for a consumer that submits each pending
\* call once (run_batch, Manch::approve).
THEOREM OwnedCorrect == ASSUME ~Retry PROVE Spec => []Owned
<1>1. ASSUME ~Retry PROVE Attributed => Owned
  BY <1>1 DEF Attributed, TakenUp, Owned
<1> QED BY <1>1, AttributedCorrect, PTL

-----------------------------------------------------------------------------
(* Consent.                                                                *)

\* Turn t is about to call the tool of c.
Armed(t, c) ==
  pc[t] \in {"starting", "calling"} /\ queue[t] # <<>> /\ Head(queue[t]) = c

\* The turns that are about to; more than one if a call is submitted again.
ArmedBy(c) == {t \in Turns : Armed(t, c)}

\* The inductive strengthening of ConsentBacked: there are allow decisions left
\* for as many turns as are about to run a Draft call.
Licensed ==
  \A c \in Calls : TierOf[c] = "Draft" =>
    IsFiniteSet(ArmedBy(c)) /\ ran[c] + Cardinality(ArmedBy(c)) <= allowed[c]

\* A step that calls no tool, takes back no decision and arms no Draft call.
LEMMA LicensedQuiet ==
  ASSUME TypeOK, TypeOK', Licensed, ran' = ran,
         \A c \in Calls : allowed[c] <= allowed'[c],
         \A t \in Turns, c \in Calls : TierOf[c] = "Draft" /\ Armed(t, c)' => Armed(t, c)
  PROVE  Licensed'
  <1> SUFFICES ASSUME NEW c \in Calls, TierOf[c] = "Draft"
               PROVE  /\ IsFiniteSet(ArmedBy(c)')
                      /\ ran'[c] + Cardinality(ArmedBy(c)') <= allowed'[c]
    BY DEF Licensed
  <1>1. ran[c] \in Nat /\ allowed[c] \in Nat /\ allowed'[c] \in Nat /\ allowed[c] <= allowed'[c]
    BY DEF TypeOK
  <1>2. IsFiniteSet(ArmedBy(c)) /\ ran[c] + Cardinality(ArmedBy(c)) <= allowed[c]
    BY DEF Licensed
  <1>3. ArmedBy(c)' \in SUBSET ArmedBy(c)
    BY DEF ArmedBy
  <1>4. IsFiniteSet(ArmedBy(c)') /\ Cardinality(ArmedBy(c)') <= Cardinality(ArmedBy(c))
    BY <1>2, <1>3, FS_Subset
  <1>5. Cardinality(ArmedBy(c)) \in Nat /\ Cardinality(ArmedBy(c)') \in Nat
    BY <1>2, <1>4, FS_CardinalityType
  <1>6. QED
    BY <1>1, <1>2, <1>4, <1>5

\* A turn that goes to any other stage arms no call.
LEMMA LicensedMove ==
  ASSUME TypeOK, TypeOK', Licensed, ran' = ran,
         \A c \in Calls : allowed[c] <= allowed'[c],
         NEW t \in Turns, NEW s, s \notin {"starting", "calling"}, Goto(t, s),
         \A u \in Turns : u # t => queue'[u] = queue[u]
  PROVE  Licensed'
  <1>1. ASSUME NEW u \in Turns, NEW c \in Calls, Armed(u, c)' PROVE Armed(u, c)
    <2>1. u # t
      BY <1>1 DEF Armed, Goto, TypeOK
    <2>2. pc'[u] = pc[u] /\ queue'[u] = queue[u]
      BY <2>1 DEF Goto, TypeOK
    <2>3. QED
      BY <1>1, <2>2 DEF Armed
  <1>2. QED
    BY <1>1, LicensedQuiet

\* A decision arms a call only together with the permission to run it.
LEMMA LicensedApply ==
  ASSUME TypeOK, TypeOK', Licensed, NEW t \in Turns, NEW o \in Decisions,
         NEW q \in Seq(Calls), q # <<>>, Apply(t, o, q), ran' = ran
  PROVE  Licensed'
  <1>1. allowed' = [allowed EXCEPT ![Head(q)] = IF o = "allow" THEN @ + 1 ELSE @]
    BY DEF Apply
  <1>2. Head(q) \in Calls
    OBVIOUS
  <1>3. allowed \in [Calls -> Nat]
    BY DEF TypeOK
  <1>4. \A c \in Calls : allowed[c] <= allowed'[c]
    BY <1>1, <1>2, <1>3
  <1>5. \A u \in Turns : u # t => queue'[u] = queue[u]
    BY DEF Apply, TypeOK
  <1>6. CASE o # "allow"
    <2>1. AfterDecision(o) \notin {"starting", "calling"}
      BY <1>6 DEF AfterDecision, Decisions
    <2>2. Goto(t, AfterDecision(o))
      BY DEF Apply
    <2>3. QED
      BY <1>4, <1>5, <2>1, <2>2, LicensedMove
  <1>7. CASE o = "allow"
    <2> SUFFICES ASSUME NEW c \in Calls, TierOf[c] = "Draft"
                 PROVE  /\ IsFiniteSet(ArmedBy(c)')
                        /\ ran'[c] + Cardinality(ArmedBy(c)') <= allowed'[c]
      BY DEF Licensed
    <2>1. /\ ran[c] \in Nat /\ allowed[c] \in Nat /\ allowed'[c] \in Nat
          /\ IsFiniteSet(ArmedBy(c)) /\ ran[c] + Cardinality(ArmedBy(c)) <= allowed[c]
      BY DEF TypeOK, Licensed
    <2>2. \A u \in Turns : u # t /\ Armed(u, c)' => Armed(u, c)
      <3>1. \A u \in Turns : u # t => pc'[u] = pc[u]
        BY DEF Apply, Goto, TypeOK
      <3>2. QED
        BY <1>5, <3>1 DEF Armed
    <2>3. CASE c = Head(q)
      <3>1. allowed'[c] = allowed[c] + 1
        BY <1>1, <1>3, <1>7, <2>3
      <3>2. ArmedBy(c)' \in SUBSET (ArmedBy(c) \cup {t})
        BY <2>2 DEF ArmedBy
      <3>3. /\ IsFiniteSet(ArmedBy(c) \cup {t})
            /\ Cardinality(ArmedBy(c) \cup {t}) <= Cardinality(ArmedBy(c)) + 1
        <4>1. Cardinality(ArmedBy(c)) \in Nat
          BY <2>1, FS_CardinalityType
        <4>2. /\ IsFiniteSet(ArmedBy(c) \cup {t})
              /\ Cardinality(ArmedBy(c) \cup {t}) =
                   IF t \in ArmedBy(c) THEN Cardinality(ArmedBy(c))
                   ELSE Cardinality(ArmedBy(c)) + 1
          BY <2>1, FS_AddElement
        <4>3. QED
          BY <4>1, <4>2
      <3>4. /\ IsFiniteSet(ArmedBy(c)')
            /\ Cardinality(ArmedBy(c)') <= Cardinality(ArmedBy(c) \cup {t})
        BY <3>2, <3>3, FS_Subset
      <3>5. /\ Cardinality(ArmedBy(c)) \in Nat /\ Cardinality(ArmedBy(c)') \in Nat
            /\ Cardinality(ArmedBy(c) \cup {t}) \in Nat
        BY <2>1, <3>3, <3>4, FS_CardinalityType
      <3>6. QED
        BY <2>1, <3>1, <3>3, <3>4, <3>5
    <2>4. CASE c # Head(q)
      <3>1. allowed'[c] = allowed[c]
        BY <1>1, <1>3, <2>4
      <3>2. queue'[t] = q
        BY <1>7 DEF Apply, TypeOK
      <3>3. ~Armed(t, c)'
        BY <2>4, <3>2 DEF Armed
      <3>4. ArmedBy(c)' \in SUBSET ArmedBy(c)
        BY <2>2, <3>3 DEF ArmedBy
      <3>5. IsFiniteSet(ArmedBy(c)') /\ Cardinality(ArmedBy(c)') <= Cardinality(ArmedBy(c))
        BY <2>1, <3>4, FS_Subset
      <3>6. Cardinality(ArmedBy(c)) \in Nat /\ Cardinality(ArmedBy(c)') \in Nat
        BY <2>1, <3>5, FS_CardinalityType
      <3>7. QED
        BY <2>1, <3>1, <3>5, <3>6
    <2>5. QED
      BY <2>3, <2>4
  <1>8. QED
    BY <1>6, <1>7

\* The call at the head of a turn's queue was issued to that turn.
LEMMA OwnedHead ==
  ASSUME TypeOK, Owned, NEW t \in Turns, queue[t] # <<>>
  PROVE  owner[Head(queue[t])] = t
  <1>1. queue[t] \in Seq(Calls) /\ \A i \in DOMAIN queue[t] : owner[queue[t][i]] = t
    BY DEF TypeOK, Owned
  <1>2. 1 \in DOMAIN queue[t] /\ Head(queue[t]) = queue[t][1]
    BY <1>1
  <1>3. QED
    BY <1>1, <1>2

\* A call spends one of the decisions behind it.
LEMMA LicensedCallTool ==
  ASSUME TypeOK, TypeOK', Licensed, NEW t \in Turns, CallTool(t)
  PROVE  Licensed'
  <1> DEFINE d == Head(queue[t])
  <1>1. d \in Calls /\ Armed(t, d)
    <2>1. pc[t] = "calling" /\ queue[t] # <<>>
      BY DEF CallTool, AtCall
    <2>2. QED
      BY <2>1, HeadType DEF Armed
  <1>2. /\ ran' = [ran EXCEPT ![d] = @ + 1] /\ ran \in [Calls -> Nat]
        /\ allowed' = allowed /\ allowed \in [Calls -> Nat]
    BY DEF CallTool, callVars, TypeOK
  <1>3. \A c \in Calls : ~Armed(t, c)'
    BY DEF Armed, CallTool, Goto, TypeOK
  <1>4. \A u \in Turns, c \in Calls : u # t /\ Armed(u, c)' => Armed(u, c)
    BY DEF Armed, CallTool, Goto, TypeOK
  <1> HIDE DEF d
  <1> SUFFICES ASSUME NEW c \in Calls, TierOf[c] = "Draft"
               PROVE  /\ IsFiniteSet(ArmedBy(c)')
                      /\ ran'[c] + Cardinality(ArmedBy(c)') <= allowed'[c]
    BY DEF Licensed
  <1>5. /\ ran[c] \in Nat /\ allowed[c] \in Nat /\ allowed'[c] = allowed[c]
        /\ IsFiniteSet(ArmedBy(c)) /\ ran[c] + Cardinality(ArmedBy(c)) <= allowed[c]
    BY <1>2 DEF Licensed
  <1>6. ArmedBy(c)' \in SUBSET (ArmedBy(c) \ {t})
    BY <1>3, <1>4 DEF ArmedBy
  <1>7. /\ IsFiniteSet(ArmedBy(c) \ {t})
        /\ Cardinality(ArmedBy(c) \ {t}) =
             IF t \in ArmedBy(c) THEN Cardinality(ArmedBy(c)) - 1 ELSE Cardinality(ArmedBy(c))
    BY <1>5, FS_RemoveElement
  <1>8. /\ IsFiniteSet(ArmedBy(c)')
        /\ Cardinality(ArmedBy(c)') <= Cardinality(ArmedBy(c) \ {t})
    BY <1>6, <1>7, FS_Subset
  <1>9. /\ Cardinality(ArmedBy(c)) \in Nat /\ Cardinality(ArmedBy(c)') \in Nat
        /\ Cardinality(ArmedBy(c) \ {t}) \in Nat
    BY <1>5, <1>7, <1>8, FS_CardinalityType
  <1>10. CASE c = d
    <2>1. t \in ArmedBy(c)
      BY <1>1, <1>10 DEF ArmedBy
    <2>2. ran'[c] = ran[c] + 1
      BY <1>1, <1>2, <1>10
    <2>3. QED
      BY <1>5, <1>7, <1>8, <1>9, <2>1, <2>2
  <1>11. CASE c # d
    <2>1. ran'[c] = ran[c]
      BY <1>1, <1>2, <1>11
    <2>2. QED
      BY <1>5, <1>7, <1>8, <1>9, <2>1
  <1>12. QED
    BY <1>10, <1>11

\* Licensed holds whatever overlaps, fails or is submitted again.
THEOREM LicensedCorrect == Spec => []Licensed
<1> USE ConstantsOK
<1>1. Init => Licensed
  <2> SUFFICES ASSUME Init PROVE Licensed
    OBVIOUS
  <2>1. \A c \in Calls : ArmedBy(c) = {}
    BY DEF Init, ArmedBy, Armed
  <2>2. \A c \in Calls : ran[c] = 0 /\ allowed[c] = 0
    BY DEF Init
  <2>3. QED
    BY <2>1, <2>2, FS_EmptySet DEF Licensed
<1>2. TypeOK /\ TypeOK' /\ Licensed /\ [Next]_vars => Licensed'
  <2> SUFFICES ASSUME TypeOK, TypeOK', Licensed PROVE [Next]_vars => Licensed'
    OBVIOUS
  <2>0. \A c \in Calls : allowed[c] <= allowed[c]
    BY DEF TypeOK
  <2>1. ASSUME UNCHANGED <<pc, queue, ran, allowed>> PROVE Licensed'
    <3>1. \A t, c : Armed(t, c)' <=> Armed(t, c)
      BY <2>1 DEF Armed
    <3>2. QED
      BY <2>0, <2>1, <3>1, LicensedQuiet
  <2>2. ASSUME NEW t \in Turns, NEW s, s \notin {"starting", "calling"}, Goto(t, s),
               \A u \in Turns : u # t => queue'[u] = queue[u],
               ran' = ran, allowed' = allowed
        PROVE  Licensed'
    BY <2>0, <2>2, LicensedMove
  <2>3. ASSUME NEW t \in Turns,
               \/ Handle(t) \/ HandleUnknownAgent(t) \/ MessageStored(t) \/ Assemble(t)
               \/ AppendText(t) \/ EmitDone(t) \/ BatchEnds(t)
               \/ \E p \in Calls : ApproveUnknown(t, p)
        PROVE  Licensed'
    <3>1. /\ \E s : s \notin {"starting", "calling"} /\ Goto(t, s)
          /\ queue' = queue /\ ran' = ran /\ allowed' = allowed
      BY <2>3 DEF Handle, HandleUnknownAgent, MessageStored, Assemble, AppendText,
                  EmitDone, BatchEnds, ApproveUnknown
    <3>2. QED
      BY <2>2, <3>1
  <2>4. ASSUME NEW t \in Turns, FlushEnds(t) PROVE Licensed'
    <3>1. AfterFlush(fate[t]) \notin {"starting", "calling"}
      <4>1. fate[t] \in Fates
        BY DEF TypeOK
      <4>2. QED
        BY <4>1 DEF AfterFlush, Fates
    <3>2. Goto(t, AfterFlush(fate[t])) /\ queue' = queue /\ ran' = ran /\ allowed' = allowed
      BY <2>4 DEF FlushEnds
    <3>3. QED
      BY <2>2, <3>1, <3>2
  <2>5. ASSUME NEW t \in Turns,
               \/ Exceeded(t) \/ AgentFails(t) \/ PolicyFails(t)
               \/ SinkFails(t) \/ AppendFails(t)
        PROVE  Licensed'
    <3>1. Fail(t) /\ ran' = ran /\ allowed' = allowed
      BY <2>5 DEF Exceeded, AgentFails, PolicyFails, SinkFails, AppendFails
    <3>2. Goto(t, "failed") /\ \A u \in Turns : u # t => queue'[u] = queue[u]
      BY <3>1 DEF Fail, TypeOK
    <3>3. QED
      BY <2>2, <3>1, <3>2
  <2>6. ASSUME NEW t \in Turns, NEW s, Settle(t, s) PROVE Licensed'
    <3>1. Goto(t, "batch") /\ ran' = ran /\ allowed' = allowed
      BY <2>6 DEF Settle
    <3>2. \A u \in Turns : u # t => queue'[u] = queue[u]
      BY <2>6 DEF Settle, TypeOK
    <3>3. QED
      BY <2>2, <3>1, <3>2
  <2>7. ASSUME NEW t \in Turns, NEW q \in Batches, NEW h \in BOOLEAN,
               AgentReplies(t, q, h)
        PROVE  Licensed'
    <3>1. /\ \E s : s \notin {"starting", "calling"} /\ Goto(t, s)
          /\ ran' = ran /\ allowed' = allowed
      BY <2>7 DEF AgentReplies
    <3>2. \A u \in Turns : u # t => queue'[u] = queue[u]
      BY <2>7 DEF AgentReplies, TypeOK
    <3>3. QED
      BY <2>2, <3>1, <3>2
  <2>8. ASSUME NEW t \in Turns, PolicyAsks(t) PROVE Licensed'
    <3>1. Goto(t, "flush") /\ ran' = ran /\ allowed' = allowed
      BY <2>8 DEF PolicyAsks
    <3>2. \A u \in Turns : u # t => queue'[u] = queue[u]
      BY <2>8 DEF PolicyAsks, TypeOK
    <3>3. QED
      BY <2>2, <3>1, <3>2
  <2>9. ASSUME NEW t \in Turns, AppendBlock(t) \/ FlushEntry(t) PROVE Licensed'
    BY <2>1, <2>9 DEF AppendBlock, FlushEntry
  <2>10. ASSUME NEW t \in Turns, DispatchRead(t) PROVE Licensed'
    <3>1. /\ TierOf[Head(queue[t])] # "Draft" /\ queue' = queue
          /\ Goto(t, "starting") /\ ran' = ran /\ allowed' = allowed
      BY <2>10 DEF DispatchRead, RunsUnasked
    <3>2. \A u \in Turns : u # t => pc'[u] = pc[u]
      BY <3>1 DEF Goto, TypeOK
    <3>3. \A u \in Turns, c \in Calls :
            TierOf[c] = "Draft" /\ Armed(u, c)' => Armed(u, c)
      BY <3>1, <3>2 DEF Armed
    <3>4. QED
      BY <2>0, <3>1, <3>3, LicensedQuiet
  <2>11. ASSUME NEW t \in Turns, ReportInProgress(t) PROVE Licensed'
    <3>1. /\ pc[t] = "starting" /\ queue' = queue
          /\ Goto(t, "calling") /\ ran' = ran /\ allowed' = allowed
      BY <2>11 DEF ReportInProgress, AtCall
    <3>2. \A u \in Turns : u # t => pc'[u] = pc[u]
      BY <3>1 DEF Goto, TypeOK
    <3>3. \A u \in Turns, c \in Calls : Armed(u, c)' => Armed(u, c)
      BY <3>1, <3>2 DEF Armed
    <3>4. QED
      BY <2>0, <3>1, <3>3, LicensedQuiet
  <2>12. ASSUME NEW t \in Turns, NEW o \in Decisions, PolicyResolves(t, o)
         PROVE  Licensed'
    <3>1. /\ queue[t] \in Seq(Calls) /\ queue[t] # <<>>
          /\ Apply(t, o, queue[t]) /\ ran' = ran
      BY <2>12 DEF PolicyResolves, NeedsDecision, AtCall, TypeOK
    <3>2. QED
      BY <3>1, LicensedApply
  <2>13. ASSUME NEW t \in Turns, NEW p \in Calls, NEW o \in Decisions, Approve(t, p, o) PROVE Licensed'
    <3>1. Apply(t, o, <<p>>) /\ ran' = ran
      BY <2>13 DEF Approve
    <3>2. <<p>> \in Seq(Calls) /\ <<p>> # <<>>
      BY <2>13
    <3>3. QED
      BY <3>1, <3>2, LicensedApply
  <2>14. CASE UNCHANGED vars
    BY <2>1, <2>14 DEF vars
  <2>15. QED
    BY <2>1, <2>3, <2>4, <2>5, <2>6, <2>7, <2>8, <2>9, <2>10, <2>11, <2>12, <2>13,
       <2>14, LicensedCallTool
       DEF vars, Next, RuntimeStep, ConsumerStep, Rest, AnswerUnfit, ReportResult,
           ReportRefusal
<1>3. QED
  BY <1>1, <1>2, TypeCorrect, PTL DEF Spec

\* A Draft tool is never called without an allow decision of its own
\* (Manch::run_batch, Manch::approve and dispatch::apply).
THEOREM ConsentHolds == Spec => []ConsentBacked
<1>1. TypeOK /\ Licensed => ConsentBacked
  <2> SUFFICES ASSUME TypeOK, Licensed, NEW c \in Calls, TierOf[c] = "Draft"
               PROVE  ran[c] <= allowed[c]
    BY DEF ConsentBacked
  <2>1. /\ ran[c] \in Nat /\ allowed[c] \in Nat
        /\ IsFiniteSet(ArmedBy(c)) /\ ran[c] + Cardinality(ArmedBy(c)) <= allowed[c]
    BY DEF TypeOK, Licensed
  <2>2. Cardinality(ArmedBy(c)) \in Nat
    BY <2>1, FS_CardinalityType
  <2>3. QED
    BY <2>1, <2>2
<1>2. QED
  BY <1>1, TypeCorrect, LicensedCorrect, PTL

-----------------------------------------------------------------------------
\* The inductive strengthening of UnattendedBudget: what was prompted and what
\* this call may still prompt are within what handle and the answers granted.
BudgetKept ==
  \A t \in Turns :
    /\ rounds[t] + iters[t] <= MaxToolIters * (1 + answers[t])
    /\ pc[t] = "idle" => rounds[t] = 0 /\ answers[t] = 0

\* A step that spends and grants nothing.
LEMMA BudgetQuiet ==
  ASSUME TypeOK, BudgetKept, NEW t \in Turns, NEW s, s # "idle", Goto(t, s),
         UNCHANGED <<iters, rounds, answers>>
  PROVE  BudgetKept'
  <1>1. \A u \in Turns : pc'[u] = "idle" => pc[u] = "idle"
    BY DEF Goto, TypeOK
  <1>2. QED
    BY <1>1 DEF BudgetKept

\* BudgetKept holds whatever overlaps, fails or is submitted again.
THEOREM BudgetCorrect == Spec => []BudgetKept
<1> USE ConstantsOK
<1>1. Init => BudgetKept
  <2> SUFFICES ASSUME Init, NEW t \in Turns
               PROVE  rounds[t] + iters[t] <= MaxToolIters * (1 + answers[t])
                      /\ (pc[t] = "idle" => rounds[t] = 0 /\ answers[t] = 0)
    BY DEF BudgetKept
  <2>1. rounds[t] = 0 /\ iters[t] = 0 /\ answers[t] = 0
    BY DEF Init
  <2>2. QED
    BY <2>1 DEF ConstantsOK
<1>2. TypeOK /\ BudgetKept /\ [Next]_vars => BudgetKept'
  <2> SUFFICES ASSUME TypeOK, BudgetKept PROVE [Next]_vars => BudgetKept'
    OBVIOUS
  <2>1. ASSUME UNCHANGED <<pc, iters, rounds, answers>> PROVE BudgetKept'
    BY <2>1 DEF BudgetKept
  <2>2. ASSUME NEW t \in Turns, NEW s, s # "idle", Goto(t, s),
               iters' = iters, rounds' = rounds, answers' = answers
        PROVE  BudgetKept'
    BY <2>2, BudgetQuiet
  <2>3. ASSUME NEW t \in Turns,
               \/ HandleUnknownAgent(t) \/ MessageStored(t) \/ AppendText(t)
               \/ EmitDone(t) \/ BatchEnds(t) \/ DispatchRead(t)
               \/ ReportInProgress(t) \/ CallTool(t) \/ PolicyAsks(t)
        PROVE  BudgetKept'
    <3>1. /\ \E s : s # "idle" /\ Goto(t, s)
          /\ iters' = iters /\ rounds' = rounds /\ answers' = answers
      BY <2>3 DEF HandleUnknownAgent, MessageStored, AppendText, EmitDone, BatchEnds,
                  DispatchRead, ReportInProgress, CallTool, PolicyAsks
    <3>2. QED
      BY <2>2, <3>1
  <2>4. ASSUME NEW t \in Turns, NEW q \in Batches, NEW h \in BOOLEAN,
                AgentReplies(t, q, h)
         PROVE  BudgetKept'
    <3>1. \E s : s # "idle" /\ Goto(t, s)
      BY <2>4 DEF AgentReplies
    <3>2. iters' = iters /\ rounds' = rounds /\ answers' = answers
      BY <2>4 DEF AgentReplies
    <3>3. QED
      BY <2>2, <3>1, <3>2
  <2>5. ASSUME NEW t \in Turns, NEW x, Settle(t, x) PROVE BudgetKept'
    <3>1. Goto(t, "batch") /\ iters' = iters /\ rounds' = rounds /\ answers' = answers
      BY <2>5 DEF Settle
    <3>2. QED
      BY <2>2, <3>1
  <2>6. ASSUME NEW t \in Turns,
                \/ Exceeded(t) \/ AgentFails(t) \/ PolicyFails(t)
                \/ SinkFails(t) \/ AppendFails(t)
         PROVE  BudgetKept'
    <3>1. Fail(t) /\ iters' = iters /\ rounds' = rounds /\ answers' = answers
      BY <2>6 DEF Exceeded, AgentFails, PolicyFails, SinkFails, AppendFails
    <3>2. Goto(t, "failed")
      BY <3>1 DEF Fail
    <3>3. QED
      BY <2>2, <3>1, <3>2
  <2>7. ASSUME NEW t \in Turns, FlushEnds(t) PROVE BudgetKept'
    <3>1. fate[t] \in Fates
      BY DEF TypeOK
    <3>2. AfterFlush(fate[t]) # "idle"
      BY <3>1 DEF AfterFlush, Fates
    <3>3. /\ Goto(t, AfterFlush(fate[t]))
          /\ iters' = iters /\ rounds' = rounds /\ answers' = answers
      BY <2>7 DEF FlushEnds
    <3>4. QED
      BY <2>2, <3>2, <3>3
  <2>8. ASSUME NEW t \in Turns, NEW o \in Decisions, PolicyResolves(t, o)
        PROVE  BudgetKept'
    <3>1. AfterDecision(o) # "idle"
      BY DEF AfterDecision, Decisions
    <3>2. /\ Goto(t, AfterDecision(o))
          /\ iters' = iters /\ rounds' = rounds /\ answers' = answers
      BY <2>8 DEF PolicyResolves, Apply
    <3>3. QED
      BY <2>2, <3>1, <3>2
  <2>9. ASSUME NEW t \in Turns, AppendBlock(t) \/ FlushEntry(t) PROVE BudgetKept'
    BY <2>1, <2>9 DEF AppendBlock, FlushEntry
  <2>10. ASSUME NEW t \in Turns, NEW u \in Turns
        PROVE  /\ rounds[u] \in Nat /\ iters[u] \in Nat /\ answers[u] \in Nat
               /\ rounds[u] + iters[u] <= MaxToolIters * (1 + answers[u])
               /\ pc[u] = "idle" => rounds[u] = 0 /\ answers[u] = 0
               /\ MaxToolIters \in Nat
    BY DEF TypeOK, BudgetKept, ConstantsOK
  <2>11. ASSUME NEW t \in Turns, Handle(t) PROVE BudgetKept'
    <3> SUFFICES ASSUME NEW u \in Turns
                 PROVE  /\ rounds'[u] + iters'[u] <= MaxToolIters * (1 + answers'[u])
                        /\ pc'[u] = "idle" => rounds'[u] = 0 /\ answers'[u] = 0
      BY DEF BudgetKept
    <3>1. UNCHANGED <<rounds, answers>>
      BY <2>11 DEF Handle
    <3>2. CASE u = t
      <4>1. iters'[t] = MaxToolIters /\ pc'[t] = "greeting" /\ rounds[t] = 0 /\ answers[t] = 0
        BY <2>10, <2>11 DEF Handle, FreshBudget, Goto, TypeOK
      <4>2. QED
        BY <2>10, <3>1, <3>2, <4>1
    <3>3. CASE u # t
      <4>1. iters'[u] = iters[u] /\ pc'[u] = pc[u]
        BY <2>11, <3>3 DEF Handle, FreshBudget, Goto, TypeOK
      <4>2. QED
        BY <2>10, <3>1, <4>1
    <3>4. QED
      BY <3>2, <3>3
  <2>12. ASSUME NEW t \in Turns, Assemble(t) PROVE BudgetKept'
    <3> SUFFICES ASSUME NEW u \in Turns
                 PROVE  /\ rounds'[u] + iters'[u] <= MaxToolIters * (1 + answers'[u])
                        /\ pc'[u] = "idle" => rounds'[u] = 0 /\ answers'[u] = 0
      BY DEF BudgetKept
    <3>1. UNCHANGED answers
      BY <2>12 DEF Assemble
    <3>2. CASE u = t
      <4>1. /\ iters'[t] = iters[t] - 1 /\ rounds'[t] = rounds[t] + 1
            /\ pc'[t] = "prompting"
        BY <2>12 DEF Assemble, SpendPrompt, Goto, TypeOK
      <4>2. QED
        BY <2>10, <3>1, <3>2, <4>1
    <3>3. CASE u # t
      <4>1. iters'[u] = iters[u] /\ rounds'[u] = rounds[u] /\ pc'[u] = pc[u]
        BY <2>12, <3>3 DEF Assemble, SpendPrompt, Goto, TypeOK
      <4>2. QED
        BY <2>10, <3>1, <4>1
    <3>4. QED
      BY <3>2, <3>3
  <2>13. ASSUME NEW t \in Turns, NEW p \in Calls,
                ApproveUnknown(t, p) \/ \E o \in Decisions : Approve(t, p, o)
        PROVE  BudgetKept'
    <3> SUFFICES ASSUME NEW u \in Turns
                 PROVE  /\ rounds'[u] + iters'[u] <= MaxToolIters * (1 + answers'[u])
                        /\ pc'[u] = "idle" => rounds'[u] = 0 /\ answers'[u] = 0
      BY DEF BudgetKept
    <3>1. UNCHANGED rounds
      BY <2>13 DEF ApproveUnknown, Approve
    <3>2. \E s : s # "idle" /\ Goto(t, s)
      BY <2>13 DEF ApproveUnknown, Approve, Apply, AfterDecision, Decisions
    <3>3. CASE u = t
      <4>1. answers'[t] = answers[t] + 1 /\ iters'[t] \in {iters[t], MaxToolIters}
        BY <2>13 DEF ApproveUnknown, Approve, FreshBudget, TypeOK
      <4>2. pc'[t] # "idle"
        BY <3>2 DEF Goto, TypeOK
      <4>3. MaxToolIters * (1 + answers'[t])
              = MaxToolIters * (1 + answers[t]) + MaxToolIters
        BY <2>10, <4>1
      <4>4. rounds[t] + iters'[t] <= MaxToolIters * (1 + answers[t]) + MaxToolIters
        BY <2>10, <4>1
      <4>5. QED
        BY <3>1, <3>3, <4>2, <4>3, <4>4
    <3>4. CASE u # t
      <4>1. answers'[u] = answers[u] /\ iters'[u] = iters[u]
        BY <2>13, <3>4 DEF ApproveUnknown, Approve, FreshBudget, TypeOK
      <4>2. pc'[u] = pc[u]
        BY <3>2, <3>4 DEF Goto, TypeOK
      <4>3. QED
        BY <2>10, <3>1, <4>1, <4>2
    <3>5. QED
      BY <3>3, <3>4
  <2>14. CASE UNCHANGED vars
    BY <2>1, <2>14 DEF vars
  <2>15. QED
    BY <2>1, <2>3, <2>8, <2>9, <2>11, <2>12, <2>13, <2>14, <2>4, <2>5, <2>6, <2>7
       DEF vars, Next, RuntimeStep, ConsumerStep, Rest, AnswerUnfit, ReportResult,
           ReportRefusal
<1>3. QED
  BY <1>1, <1>2, TypeCorrect, PTL DEF Spec

\* Between two decisions of a human the loop prompts at most MaxToolIters
\* times (the bounded loop of Manch::drive, entered by handle and approve).
THEOREM BudgetHolds == Spec => []UnattendedBudget
<1>1. TypeOK /\ BudgetKept => UnattendedBudget
  <2> SUFFICES ASSUME TypeOK, BudgetKept, NEW t \in Turns
               PROVE  rounds[t] <= MaxToolIters * (1 + answers[t])
    BY DEF UnattendedBudget
  <2>1. rounds[t] \in Nat /\ iters[t] \in Nat /\ answers[t] \in Nat /\ MaxToolIters \in Nat
    BY ConstantsOK DEF TypeOK, ConstantsOK
  <2>2. rounds[t] + iters[t] <= MaxToolIters * (1 + answers[t])
    BY DEF BudgetKept
  <2>3. QED
    BY <2>1, <2>2
<1>2. QED
  BY <1>1, TypeCorrect, BudgetCorrect, PTL

-----------------------------------------------------------------------------
\* The calls the log holds.
Logged == {log[j].call : j \in {i \in DOMAIN log : log[i].kind = "call"}}

\* The inductive strengthening of ResultAfterCall: while a buffer is flushed,
\* the calls it has gone past are in the log; no other loop is half way.
Written ==
  \A t \in Turns :
    /\ pc[t] \notin {"greeting", "flush"} => appended[t] = 0
    /\ pc[t] = "flush" =>
         \A i \in 1..Len(buf[t]) : i <= appended[t] => buf[t][i] \in Logged

\* The log only grows: what is in it stays where it is.
LEMMA LogKeeps ==
  ASSUME TypeOK, NEW e \in Entries, log' = Append(log, e)
  PROVE  /\ DOMAIN log' = 1..(Len(log) + 1) /\ DOMAIN log = 1..Len(log)
         /\ Len(log) \in Nat
         /\ \A i \in DOMAIN log : log'[i] = log[i]
         /\ log'[Len(log) + 1] = e
         /\ Logged \subseteq Logged'
  <1>1. log \in Seq(Entries)
    BY DEF TypeOK
  <1>2. /\ DOMAIN log' = 1..(Len(log) + 1) /\ DOMAIN log = 1..Len(log)
        /\ Len(log) \in Nat
        /\ \A i \in DOMAIN log : log'[i] = log[i]
        /\ log'[Len(log) + 1] = e
    BY <1>1
  <1>3. ASSUME NEW c \in Logged PROVE c \in Logged'
    <2>1. PICK j \in DOMAIN log : log[j].kind = "call" /\ log[j].call = c
      BY <1>3 DEF Logged
    <2>2. j \in DOMAIN log' /\ log'[j] = log[j]
      BY <1>2
    <2>3. QED
      BY <2>1, <2>2 DEF Logged
  <1>4. QED
    BY <1>2, <1>3

\* Appending an entry keeps results behind their calls, if the entry is no
\* result or the result of a call in the log.
LEMMA ResultAppended ==
  ASSUME TypeOK, ResultAfterCall, NEW e \in Entries, log' = Append(log, e),
         e.kind = "result" => e.call \in Logged
  PROVE  ResultAfterCall'
  <1> SUFFICES ASSUME NEW i \in DOMAIN log', log'[i].kind = "result"
               PROVE  \E j \in 1..(i - 1) : log'[j].kind = "call" /\ log'[j].call = log'[i].call
    BY DEF ResultAfterCall
  <1>1. CASE i \in DOMAIN log
    <2>1. PICK j \in 1..(i - 1) : log[j].kind = "call" /\ log[j].call = log[i].call
      BY <1>1, LogKeeps DEF ResultAfterCall
    <2>2. log'[i] = log[i] /\ log'[j] = log[j]
      BY <1>1, <2>1, LogKeeps
    <2>3. QED
      BY <2>1, <2>2
  <1>2. CASE i \notin DOMAIN log
    <2>1. i = Len(log) + 1 /\ log'[i] = e
      BY <1>2, LogKeeps
    <2>2. PICK j \in DOMAIN log : log[j].kind = "call" /\ log[j].call = e.call
      BY <2>1 DEF Logged
    <2>3. log'[j] = log[j] /\ j \in 1..(i - 1)
      BY <2>1, <2>2, LogKeeps
    <2>4. QED
      BY <2>1, <2>2, <2>3
  <1>3. QED
    BY <1>1, <1>2

\* A step after which the turn that takes it is at the start of no loop or of
\* a fresh one.
LEMMA WrittenRest ==
  ASSUME TypeOK, TypeOK', Written, NEW t \in Turns, appended'[t] = 0,
         \A u \in Turns : u # t => pc'[u] = pc[u] /\ buf'[u] = buf[u]
                                   /\ appended'[u] = appended[u],
         Logged \subseteq Logged'
  PROVE  Written'
  <1> SUFFICES ASSUME NEW u \in Turns
               PROVE  /\ pc'[u] \notin {"greeting", "flush"} => appended'[u] = 0
                      /\ pc'[u] = "flush" =>
                           \A i \in 1..Len(buf'[u]) :
                             i <= appended'[u] => buf'[u][i] \in Logged'
    BY DEF Written
  <1>1. CASE u = t
    BY <1>1
  <1>2. CASE u # t
    <2>1. pc'[u] = pc[u] /\ buf'[u] = buf[u] /\ appended'[u] = appended[u]
      BY <1>2
    <2>2. QED
      BY <2>1 DEF Written
  <1>3. QED
    BY <1>1, <1>2

\* Written holds, and with it ResultAfterCall.
THEOREM WrittenCorrect == Spec => [](Written /\ ResultAfterCall)
<1> USE ConstantsOK
<1>1. Init => Written /\ ResultAfterCall
  BY DEF Init, Written, ResultAfterCall
<1>2. TypeOK /\ TypeOK' /\ Written /\ ResultAfterCall /\ [Next]_vars
        => Written' /\ ResultAfterCall'
  <2> SUFFICES ASSUME TypeOK, TypeOK', Written, ResultAfterCall
               PROVE  [Next]_vars => Written' /\ ResultAfterCall'
    OBVIOUS
  <2>1. ASSUME log' = log
        PROVE  ResultAfterCall' /\ Logged \subseteq Logged'
    BY <2>1 DEF ResultAfterCall, Logged
  <2>2. ASSUME NEW t \in Turns, log' = log, appended'[t] = 0,
               \A u \in Turns : u # t => pc'[u] = pc[u] /\ buf'[u] = buf[u]
                                         /\ appended'[u] = appended[u]
        PROVE  Written' /\ ResultAfterCall'
    BY <2>1, <2>2, WrittenRest
  <2>3. ASSUME NEW t \in Turns, NEW s, Goto(t, s), pc[t] \notin {"greeting", "flush"},
               log' = log, appended' = appended,
               \A u \in Turns : u # t => buf'[u] = buf[u]
        PROVE  Written' /\ ResultAfterCall'
    <3>1. appended'[t] = 0
      BY <2>3 DEF Written
    <3>2. \A u \in Turns : u # t => pc'[u] = pc[u] /\ buf'[u] = buf[u]
                                    /\ appended'[u] = appended[u]
      BY <2>3 DEF Goto, TypeOK
    <3>3. QED
      BY <2>2, <2>3, <3>1, <3>2
  <2>4. ASSUME NEW t \in Turns,
               \/ Handle(t) \/ HandleUnknownAgent(t) \/ Assemble(t) \/ EmitDone(t)
               \/ DispatchRead(t) \/ ReportInProgress(t) \/ CallTool(t)
               \/ BatchEnds(t) \/ PolicyAsks(t)
        PROVE  Written' /\ ResultAfterCall'
    <3>1. /\ \E s : Goto(t, s)
          /\ pc[t] \notin {"greeting", "flush"}
          /\ log' = log /\ appended' = appended /\ buf' = buf
      BY <2>4 DEF Handle, HandleUnknownAgent, Assemble, EmitDone, DispatchRead,
                  ReportInProgress, CallTool, BatchEnds, PolicyAsks, NeedsDecision, AtCall
    <3>2. QED
      BY <2>3, <3>1
  <2>5. ASSUME NEW t \in Turns, NEW q \in Batches, NEW h \in BOOLEAN,
               AgentReplies(t, q, h)
        PROVE  Written' /\ ResultAfterCall'
    <3>1. /\ \E s : Goto(t, s)
          /\ pc[t] \notin {"greeting", "flush"}
          /\ log' = log /\ appended' = appended /\ buf' = buf
      BY <2>5 DEF AgentReplies
    <3>2. QED
      BY <2>3, <3>1
  <2>6. ASSUME NEW t \in Turns, NEW x, Settle(t, x), pc[t] \notin {"greeting", "flush"}
        PROVE  Written' /\ ResultAfterCall'
    <3>1. Goto(t, "batch") /\ log' = log /\ appended' = appended
      BY <2>6 DEF Settle
    <3>2. \A u \in Turns : u # t => buf'[u] = buf[u]
      BY <2>6 DEF Settle, Record, TypeOK
    <3>3. QED
      BY <2>3, <2>6, <3>1, <3>2
  <2>7. ASSUME NEW t \in Turns, NEW x \in {"completed", "failed"},
               AnswerUnfit(t) \/ ReportResult(t, x) \/ ReportRefusal(t)
        PROVE  Written' /\ ResultAfterCall'
    <3>1. /\ pc[t] \notin {"greeting", "flush"}
          /\ \E y : Settle(t, y)
      BY <2>7 DEF AnswerUnfit, ReportResult, ReportRefusal, AtCall
    <3>2. QED
      BY <2>6, <3>1
  <2>8. ASSUME NEW t \in Turns,
               \/ Exceeded(t) \/ AgentFails(t) \/ PolicyFails(t)
               \/ SinkFails(t) \/ AppendFails(t)
        PROVE  Written' /\ ResultAfterCall'
    <3>1. Fail(t) /\ log' = log
      BY <2>8 DEF Exceeded, AgentFails, PolicyFails, SinkFails, AppendFails
    <3>2. /\ appended'[t] = 0
          /\ \A u \in Turns : u # t => pc'[u] = pc[u] /\ buf'[u] = buf[u]
                                       /\ appended'[u] = appended[u]
      BY <3>1 DEF Fail, Goto, TypeOK
    <3>3. QED
      BY <2>2, <3>1, <3>2
  <2>9. ASSUME NEW t \in Turns, NEW o \in Decisions, PolicyResolves(t, o)
        PROVE  Written' /\ ResultAfterCall'
    <3>1. /\ Goto(t, AfterDecision(o)) /\ pc[t] \notin {"greeting", "flush"}
          /\ log' = log /\ appended' = appended
      BY <2>9 DEF PolicyResolves, Apply, NeedsDecision, AtCall
    <3>2. \A u \in Turns : u # t => buf'[u] = buf[u]
      BY <2>9 DEF PolicyResolves, TypeOK
    <3>3. QED
      BY <2>3, <3>1, <3>2
  <2>10. ASSUME NEW t \in Turns, NEW p \in Calls, NEW o \in Decisions, Approve(t, p, o)
         PROVE  Written' /\ ResultAfterCall'
    <3>1. /\ Goto(t, AfterDecision(o)) /\ pc[t] \notin {"greeting", "flush"}
          /\ log' = log /\ appended' = appended /\ buf' = buf
      BY <2>10 DEF Approve, MayApprove, Busy, Apply
    <3>2. QED
      BY <2>3, <3>1
  <2>11. ASSUME NEW t \in Turns, NEW p \in Calls, ApproveUnknown(t, p)
         PROVE Written' /\ ResultAfterCall'
    <3>1. /\ Goto(t, "failed") /\ pc[t] \notin {"greeting", "flush"}
          /\ log' = log /\ appended' = appended /\ buf' = buf
      BY <2>11 DEF ApproveUnknown, MayApprove, Busy
    <3>2. QED
      BY <2>3, <3>1
  <2>12. ASSUME NEW t \in Turns, MessageStored(t) \/ FlushEnds(t)
         PROVE  Written' /\ ResultAfterCall'
    <3>1. log' = log /\ appended' = [appended EXCEPT ![t] = 0]
      BY <2>12 DEF MessageStored, FlushEnds
    <3>2. \A u \in Turns : u # t => pc'[u] = pc[u] /\ buf'[u] = buf[u]
      BY <2>12 DEF MessageStored, FlushEnds, Goto, TypeOK
    <3>3. /\ appended'[t] = 0
          /\ \A u \in Turns : u # t => appended'[u] = appended[u]
      BY <3>1 DEF TypeOK
    <3>4. QED
      BY <2>2, <3>1, <3>2, <3>3
  <2>13. ASSUME NEW t \in Turns, AppendText(t) PROVE Written' /\ ResultAfterCall'
    <3> DEFINE e == Entry(t, "text", None)
    <3>1. e \in Entries /\ log' = Append(log, e) /\ e.kind # "result"
      BY <2>13 DEF AppendText, Entry, Entries
    <3>2. appended'[t] = 0
      BY <2>13 DEF AppendText, Written
    <3>3. \A u \in Turns : u # t => pc'[u] = pc[u] /\ buf'[u] = buf[u]
                                    /\ appended'[u] = appended[u]
      BY <2>13 DEF AppendText, Goto, TypeOK
    <3>4. ResultAfterCall'
      BY <3>1, ResultAppended
    <3>5. Logged \subseteq Logged'
      BY <3>1, LogKeeps
    <3>6. Written'
      BY <3>2, <3>3, <3>5, WrittenRest
    <3>7. QED
      BY <3>4, <3>6
  <2>14. ASSUME NEW t \in Turns, AppendBlock(t) PROVE Written' /\ ResultAfterCall'
    <3> DEFINE e == Entry(t, "block", None)
    <3>1. e \in Entries /\ log' = Append(log, e) /\ e.kind # "result"
      BY <2>14 DEF AppendBlock, Entry, Entries
    <3>2. pc[t] = "greeting" /\ pc' = pc /\ buf' = buf
      BY <2>14 DEF AppendBlock
    <3>3. \A u \in Turns : u # t => appended'[u] = appended[u]
      BY <2>14 DEF AppendBlock, TypeOK
    <3>4. Logged \subseteq Logged'
      BY <3>1, LogKeeps
    <3>5. Written'
      BY <3>2, <3>3, <3>4 DEF Written
    <3>6. ResultAfterCall'
      BY <3>1, ResultAppended
    <3>7. QED
      BY <3>5, <3>6
  <2>15. ASSUME NEW t \in Turns, FlushEntry(t) PROVE Written' /\ ResultAfterCall'
    <3> DEFINE n == appended[t] + 1
               item == FlushItem(buf[t], n)
               e == Entry(t, item[1], item[2])
    <3>1. /\ pc[t] = "flush" /\ pc' = pc /\ buf' = buf
          /\ log' = Append(log, e) /\ appended[t] < 2 * Len(buf[t])
      BY <2>15 DEF FlushEntry
    <3>2. /\ appended' = [appended EXCEPT ![t] = n] /\ appended \in [Turns -> Nat]
      BY <2>15 DEF FlushEntry, TypeOK
    <3>3. /\ appended[t] \in Nat /\ n \in Nat /\ Len(buf[t]) \in Nat
          /\ \A i \in 1..Len(buf[t]) : buf[t][i] \in Calls
      <4>1. appended[t] \in Nat /\ buf[t] \in Seq(Calls)
        BY DEF TypeOK
      <4>2. QED
        BY <4>1
    <3>4. /\ e \in Entries
          /\ n <= Len(buf[t]) => e.kind = "call" /\ e.call = buf[t][n]
          /\ e.kind = "result" => e.call \in Logged
      <4>1. CASE n <= Len(buf[t])
        <5>1. item = <<"call", buf[t][n]>> /\ buf[t][n] \in Calls
          BY <3>3, <4>1 DEF FlushItem
        <5>2. QED
          BY <5>1 DEF Entry, Entries
      <4>2. CASE n > Len(buf[t])
        <5>1. item = <<"result", buf[t][n - Len(buf[t])]>>
          <6>1. ~(n <= Len(buf[t]))
            BY <3>3, <4>2
          <6>2. QED
            BY <6>1 DEF FlushItem
        <5>2. n - Len(buf[t]) \in 1..Len(buf[t]) /\ n - Len(buf[t]) <= appended[t]
          BY <3>1, <3>3, <4>2
        <5>3. buf[t][n - Len(buf[t])] \in Calls /\ buf[t][n - Len(buf[t])] \in Logged
          BY <3>1, <3>3, <5>2 DEF Written
        <5>4. /\ e \in Entries /\ e.kind = "result"
              /\ e.call = buf[t][n - Len(buf[t])]
          BY <5>1, <5>3 DEF Entry, Entries
        <5>5. QED
          BY <3>3, <4>2, <5>3, <5>4
      <4>3. QED
        BY <3>3, <4>1, <4>2
    <3>5. ResultAfterCall'
      BY <3>1, <3>4, ResultAppended
    <3>6. ASSUME NEW u \in Turns
          PROVE  /\ pc'[u] \notin {"greeting", "flush"} => appended'[u] = 0
                 /\ pc'[u] = "flush" =>
                      \A i \in 1..Len(buf'[u]) :
                        i <= appended'[u] => buf'[u][i] \in Logged'
      <4>1. Logged \subseteq Logged'
        BY <3>1, <3>4, LogKeeps
      <4>2. CASE u # t
        <5>1. appended'[u] = appended[u]
          BY <3>2, <4>2
        <5>2. QED
          BY <3>1, <4>1, <5>1 DEF Written
      <4>3. CASE u = t
        <5> SUFFICES ASSUME NEW i \in 1..Len(buf[t]), i <= n
                     PROVE  buf[t][i] \in Logged'
          BY <3>1, <3>2, <4>3
        <5>1. CASE i <= appended[t]
          <6>1. buf[t][i] \in Calls /\ buf[t][i] \in Logged
            BY <3>1, <3>3, <5>1 DEF Written
          <6>2. QED
            BY <3>1, <4>1, <6>1
        <5>2. CASE i = n
          <6>1. e.kind = "call" /\ e.call = buf[t][i]
            BY <3>3, <3>4, <5>2
          <6>2. Len(log) + 1 \in DOMAIN log' /\ log'[Len(log) + 1] = e
            BY <3>1, <3>4, LogKeeps
          <6>3. QED
            BY <3>1, <6>1, <6>2 DEF Logged
        <5>3. QED
          BY <3>3, <5>1, <5>2
      <4>4. QED
        BY <4>2, <4>3
    <3>7. QED
      BY <3>5, <3>6 DEF Written
  <2>16. CASE UNCHANGED vars
    BY <2>16 DEF vars, Written, ResultAfterCall, Logged
  <2>17. QED
    BY <2>4, <2>5, <2>7, <2>8, <2>9, <2>10, <2>11, <2>12, <2>13, <2>14, <2>15, <2>16
       DEF vars, Next, RuntimeStep, ConsumerStep, Rest
<1>3. QED
  BY <1>1, <1>2, TypeCorrect, PTL DEF Spec

\* A stored result always has its call before it, whatever interleaves with
\* the flush and wherever it breaks off (Buffer::flush).
THEOREM ResultsFollowCalls == Spec => []ResultAfterCall
BY WrittenCorrect, PTL
=============================================================================
