-------------------------- MODULE TurnLoopCallProofs --------------------------
(***************************************************************************)
(* What becomes of a tool call, from the reply that issues it to the log.   *)
(* The calls behind a pause are set aside for good, whatever overlaps,      *)
(* fails or is submitted again; a call runs at most once for each time a    *)
(* human allows it, and once if none was asked; and the loop is one that its *)
(* budget ends.  For a consumer that submits each pending call once, an     *)
(* outcome is never taken back, and a turn that finishes has told the sink  *)
(* what it stored; with a store that works, a batch is stored whole.        *)
(***************************************************************************)
EXTENDS TurnLoopProofs

USE DEF loopVars, turnVars, callVars

-----------------------------------------------------------------------------
(* Sequences as sets.                                                       *)

\* The elements of a sequence, those behind its head, and that none occurs twice.
Elements(s) == {s[i] : i \in DOMAIN s}
Later(s) == {s[i] : i \in 2..Len(s)}
Distinct(s) == \A i, j \in DOMAIN s : s[i] = s[j] => i = j

\* A sequence of distinct elements, and what is left without the first.
LEMMA TailElements ==
  ASSUME NEW S, NEW s \in Seq(S), s # <<>>
  PROVE  /\ Head(s) \in Elements(s)
         /\ Elements(s) = {Head(s)} \cup Later(s)
         /\ Elements(Tail(s)) = Later(s)
         /\ Later(Tail(s)) \subseteq Later(s)
         /\ Distinct(s) => Distinct(Tail(s)) /\ Head(s) \notin Later(s)
<1>1. /\ Len(s) \in Nat /\ Len(s) > 0 /\ DOMAIN s = 1..Len(s) /\ Head(s) = s[1]
      /\ Tail(s) \in Seq(S) /\ Len(Tail(s)) = Len(s) - 1
      /\ \A i \in 1..(Len(s) - 1) : Tail(s)[i] = s[i + 1]
  OBVIOUS
<1>2. DOMAIN Tail(s) = 1..(Len(s) - 1)
  BY <1>1
<1>3. Elements(s) = {Head(s)} \cup Later(s)
  <2>1. 1..Len(s) = {1} \cup 2..Len(s)
    BY <1>1
  <2> QED BY <1>1, <2>1 DEF Elements, Later
<1>4. Elements(Tail(s)) = Later(s)
  <2>1. ASSUME NEW i \in 2..Len(s) PROVE s[i] \in Elements(Tail(s))
    <3>1. i - 1 \in 1..(Len(s) - 1) /\ (i - 1) + 1 = i
      BY <1>1
    <3> QED BY <1>1, <1>2, <3>1 DEF Elements
  <2>2. ASSUME NEW i \in 1..(Len(s) - 1) PROVE Tail(s)[i] \in Later(s)
    <3>1. i + 1 \in 2..Len(s)
      BY <1>1
    <3> QED BY <1>1, <3>1 DEF Later
  <2> QED BY <1>2, <2>1, <2>2 DEF Elements, Later
<1>5. Later(Tail(s)) \subseteq Elements(Tail(s))
  BY <1>1, <1>2 DEF Elements, Later
<1>6. ASSUME Distinct(s)
      PROVE  Distinct(Tail(s)) /\ Head(s) \notin Later(s)
  <2>1. ASSUME NEW i \in 1..(Len(s) - 1), NEW j \in 1..(Len(s) - 1), Tail(s)[i] = Tail(s)[j]
        PROVE  i = j
    <3>1. i + 1 \in DOMAIN s /\ j + 1 \in DOMAIN s /\ s[i + 1] = s[j + 1]
      BY <1>1, <2>1
    <3>2. i + 1 = j + 1
      BY <1>6, <3>1 DEF Distinct
    <3> QED BY <3>2
  <2>2. ASSUME NEW i \in 2..Len(s) PROVE s[i] # s[1]
    <3>1. i \in DOMAIN s /\ 1 \in DOMAIN s /\ i # 1
      BY <1>1
    <3> QED BY <1>6, <3>1 DEF Distinct
  <2> QED BY <1>1, <1>2, <2>1, <2>2 DEF Distinct, Later
<1> QED BY <1>1, <1>3, <1>4, <1>5, <1>6

\* A sequence with one more element.
LEMMA AppendElements ==
  ASSUME NEW S, NEW s \in Seq(S), NEW e \in S
  PROVE  Elements(Append(s, e)) = Elements(s) \cup {e}
<1>1. /\ Len(s) \in Nat /\ DOMAIN s = 1..Len(s) /\ DOMAIN Append(s, e) = 1..(Len(s) + 1)
      /\ \A i \in 1..Len(s) : Append(s, e)[i] = s[i]
      /\ Append(s, e)[Len(s) + 1] = e
  OBVIOUS
<1>2. 1..(Len(s) + 1) = (1..Len(s)) \cup {Len(s) + 1}
  BY <1>1
<1> QED BY <1>1, <1>2 DEF Elements

\* The empty sequence ...
LEMMA NoElements == Elements(<<>>) = {} /\ Later(<<>>) = {} /\ Distinct(<<>>)
BY DEF Elements, Later, Distinct

\* ... and a sequence of one element.
LEMMA OneElement ==
  ASSUME NEW e
  PROVE  Elements(<<e>>) = {e} /\ Later(<<e>>) = {} /\ Distinct(<<e>>)
         /\ Head(<<e>>) = e /\ <<e>> # <<>>
BY DEF Elements, Later, Distinct

\* The calls with an entry in a log, and those with a result in it.
Entered(l) == {l[i].call : i \in DOMAIN l}
Results(l) == {l[i].call : i \in {j \in DOMAIN l : l[j].kind = "result"}}

\* TurnLoop speaks of recorded calls, the lemmas of the set of results.
LEMMA RecordedResults == ASSUME NEW c PROVE Recorded(c) <=> c \in Results(log)
BY DEF Recorded, Results

\* What an appended entry adds to those sets.
LEMMA EntryAdded ==
  ASSUME NEW l \in Seq(Entries), NEW e \in Entries
  PROVE  /\ Entered(Append(l, e)) = Entered(l) \cup {e.call}
         /\ e.kind = "result" => Results(Append(l, e)) = Results(l) \cup {e.call}
         /\ e.kind # "result" => Results(Append(l, e)) = Results(l)
<1>1. /\ Len(l) \in Nat /\ DOMAIN l = 1..Len(l) /\ DOMAIN Append(l, e) = 1..(Len(l) + 1)
      /\ \A i \in 1..Len(l) : Append(l, e)[i] = l[i]
      /\ Append(l, e)[Len(l) + 1] = e
  OBVIOUS
<1>2. 1..(Len(l) + 1) = (1..Len(l)) \cup {Len(l) + 1}
  BY <1>1
<1>3. Entered(Append(l, e)) = Entered(l) \cup {e.call}
  BY <1>1, <1>2 DEF Entered
<1>4. Results(Append(l, e)) =
        Results(l) \cup {Append(l, e)[i].call : i \in {j \in {Len(l) + 1} : e.kind = "result"}}
  BY <1>1, <1>2 DEF Results
<1>5. e.kind = "result" => Results(Append(l, e)) = Results(l) \cup {e.call}
  BY <1>1, <1>4
<1>6. e.kind # "result" => Results(Append(l, e)) = Results(l)
  BY <1>4
<1> QED BY <1>3, <1>5, <1>6

-----------------------------------------------------------------------------
(* What each kind of step does to the calls.                                *)

\* The step of a turn leaves the other turns where they are.
Others(t) ==
  \A u \in Turns : u # t =>
    /\ pc'[u] = pc[u] /\ queue'[u] = queue[u] /\ buf'[u] = buf[u]
    /\ appended'[u] = appended[u] /\ fate'[u] = fate[u]
    /\ held'[u] = held[u] /\ rounds'[u] = rounds[u]

\* No call gets an entry.
SameEntries ==
  \A c \in Calls : /\ c \in Entered(log') <=> c \in Entered(log)
                   /\ c \in Results(log') <=> c \in Results(log)

\* The blocks of a message and the text of a reply are no call's entries.
LEMMA NoCallEntered ==
  ASSUME TypeOK, NEW t \in Turns, NEW k \in {"block", "text"},
         log' = Append(log, Entry(t, k, None))
  PROVE  SameEntries
<1>1. Entry(t, k, None) \in Entries /\ Entry(t, k, None).call = None
      /\ Entry(t, k, None).kind # "result"
  BY DEF Entry, Entries
<1>2. log \in Seq(Entries)
  BY DEF TypeOK
<1>3. Entered(log') = Entered(log) \cup {None} /\ Results(log') = Results(log)
  BY <1>1, <1>2, EntryAdded
<1> QED BY <1>3, ConstantsOK DEF SameEntries, ConstantsOK

\* Steps that move a turn on and touch no call.
Moves(t) ==
  \/ Handle(t) \/ HandleUnknownAgent(t) \/ AppendBlock(t) \/ MessageStored(t)
  \/ Assemble(t) \/ AppendText(t) \/ EmitDone(t) \/ DispatchRead(t)
  \/ BatchEnds(t) \/ \E p \in Calls : ApproveUnknown(t, p)

\* They leave the queue, the buffer and every call as they are.
LEMMA MovesEffect ==
  ASSUME TypeOK, NEW t \in Turns, Moves(t)
  PROVE  /\ UNCHANGED <<queue, buf, held, handed, callVars>>
         /\ Others(t)
         /\ SameEntries
         /\ pc'[t] = "batch" => pc[t] = "text"
         /\ pc'[t] # "text"
<1>1. UNCHANGED <<queue, buf, held, handed, callVars>>
  BY DEF Moves, Handle, HandleUnknownAgent, AppendBlock, MessageStored, Assemble,
         AppendText, EmitDone, DispatchRead, BatchEnds, ApproveUnknown
<1>2. /\ \A u \in Turns : u # t => pc'[u] = pc[u]
      /\ pc'[t] = "batch" => pc[t] = "text"
      /\ pc'[t] # "text"
  BY DEF Moves, Handle, HandleUnknownAgent, AppendBlock, MessageStored, Assemble,
         AppendText, EmitDone, DispatchRead, BatchEnds, ApproveUnknown, Goto, TypeOK
<1>3. \A u \in Turns : u # t =>
        appended'[u] = appended[u] /\ fate'[u] = fate[u] /\ rounds'[u] = rounds[u]
  BY DEF Moves, Handle, HandleUnknownAgent, AppendBlock, MessageStored, Assemble,
         AppendText, EmitDone, DispatchRead, BatchEnds, ApproveUnknown, TypeOK
<1>4. SameEntries
  <2>1. CASE log' = log
    BY <2>1 DEF SameEntries
  <2>2. CASE AppendBlock(t) \/ AppendText(t)
    BY <2>2, NoCallEntered DEF AppendBlock, AppendText
  <2> QED
    BY <2>1, <2>2 DEF Moves, Handle, HandleUnknownAgent, MessageStored, Assemble,
         EmitDone, DispatchRead, BatchEnds, ApproveUnknown
<1> QED BY <1>1, <1>2, <1>3, <1>4 DEF Others

\* Errors.
Errors(t) ==
  Exceeded(t) \/ AgentFails(t) \/ PolicyFails(t) \/ SinkFails(t) \/ AppendFails(t)

\* An error empties the turn's queue and buffer, and touches no call.
LEMMA ErrorsEffect ==
  ASSUME TypeOK, NEW t \in Turns, Errors(t)
  PROVE  /\ UNCHANGED <<log, fate, iters, turnVars, callVars>>
         /\ Others(t)
         /\ pc'[t] = "failed" /\ queue'[t] = <<>> /\ buf'[t] = <<>> /\ appended'[t] = 0
<1>1. Fail(t) /\ UNCHANGED <<log, fate, iters, turnVars, callVars>>
  BY DEF Errors, Exceeded, AgentFails, PolicyFails, SinkFails, AppendFails
<1> QED BY <1>1 DEF Fail, Goto, Others, TypeOK

\* The call at the head of a queue gets its answer.
Settles(t) ==
  AnswerUnfit(t) \/ (\E s \in {"completed", "failed"} : ReportResult(t, s)) \/ ReportRefusal(t)

\* The statuses that end a call.
Outcomes == {"completed", "failed"}

\* It is reported, and goes from the queue to the buffer.
LEMMA SettlesEffect ==
  ASSUME TypeOK, NEW t \in Turns, Settles(t)
  PROVE  /\ queue[t] # <<>> /\ pc[t] \in {"batch", "called", "refusing"}
         /\ UNCHANGED <<log, appended, fate, iters, turnVars,
                        owner, round, asked, dropped, allowed, ran>>
         /\ Others(t)
         /\ pc'[t] = "batch"
         /\ queue'[t] = Tail(queue[t])
         /\ buf'[t] = Append(buf[t], Head(queue[t]))
         /\ shown'[Head(queue[t])] \in Outcomes
         /\ \A c \in Calls : c # Head(queue[t]) => shown'[c] = shown[c]
<1>1. /\ queue[t] # <<>> /\ pc[t] \in {"batch", "called", "refusing"}
      /\ \E s \in Outcomes : Settle(t, s)
  BY DEF Settles, AnswerUnfit, ReportResult, ReportRefusal, AtCall, Outcomes
<1>2. Head(queue[t]) \in Calls
  BY <1>1, HeadType
<1> QED BY <1>1, <1>2, SMTT(30) DEF Settle, Goto, Others, Advance, Record, TypeOK

\* The tool of the call at the head is called, and that is reported before.
LEMMA ReportInProgressEffect ==
  ASSUME TypeOK, NEW t \in Turns, ReportInProgress(t)
  PROVE  /\ queue[t] # <<>> /\ pc[t] = "starting" /\ pc'[t] = "calling"
         /\ UNCHANGED <<log, queue, buf, appended, fate, iters, turnVars,
                        owner, round, asked, dropped, allowed, ran>>
         /\ Others(t)
         /\ shown'[Head(queue[t])] = "in_progress"
         /\ \A c \in Calls : c # Head(queue[t]) => shown'[c] = shown[c]
<1>1. queue[t] # <<>> /\ Head(queue[t]) \in Calls
  BY HeadType DEF ReportInProgress, AtCall
<1> QED BY <1>1 DEF ReportInProgress, AtCall, Goto, Others, TypeOK

\* ... and the invocation only counts it.
LEMMA CallToolEffect ==
  ASSUME TypeOK, NEW t \in Turns, CallTool(t)
  PROVE  /\ queue[t] # <<>> /\ pc[t] = "calling" /\ pc'[t] = "called"
         /\ UNCHANGED <<log, queue, buf, appended, fate, iters, turnVars,
                        owner, round, asked, dropped, allowed, shown>>
         /\ Others(t)
         /\ ran'[Head(queue[t])] = ran[Head(queue[t])] + 1
         /\ \A c \in Calls : c # Head(queue[t]) => ran'[c] = ran[c]
<1>1. queue[t] # <<>> /\ Head(queue[t]) \in Calls
  BY HeadType DEF CallTool, AtCall
<1> QED BY <1>1 DEF CallTool, AtCall, Goto, Others, TypeOK

\* A decision, of the policy on the calls queued or of a human on the call held.
LEMMA ApplyEffect ==
  ASSUME TypeOK, NEW t \in Turns, NEW o \in Decisions, NEW q \in Seq(Calls), Apply(t, o, q)
  PROVE  /\ \A u \in Turns : u # t => pc'[u] = pc[u] /\ queue'[u] = queue[u] /\ fate'[u] = fate[u]
         /\ pc'[t] = AfterDecision(o)
         /\ pc'[t] \in {"starting", "refusing", "flush", "failed"}
         /\ pc'[t] \in {"starting", "refusing"} => queue'[t] = q
         /\ pc'[t] \in {"flush", "failed"} => queue'[t] = <<>>
         /\ fate'[t] = IF o = "cancelled" THEN "Cancelled" ELSE fate[t]
         /\ dropped' = dropped \/ (queue'[t] = <<>> /\ dropped' = dropped \cup Later(q))
<1>1. AfterDecision(o) = CASE o = "allow" -> "starting" [] o = "reject" -> "refusing"
                           [] o = "cancelled" -> "flush" [] o = "unrecognised" -> "failed"
  BY DEF AfterDecision, Decisions
<1>2. pc'[t] = AfterDecision(o) /\ \A u \in Turns : u # t => pc'[u] = pc[u]
  BY DEF Apply, Goto, TypeOK
<1>3. /\ queue'[t] = IF o \in {"allow", "reject"} THEN q ELSE <<>>
      /\ \A u \in Turns : u # t => queue'[u] = queue[u]
  BY DEF Apply, TypeOK
<1>4. /\ fate'[t] = IF o = "cancelled" THEN "Cancelled" ELSE fate[t]
      /\ \A u \in Turns : u # t => fate'[u] = fate[u]
  BY DEF Apply, TypeOK
<1>5. dropped' = IF o = "cancelled" THEN dropped \cup Later(q) ELSE dropped
  BY DEF Apply, Later
<1> QED BY <1>1, <1>2, <1>3, <1>4, <1>5 DEF Decisions

\* A policy that decides by itself ...
LEMMA PolicyResolvesEffect ==
  ASSUME TypeOK, NEW t \in Turns, NEW o \in Decisions, PolicyResolves(t, o)
  PROVE  /\ queue[t] # <<>> /\ pc[t] = "batch"
         /\ ~Unfit(Head(queue[t])) /\ ~RunsUnasked(Head(queue[t]))
         /\ UNCHANGED <<log, appended, iters, turnVars, owner, round, asked, ran, shown>>
         /\ Others(t)
         /\ pc'[t] = AfterDecision(o)
         /\ pc'[t] \in {"starting", "refusing", "flush", "failed"}
         /\ pc'[t] \in {"starting", "refusing"} => queue'[t] = queue[t]
         /\ pc'[t] \in {"flush", "failed"} => queue'[t] = <<>>
         /\ pc'[t] = "flush" => fate'[t] = "Cancelled"
         /\ buf'[t] = IF pc'[t] = "failed" THEN <<>> ELSE buf[t]
         /\ \/ dropped' = dropped
            \/ queue'[t] = <<>> /\ dropped' = dropped \cup Later(queue[t])
<1>1. /\ queue[t] # <<>> /\ pc[t] = "batch" /\ Apply(t, o, queue[t]) /\ queue[t] \in Seq(Calls)
      /\ ~Unfit(Head(queue[t])) /\ ~RunsUnasked(Head(queue[t]))
  BY DEF PolicyResolves, NeedsDecision, AtCall, TypeOK
<1>2. /\ \A u \in Turns : u # t => pc'[u] = pc[u] /\ queue'[u] = queue[u] /\ fate'[u] = fate[u]
      /\ pc'[t] = AfterDecision(o)
      /\ pc'[t] \in {"starting", "refusing", "flush", "failed"}
      /\ pc'[t] \in {"starting", "refusing"} => queue'[t] = queue[t]
      /\ pc'[t] \in {"flush", "failed"} => queue'[t] = <<>>
      /\ fate'[t] = IF o = "cancelled" THEN "Cancelled" ELSE fate[t]
      /\ dropped' = dropped \/ (queue'[t] = <<>> /\ dropped' = dropped \cup Later(queue[t]))
  BY <1>1, ApplyEffect
<1>3. (pc'[t] = "flush" <=> o = "cancelled") /\ (pc'[t] = "failed" <=> o = "unrecognised")
  BY <1>2 DEF AfterDecision, Decisions
<1>4. /\ UNCHANGED <<log, appended, iters, turnVars, owner, round, asked, ran, shown>>
      /\ buf' = [buf EXCEPT ![t] = IF o = "unrecognised" THEN <<>> ELSE @]
  BY DEF PolicyResolves
<1>5. /\ buf'[t] = IF o = "unrecognised" THEN <<>> ELSE buf[t]
      /\ \A u \in Turns : u # t => buf'[u] = buf[u]
  BY <1>4 DEF TypeOK
<1>6. Others(t)
  BY <1>2, <1>4, <1>5 DEF Others
<1> QED BY <1>1, <1>2, <1>3, <1>4, <1>5, <1>6

\* The stages of a turn that has no call open.
AtRest == {"idle", "awaiting", "finished", "failed"}

\* ... and a human who decides about a call that waited.
LEMMA ApproveEffect ==
  ASSUME TypeOK, NEW t \in Turns, NEW p \in Calls, NEW o \in Decisions, Approve(t, p, o)
  PROVE  /\ pc[t] \in AtRest /\ (p = held[t] \/ p \in handed)
         /\ ~Retry => pc[t] = "awaiting" /\ p = held[t]
         /\ UNCHANGED <<log, buf, appended, rounds, held, handed,
                        owner, round, asked, ran, shown>>
         /\ Others(t)
         /\ pc'[t] = AfterDecision(o)
         /\ pc'[t] \in {"starting", "refusing", "flush", "failed"}
         /\ pc'[t] \in {"starting", "refusing"} => queue'[t] = <<p>>
         /\ pc'[t] \in {"flush", "failed"} => queue'[t] = <<>>
         /\ pc'[t] = "flush" => fate'[t] = "Cancelled"
         /\ dropped' = dropped
<1> DEFINE q == <<p>>
<1>1. /\ pc[t] \in AtRest /\ (p = held[t] \/ p \in handed)
      /\ ~Retry => pc[t] = "awaiting" /\ p = held[t]
      /\ Apply(t, o, q)
      /\ UNCHANGED <<log, buf, appended, rounds, held, handed,
                     owner, round, asked, ran, shown>>
  BY DEF Approve, MayApprove, Busy, AtRest
<1>2. q \in Seq(Calls) /\ Later(q) = {}
  BY OneElement
<1> HIDE DEF q
<1>3. /\ \A u \in Turns : u # t => pc'[u] = pc[u] /\ queue'[u] = queue[u] /\ fate'[u] = fate[u]
      /\ pc'[t] = AfterDecision(o)
      /\ pc'[t] \in {"starting", "refusing", "flush", "failed"}
      /\ pc'[t] \in {"starting", "refusing"} => queue'[t] = q
      /\ pc'[t] \in {"flush", "failed"} => queue'[t] = <<>>
      /\ fate'[t] = IF o = "cancelled" THEN "Cancelled" ELSE fate[t]
      /\ dropped' = dropped \/ (queue'[t] = <<>> /\ dropped' = dropped \cup Later(q))
  BY <1>1, <1>2, ApplyEffect
<1>4. pc'[t] = "flush" <=> o = "cancelled"
  BY <1>3 DEF AfterDecision, Decisions
<1>5. Others(t)
  BY <1>1, <1>3 DEF Others
<1> QED BY <1>1, <1>2, <1>3, <1>4, <1>5 DEF q

\* A question sets the calls behind it aside.
LEMMA PolicyAsksEffect ==
  ASSUME TypeOK, NEW t \in Turns, PolicyAsks(t)
  PROVE  /\ queue[t] # <<>> /\ pc[t] = "batch" /\ pc'[t] = "flush"
         /\ ~Unfit(Head(queue[t])) /\ ~RunsUnasked(Head(queue[t]))
         /\ UNCHANGED <<log, buf, appended, iters, rounds, handed, answers,
                        owner, round, allowed, ran>>
         /\ Others(t)
         /\ queue'[t] = <<>> /\ held'[t] = Head(queue[t]) /\ fate'[t] = "Suspended"
         /\ shown'[Head(queue[t])] = "pending"
         /\ \A c \in Calls : c # Head(queue[t]) => shown'[c] = shown[c]
         /\ asked' = asked \cup {Head(queue[t])}
         /\ dropped' = dropped \cup Later(queue[t])
<1>1. queue[t] # <<>> /\ Head(queue[t]) \in Calls
  BY HeadType DEF PolicyAsks, NeedsDecision, AtCall
<1> QED BY <1>1 DEF PolicyAsks, NeedsDecision, AtCall, Goto, Others, Later, TypeOK

\* A reply's calls become calls of the turn; none of them was issued before.
LEMMA AgentRepliesEffect ==
  ASSUME TypeOK, NEW t \in Turns, NEW q \in Batches, NEW h \in BOOLEAN, AgentReplies(t, q, h)
  PROVE  /\ pc[t] = "prompting" /\ pc'[t] \in {"text", "batch", "closing"}
         /\ pc'[t] = "closing" => q = <<>>
         /\ UNCHANGED <<log, buf, appended, fate, iters, turnVars,
                        asked, dropped, allowed, ran, shown>>
         /\ Others(t)
         /\ q \in Seq(Calls) /\ queue'[t] = q /\ Distinct(q) /\ Len(q) <= MaxBatch
         /\ \A c \in Elements(q) : /\ owner[c] = None /\ c \in Calls
                                   /\ owner'[c] = t /\ round'[c] = rounds[t]
         /\ \A c \in Calls : c \notin Elements(q) => owner'[c] = owner[c] /\ round'[c] = round[c]
<1>1. /\ q \in Seq(Calls) /\ \A i \in DOMAIN q : q[i] \in Calls /\ owner[q[i]] = None
  BY BatchIsSeq
<1>2. Distinct(q) /\ Len(q) <= MaxBatch
  <2>1. PICK n \in 0..MaxBatch :
          q \in {f \in [1..n -> {c \in Calls : ~Issued(c)}] :
                   \A i, j \in 1..n : f[i] = f[j] => i = j}
    BY DEF Batches
  <2>2. DOMAIN q = 1..n /\ n \in Nat /\ n <= MaxBatch /\ Len(q) = n
    <3>1. n \in Nat /\ n <= MaxBatch /\ DOMAIN q = 1..n
      BY <2>1, ConstantsOK DEF ConstantsOK
    <3> QED BY <1>1, <3>1
  <2> QED BY <2>1, <2>2 DEF Distinct
<1>3. \A c : (\E i \in DOMAIN q : q[i] = c) <=> c \in Elements(q)
  BY DEF Elements
<1>4. /\ \A c \in Elements(q) : owner[c] = None /\ c \in Calls
                                /\ owner'[c] = t /\ round'[c] = rounds[t]
      /\ \A c \in Calls : c \notin Elements(q) => owner'[c] = owner[c] /\ round'[c] = round[c]
  BY <1>1, <1>3 DEF AgentReplies
<1> QED BY <1>1, <1>2, <1>4 DEF AgentReplies, Goto, Others, TypeOK

\* One entry of the buffer: the calls in order, then the results in order.
LEMMA FlushItems ==
  ASSUME NEW b \in Seq(Calls), NEW n \in Nat, n < 2 * Len(b)
  PROVE  /\ n < Len(b) => /\ n + 1 \in DOMAIN b
                          /\ FlushItem(b, n + 1) = <<"call", b[n + 1]>>
         /\ n >= Len(b) => /\ n + 1 - Len(b) \in DOMAIN b
                           /\ FlushItem(b, n + 1) = <<"result", b[n + 1 - Len(b)]>>
<1>1. Len(b) \in Nat /\ DOMAIN b = 1..Len(b)
  OBVIOUS
<1>2. CASE n < Len(b)
  BY <1>1, <1>2 DEF FlushItem
<1>3. CASE n >= Len(b)
  <2>1. n + 1 - Len(b) \in 1..Len(b) /\ ~(n + 1 <= Len(b)) /\ ~(n < Len(b))
    BY <1>1, <1>3
  <2> QED BY <1>1, <2>1 DEF FlushItem
<1> QED BY <1>1, <1>2, <1>3

\* A step of a flush writes one entry, of a call in the buffer ...
LEMMA FlushEntryEffect ==
  ASSUME TypeOK, NEW t \in Turns, FlushEntry(t)
  PROVE  /\ pc[t] = "flush" /\ appended[t] < 2 * Len(buf[t])
         /\ UNCHANGED <<pc, queue, buf, fate, iters, turnVars, callVars>>
         /\ Others(t)
         /\ appended'[t] = appended[t] + 1
         /\ \E i \in DOMAIN buf[t], k \in {"call", "result"} :
              /\ log' = Append(log, Entry(t, k, buf[t][i]))
              /\ Entry(t, k, buf[t][i]) \in Entries
              /\ k = "call" => i = appended[t] + 1
              /\ k = "result" => i = appended[t] + 1 - Len(buf[t])
              /\ k = "call" <=> appended[t] < Len(buf[t])
<1>1. /\ pc[t] = "flush" /\ appended[t] < 2 * Len(buf[t])
      /\ UNCHANGED <<pc, queue, buf, fate, iters, turnVars, callVars>>
      /\ appended' = [appended EXCEPT ![t] = @ + 1]
  BY DEF FlushEntry
<1>2. Others(t) /\ appended'[t] = appended[t] + 1
  BY <1>1 DEF Others, TypeOK
<1>3. buf[t] \in Seq(Calls) /\ appended[t] \in Nat
  BY DEF TypeOK
<1>4. LET item == FlushItem(buf[t], appended[t] + 1)
      IN  log' = Append(log, Entry(t, item[1], item[2]))
  BY DEF FlushEntry
<1>5. Len(buf[t]) \in Nat
  BY <1>3
<1>6. CASE appended[t] < Len(buf[t])
  <2>1. /\ appended[t] + 1 \in DOMAIN buf[t]
        /\ FlushItem(buf[t], appended[t] + 1) = <<"call", buf[t][appended[t] + 1]>>
    BY <1>1, <1>3, <1>6, FlushItems
  <2>2. Entry(t, "call", buf[t][appended[t] + 1]) \in Entries
    BY <1>3, <2>1 DEF Entry, Entries
  <2> QED BY <1>1, <1>2, <1>4, <1>6, <2>1, <2>2
<1>7. CASE appended[t] >= Len(buf[t])
  <2>1. /\ appended[t] + 1 - Len(buf[t]) \in DOMAIN buf[t]
        /\ FlushItem(buf[t], appended[t] + 1)
             = <<"result", buf[t][appended[t] + 1 - Len(buf[t])]>>
    BY <1>1, <1>3, <1>7, FlushItems
  <2>2. Entry(t, "result", buf[t][appended[t] + 1 - Len(buf[t])]) \in Entries
    BY <1>3, <2>1 DEF Entry, Entries
  <2>3. ~(appended[t] < Len(buf[t]))
    BY <1>3, <1>5, <1>7
  <2> QED BY <1>1, <1>2, <1>4, <2>3, <2>1, <2>2
<1>8. appended[t] < Len(buf[t]) \/ appended[t] >= Len(buf[t])
  BY <1>3, <1>5
<1> QED BY <1>6, <1>7, <1>8

\* ... and its end empties the buffer.
LEMMA FlushEndsEffect ==
  ASSUME TypeOK, NEW t \in Turns, FlushEnds(t)
  PROVE  /\ pc[t] = "flush" /\ appended[t] = 2 * Len(buf[t])
         /\ UNCHANGED <<log, queue, fate, iters, rounds, held, answers, callVars>>
         /\ handed' \subseteq handed \cup {held[t]}
         /\ Others(t)
         /\ pc'[t] \in {"loop", "closing", "awaiting"}
         /\ pc'[t] = "awaiting" <=> fate[t] = "Suspended"
         /\ buf'[t] = <<>> /\ appended'[t] = 0
<1>1. /\ pc'[t] \in {"loop", "closing", "awaiting"}
      /\ pc'[t] = "awaiting" <=> fate[t] = "Suspended"
  BY DEF FlushEnds, Goto, AfterFlush, TypeOK, Fates
<1> QED BY <1>1 DEF FlushEnds, Goto, Others, TypeOK

\* Every step is of one of these kinds.
LEMMA StepKinds ==
  ASSUME [Next]_vars
  PROVE  \/ \E t \in Turns :
              \/ Moves(t) \/ Errors(t) \/ Settles(t)
              \/ ReportInProgress(t) \/ CallTool(t)
              \/ (\E o \in Decisions : PolicyResolves(t, o))
              \/ \E p \in Calls, o \in Decisions : Approve(t, p, o)
              \/ PolicyAsks(t)
              \/ \E q \in Batches, h \in BOOLEAN : AgentReplies(t, q, h)
              \/ FlushEntry(t) \/ FlushEnds(t)
         \/ UNCHANGED vars
BY DEF Next, RuntimeStep, ConsumerStep, Rest, Moves, Errors, Settles

-----------------------------------------------------------------------------
(* Where a call can be.  A call that nobody issued, or that waits behind the *)
(* head of a queue, has left no trace; a call that was set aside has none     *)
(* but that, and is in nobody's hands.                                       *)

\* A call nothing has happened to.
Untouched(c) ==
  /\ c \notin dropped /\ c \notin asked
  /\ ran[c] = 0 /\ shown[c] = "none" /\ c \notin Entered(log)
  /\ \A t \in Turns : c \notin Elements(buf[t]) /\ held[t] # c

\* A call that was set aside, and stays so.
Aside(c) ==
  /\ ran[c] = 0 /\ shown[c] = "none" /\ c \notin Entered(log) /\ c \notin handed
  /\ \A t \in Turns :
       c \notin Elements(queue[t]) /\ c \notin Elements(buf[t]) /\ held[t] # c

\* The inductive strengthening of PauseHolds.
Placed ==
  /\ \A c \in Calls : owner[c] = None => Untouched(c)
  /\ \A t \in Turns :
       /\ Distinct(queue[t])
       /\ \A c \in Later(queue[t]) : Untouched(c)
       /\ pc[t] \in {"text", "batch"} => \A c \in Elements(queue[t]) : Untouched(c)
  /\ \A c \in dropped : Aside(c)

\* A queued call that nothing has happened to belongs to the turn, and to no other.
LEMMA QueuedOwned ==
  ASSUME TypeOK, Attributed, NEW t \in Turns, NEW c \in Elements(queue[t])
  PROVE  /\ c \in Calls /\ t # None
         /\ Untouched(c) => owner[c] = t
<1>1. PICK i \in DOMAIN queue[t] : c = queue[t][i]
  BY DEF Elements
<1>2. queue[t] \in Seq(Calls)
  BY DEF TypeOK
<1>3. c \in Calls
  BY <1>1, <1>2
<1>4. TakenUp(t, c)
  BY <1>1 DEF Attributed
<1> QED BY <1>3, <1>4, ConstantsOK DEF TakenUp, Untouched, ConstantsOK

\* What is behind the head of a queue is in the queue.
LEMMA LaterElements ==
  ASSUME TypeOK, NEW t \in Turns
  PROVE  Later(queue[t]) \subseteq Elements(queue[t])
<1>1. queue[t] \in Seq(Calls)
  BY DEF TypeOK
<1> QED BY <1>1 DEF Later, Elements

\* A step after which no turn has more in hand, and that marks no call.
LEMMA PlacedLess ==
  ASSUME TypeOK, Placed, UNCHANGED callVars, SameEntries, NEW t \in Turns, Others(t),
         held' = held, handed' \subseteq handed \cup {held[t]},
         queue'[t] = queue[t] \/ queue'[t] = <<>>,
         buf'[t] = buf[t] \/ buf'[t] = <<>>,
         pc'[t] \in {"text", "batch"} => pc[t] \in {"text", "batch"}
  PROVE  Placed'
<1>1. \A u \in Turns :
        /\ Distinct(queue[u]) => Distinct(queue'[u])
        /\ Later(queue'[u]) \subseteq Later(queue[u])
        /\ Elements(queue'[u]) \subseteq Elements(queue[u])
        /\ Elements(buf'[u]) \subseteq Elements(buf[u])
        /\ pc'[u] \in {"text", "batch"} => pc[u] \in {"text", "batch"}
  BY NoElements DEF Others
<1>2. \A u \in Turns : Elements(queue[u]) \subseteq Calls /\ Later(queue[u]) \subseteq Calls
  <2>1. \A u \in Turns : Elements(queue[u]) \subseteq Calls
    BY DEF TypeOK, Elements
  <2> QED BY <2>1, LaterElements
<1>3. \A c \in Calls : Untouched(c) => Untouched(c)'
  BY <1>1 DEF Untouched, SameEntries
<1>4. \A c \in dropped : Aside(c)'
  <2>1. dropped \subseteq Calls
    BY DEF TypeOK
  <2> QED BY <1>1, <2>1 DEF Placed, Aside, SameEntries
<1> QED BY <1>1, <1>2, <1>3, <1>4 DEF Placed

\* A step that marks the call at the head of a queue, or drops those behind it.
LEMMA PlacedHead ==
  ASSUME TypeOK, Attributed, Placed, NEW t \in Turns, queue[t] # <<>>, Others(t),
         owner' = owner, log' = log, handed' = handed,
         asked' \subseteq asked \cup {Head(queue[t])},
         \A c \in Calls : c # Head(queue[t]) => ran'[c] = ran[c] /\ shown'[c] = shown[c],
         held'[t] = held[t] \/ held'[t] = Head(queue[t]),
         Elements(buf'[t]) \subseteq Elements(buf[t]) \cup {Head(queue[t])},
         \/ queue'[t] = queue[t] /\ pc'[t] \notin {"text", "batch"}
         \/ queue'[t] = Tail(queue[t])
         \/ queue'[t] = <<>>,
         \/ dropped' = dropped
         \/ queue'[t] = <<>> /\ dropped' = dropped \cup Later(queue[t])
  PROVE  Placed'
<1> DEFINE h == Head(queue[t])
<1>1. /\ queue[t] \in Seq(Calls) /\ h \in Calls /\ h \in Elements(queue[t])
      /\ Elements(queue[t]) = {h} \cup Later(queue[t])
      /\ Elements(Tail(queue[t])) = Later(queue[t])
      /\ Later(Tail(queue[t])) \subseteq Later(queue[t])
      /\ Distinct(queue[t]) /\ Distinct(Tail(queue[t])) /\ h \notin Later(queue[t])
  <2>1. queue[t] \in Seq(Calls) /\ h \in Calls
    BY HeadType DEF TypeOK
  <2>2. Distinct(queue[t])
    BY DEF Placed
  <2> QED BY <2>1, <2>2, TailElements
<1> HIDE DEF h
<1>2. h \notin dropped /\ t # None /\ (Untouched(h) => owner[h] = t)
  BY <1>1, QueuedOwned DEF Placed, Aside
<1>3. /\ Distinct(queue'[t]) /\ Later(queue'[t]) \subseteq Later(queue[t])
      /\ Elements(queue'[t]) \subseteq Elements(queue[t])
      /\ pc'[t] \in {"text", "batch"} => Elements(queue'[t]) \subseteq Later(queue[t])
  BY <1>1, NoElements
<1>4. \A u \in Turns : u # t =>
        /\ queue'[u] = queue[u] /\ buf'[u] = buf[u] /\ held'[u] = held[u] /\ pc'[u] = pc[u]
        /\ \A c \in Elements(queue[u]) : c \in Calls /\ (Untouched(c) => owner[c] = u)
        /\ Later(queue[u]) \subseteq Elements(queue[u])
  BY QueuedOwned, LaterElements DEF Others
<1>5. \A c \in Later(queue[t]) : c \in Calls /\ owner[c] = t /\ Untouched(c) /\ c # h
  BY <1>1, QueuedOwned DEF Placed
<1>13. \A c \in Calls : owner[c] = None => c # h
  BY <1>1, <1>2 DEF Placed
<1>6. ASSUME NEW c \in Calls, c # h, Untouched(c), c \in Later(queue[t]) => dropped' = dropped
      PROVE  Untouched(c)'
  BY <1>4, <1>6 DEF Untouched, h
<1>7. \A c \in Calls : owner'[c] = None => Untouched(c)'
  BY <1>2, <1>5, <1>6, <1>13 DEF Placed
<1>8. ASSUME NEW c \in Later(queue'[t]) PROVE Untouched(c)'
  <2>1. c \in Later(queue[t]) /\ queue'[t] # <<>>
    BY <1>3, NoElements
  <2>2. dropped' = dropped
    BY <2>1
  <2> QED BY <1>5, <1>6, <2>1, <2>2
<1>9. ASSUME pc'[t] \in {"text", "batch"}, NEW c \in Elements(queue'[t]) PROVE Untouched(c)'
  <2>1. c \in Later(queue[t]) /\ queue'[t] # <<>>
    BY <1>3, <1>9, NoElements
  <2>2. dropped' = dropped
    BY <2>1
  <2> QED BY <1>5, <1>6, <2>1, <2>2
<1>10. ASSUME NEW u \in Turns, u # t
       PROVE  /\ Distinct(queue'[u])
              /\ \A c \in Later(queue'[u]) : Untouched(c)'
              /\ pc'[u] \in {"text", "batch"} => \A c \in Elements(queue'[u]) : Untouched(c)'
  <2>1. \A c \in Elements(queue[u]) :
          Untouched(c) => c \in Calls /\ c # h /\ c \notin Later(queue[t])
    BY <1>2, <1>4, <1>5, <1>10
  <2>2. Distinct(queue[u]) /\ (\A c \in Later(queue[u]) : Untouched(c))
        /\ (pc[u] \in {"text", "batch"} => \A c \in Elements(queue[u]) : Untouched(c))
    BY DEF Placed
  <2> QED BY <1>4, <1>6, <1>10, <2>1, <2>2
<1>11. ASSUME NEW c \in dropped' PROVE Aside(c)'
  <2>1. CASE c \in dropped
    <3>1. c \in Calls /\ c # h /\ Aside(c)
      BY <1>2, <2>1 DEF Placed, TypeOK
    <3>2. c \notin Elements(queue'[t]) /\ c \notin Elements(buf'[t]) /\ held'[t] # c
      BY <1>3, <3>1 DEF Aside, h
    <3> QED BY <1>4, <3>1, <3>2 DEF Aside, h
  <2>2. CASE c \notin dropped
    <3>1. c \in Later(queue[t]) /\ queue'[t] = <<>>
      BY <1>11, <2>2
    <3>2. c \in Calls /\ owner[c] = t /\ Untouched(c) /\ c # h
      BY <1>5, <3>1
    <3>3. \A u \in Turns : c \notin Elements(queue'[u])
      BY <1>4, <3>1, <3>2, NoElements
    <3>4. c \notin Elements(buf'[t]) /\ held'[t] # c
      BY <3>2 DEF Untouched, h
    <3>5. c \notin handed'
      BY <3>2, ConstantsOK DEF Attributed, Untouched, ConstantsOK
    <3> QED BY <1>4, <3>2, <3>3, <3>4, <3>5 DEF Aside, Untouched, h
  <2> QED BY <2>1, <2>2
<1>12. \A u \in Turns :
         /\ Distinct(queue'[u])
         /\ \A c \in Later(queue'[u]) : Untouched(c)'
         /\ pc'[u] \in {"text", "batch"} => \A c \in Elements(queue'[u]) : Untouched(c)'
  BY <1>3, <1>8, <1>9, <1>10
<1> QED BY <1>7, <1>11, <1>12 DEF Placed

\* The decision on the call a consumer held takes that call up again.
LEMMA PlacedApprove ==
  ASSUME TypeOK, Placed, NEW t \in Turns, NEW p \in Calls, NEW o \in Decisions,
         Approve(t, p, o)
  PROVE  Placed'
<1>1. /\ p = held[t] \/ p \in handed
      /\ UNCHANGED <<log, buf, held, handed, owner, asked, ran, shown>>
      /\ Others(t)
      /\ pc'[t] \notin {"text", "batch"}
      /\ queue'[t] = <<p>> \/ queue'[t] = <<>>
      /\ dropped' = dropped
  BY ApproveEffect
<1>2. Distinct(queue'[t]) /\ Later(queue'[t]) = {} /\ Elements(queue'[t]) \subseteq {p}
  BY <1>1, OneElement, NoElements
<1>3. \A c : Untouched(c)' <=> Untouched(c)
  BY <1>1 DEF Untouched
<1>4. \A c \in dropped : Aside(c)'
  <2>1. \A c \in dropped : c # p /\ Aside(c)
    BY <1>1 DEF Placed, Aside
  <2> QED BY <1>1, <1>2, <2>1 DEF Aside, Others
<1>5. \A u \in Turns :
        /\ Distinct(queue'[u])
        /\ \A c \in Later(queue'[u]) : Untouched(c)'
        /\ pc'[u] \in {"text", "batch"} => \A c \in Elements(queue'[u]) : Untouched(c)'
  BY <1>1, <1>2, <1>3 DEF Placed, Others
<1> QED BY <1>1, <1>3, <1>4, <1>5 DEF Placed

\* The calls of a reply are new.
LEMMA PlacedReplies ==
  ASSUME TypeOK, Placed, NEW t \in Turns, NEW q \in Batches, NEW h \in BOOLEAN,
         AgentReplies(t, q, h)
  PROVE  Placed'
<1>1. /\ UNCHANGED <<log, buf, held, handed, asked, dropped, ran, shown>>
      /\ Others(t)
      /\ q \in Seq(Calls) /\ queue'[t] = q /\ Distinct(q)
      /\ \A c \in Elements(q) : owner[c] = None /\ c \in Calls /\ owner'[c] = t
      /\ \A c \in Calls : c \notin Elements(q) => owner'[c] = owner[c]
  BY AgentRepliesEffect
<1>2. \A c : Untouched(c)' <=> Untouched(c)
  BY <1>1 DEF Untouched
<1>3. \A c \in Elements(q) : Untouched(c)
  BY <1>1 DEF Placed
<1>4. Later(q) \subseteq Elements(q)
  BY <1>1 DEF Later, Elements
<1>5. t # None
  BY ConstantsOK DEF ConstantsOK
<1>6. \A c \in dropped : Aside(c)'
  BY <1>1, <1>3 DEF Placed, Aside, Others, Untouched
<1>7. \A u \in Turns :
        /\ Distinct(queue'[u])
        /\ \A c \in Later(queue'[u]) : Untouched(c)'
        /\ pc'[u] \in {"text", "batch"} => \A c \in Elements(queue'[u]) : Untouched(c)'
  BY <1>1, <1>2, <1>3, <1>4 DEF Placed, Others
<1>8. \A c \in Calls : owner'[c] = None => Untouched(c)'
  BY <1>1, <1>2, <1>5 DEF Placed
<1> QED BY <1>1, <1>6, <1>7, <1>8 DEF Placed

\* What a flush stores was in the buffer.
LEMMA PlacedFlush ==
  ASSUME TypeOK, Placed, NEW t \in Turns, FlushEntry(t)
  PROVE  Placed'
<1>1. UNCHANGED <<pc, queue, buf, held, handed, callVars>>
  BY FlushEntryEffect
<1>2. Entered(log') \subseteq Entered(log) \cup Elements(buf[t])
  <2>1. PICK i \in DOMAIN buf[t], k \in {"call", "result"} :
          log' = Append(log, Entry(t, k, buf[t][i])) /\ Entry(t, k, buf[t][i]) \in Entries
    BY FlushEntryEffect
  <2>2. log \in Seq(Entries)
    BY DEF TypeOK
  <2> QED BY <2>1, <2>2, EntryAdded DEF Entry, Elements
<1>3. \A c : Untouched(c) => Untouched(c)'
  BY <1>1, <1>2 DEF Untouched
<1>4. \A c : Aside(c) => Aside(c)'
  BY <1>1, <1>2 DEF Aside
<1> QED BY <1>1, <1>3, <1>4 DEF Placed

\* Every call is where it may be, whatever overlaps, fails or is submitted again.
THEOREM PlacedCorrect == Spec => []Placed
<1>1. Init => Placed
  <2> SUFFICES ASSUME Init PROVE Placed
    OBVIOUS
  <2>1. \A t \in Turns : queue[t] = <<>> /\ buf[t] = <<>> /\ held[t] = None
    BY DEF Init
  <2>2. Entered(log) = {} /\ dropped = {} /\ asked = {} /\ handed = {}
    BY DEF Init, Entered
  <2>3. \A c \in Calls : ran[c] = 0 /\ shown[c] = "none" /\ c # None
    BY ConstantsOK DEF Init, ConstantsOK
  <2> QED BY <2>1, <2>2, <2>3, NoElements DEF Placed, Untouched
<1>2. TypeOK /\ Attributed /\ Placed /\ [Next]_vars => Placed'
  <2> SUFFICES ASSUME TypeOK, Attributed, Placed, [Next]_vars PROVE Placed'
    OBVIOUS
  <2>1. ASSUME NEW t \in Turns, Moves(t) PROVE Placed'
    BY <2>1, MovesEffect, PlacedLess
  <2>2. ASSUME NEW t \in Turns, Errors(t) PROVE Placed'
    <3>1. SameEntries
      BY <2>2, ErrorsEffect DEF SameEntries
    <3> QED BY <2>2, <3>1, ErrorsEffect, PlacedLess
  <2>3. ASSUME NEW t \in Turns, Settles(t) PROVE Placed'
    <3>1. /\ buf[t] \in Seq(Calls) /\ Head(queue[t]) \in Calls
          /\ buf'[t] = Append(buf[t], Head(queue[t]))
      BY <2>3, HeadType, SettlesEffect DEF TypeOK
    <3>2. Elements(buf'[t]) \subseteq Elements(buf[t]) \cup {Head(queue[t])}
      BY <3>1, AppendElements
    <3> QED BY <2>3, <3>2, SettlesEffect, PlacedHead
  <2>4. ASSUME NEW t \in Turns, ReportInProgress(t) PROVE Placed'
    BY <2>4, ReportInProgressEffect, PlacedHead
  <2>5. ASSUME NEW t \in Turns, CallTool(t) PROVE Placed'
    BY <2>5, CallToolEffect, PlacedHead
  <2>6. ASSUME NEW t \in Turns, NEW o \in Decisions, PolicyResolves(t, o) PROVE Placed'
    <3>1. Elements(buf'[t]) \subseteq Elements(buf[t])
      BY <2>6, PolicyResolvesEffect, NoElements
    <3> QED BY <2>6, <3>1, PolicyResolvesEffect, PlacedHead
  <2>7. ASSUME NEW t \in Turns, PolicyAsks(t) PROVE Placed'
    BY <2>7, PolicyAsksEffect, PlacedHead
  <2>8. ASSUME NEW t \in Turns, FlushEnds(t) PROVE Placed'
    <3>1. SameEntries
      BY <2>8, FlushEndsEffect DEF SameEntries
    <3> QED BY <2>8, <3>1, FlushEndsEffect, PlacedLess
  <2>9. CASE UNCHANGED vars
    BY <2>9 DEF vars, Placed, Untouched, Aside
  <2> QED BY <2>1, <2>2, <2>3, <2>4, <2>5, <2>6, <2>7, <2>8, <2>9,
             PlacedApprove, PlacedReplies, PlacedFlush, StepKinds
<1> QED BY <1>1, <1>2, TypeCorrect, AttributedCorrect, PTL DEF Spec

\* The calls behind a pause or a cancellation are not run, reported or stored
\* later, whatever interleaves and also when a pending call is submitted again
\* (Batch::Suspended and Batch::Cancelled of run_batch and apply).
THEOREM PauseStands == Spec => []PauseHolds
<1>1. TypeOK /\ Placed => PauseHolds
  <2> SUFFICES ASSUME TypeOK, Placed, NEW c \in dropped
               PROVE  ran[c] = 0 /\ shown[c] = "none" /\ ~Recorded(c)
    BY DEF PauseHolds
  <2>1. Results(log) \subseteq Entered(log)
    BY DEF Results, Entered
  <2> QED BY <2>1, RecordedResults DEF Placed, Aside
<1> QED BY <1>1, TypeCorrect, PlacedCorrect, PTL

-----------------------------------------------------------------------------
(* Where a turn stands, and what it has in hand there.                      *)

\* From which stage to which those steps lead.
LEMMA MovesStages ==
  ASSUME TypeOK, NEW t \in Turns, Moves(t)
  PROVE  /\ \/ pc[t] = "idle" /\ pc'[t] \in {"greeting", "failed"}
            \/ pc[t] = "greeting" /\ pc'[t] \in {"greeting", "loop"}
            \/ pc[t] = "loop" /\ pc'[t] = "prompting"
            \/ pc[t] = "text" /\ pc'[t] = "closing" /\ queue[t] = <<>>
            \/ pc[t] = "text" /\ pc'[t] = "batch" /\ queue[t] # <<>>
            \/ pc[t] = "closing" /\ pc'[t] = "finished"
            \/ pc[t] = "batch" /\ pc'[t] = "starting" /\ queue[t] # <<>>
            \/ /\ pc[t] = "batch" /\ pc'[t] = "flush" /\ queue[t] = <<>>
               /\ fate'[t] = "Completed"
            \/ pc[t] = "awaiting" /\ pc'[t] = "failed"
            \/ pc[t] \in AtRest /\ pc'[t] = "failed" /\ Retry
         /\ rounds'[t] = IF pc[t] = "loop" THEN rounds[t] + 1 ELSE rounds[t]
<1>1. CASE Handle(t) \/ HandleUnknownAgent(t)
  BY <1>1 DEF Handle, HandleUnknownAgent, Goto, TypeOK
<1>2. CASE AppendBlock(t) \/ MessageStored(t)
  BY <1>2 DEF AppendBlock, MessageStored, Goto, TypeOK
<1>3. CASE Assemble(t)
  BY <1>3 DEF Assemble, Goto, TypeOK
<1>4. CASE AppendText(t) \/ EmitDone(t)
  BY <1>4 DEF AppendText, EmitDone, Goto, TypeOK
<1>5. CASE DispatchRead(t) \/ BatchEnds(t)
  BY <1>5 DEF DispatchRead, BatchEnds, AtCall, Goto, TypeOK
<1>6. CASE \E p \in Calls : ApproveUnknown(t, p)
  BY <1>6 DEF ApproveUnknown, MayApprove, Busy, AtRest, Goto, TypeOK
<1> QED BY <1>1, <1>2, <1>3, <1>4, <1>5, <1>6 DEF Moves

\* Stages at which a call is at the head of the queue to be run or refused.
AtHead == {"starting", "calling", "called", "refusing"}

\* A queue and a buffer are empty outside the stages that use them.
Tidy ==
  \A t \in Turns :
    /\ pc[t] \notin AtHead \cup {"text", "batch"} => queue[t] = <<>>
    /\ pc[t] \in AtHead => queue[t] # <<>>
    /\ pc[t] \notin AtHead \cup {"batch", "flush"} => buf[t] = <<>>

\* Nothing is left over when a turn leaves those stages, also by an error.
THEOREM TidyCorrect == Spec => []Tidy
<1>1. Init => Tidy
  BY DEF Init, Tidy, AtHead
<1>2. TypeOK /\ Tidy /\ [Next]_vars => Tidy'
  <2> SUFFICES ASSUME TypeOK, Tidy, [Next]_vars PROVE Tidy'
    OBVIOUS
  <2> DEFINE TidyAt(t) ==
        /\ pc'[t] \notin AtHead \cup {"text", "batch"} => queue'[t] = <<>>
        /\ pc'[t] \in AtHead => queue'[t] # <<>>
        /\ pc'[t] \notin AtHead \cup {"batch", "flush"} => buf'[t] = <<>>
  <2>0. ASSUME NEW t \in Turns, Others(t), TidyAt(t) PROVE Tidy'
    BY <2>0 DEF Tidy, Others
  <2>1. ASSUME NEW t \in Turns, Moves(t) PROVE Tidy'
    <3>1. TidyAt(t)
      BY <2>1, MovesStages, MovesEffect DEF Tidy, AtHead, AtRest
    <3> QED BY <2>0, <2>1, <3>1, MovesEffect
  <2>2. ASSUME NEW t \in Turns, Errors(t) PROVE Tidy'
    BY <2>0, <2>2, ErrorsEffect DEF AtHead
  <2>3. ASSUME NEW t \in Turns, Settles(t) PROVE Tidy'
    BY <2>0, <2>3, SettlesEffect DEF AtHead
  <2>4. ASSUME NEW t \in Turns, ReportInProgress(t) PROVE Tidy'
    BY <2>0, <2>4, ReportInProgressEffect DEF AtHead
  <2>5. ASSUME NEW t \in Turns, CallTool(t) PROVE Tidy'
    BY <2>0, <2>5, CallToolEffect DEF AtHead
  <2>6. ASSUME NEW t \in Turns, NEW o \in Decisions, PolicyResolves(t, o) PROVE Tidy'
    BY <2>0, <2>6, PolicyResolvesEffect DEF AtHead
  <2>7. ASSUME NEW t \in Turns, NEW p \in Calls, NEW o \in Decisions, Approve(t, p, o) PROVE Tidy'
    BY <2>0, <2>7, ApproveEffect DEF Tidy, AtHead, AtRest
  <2>8. ASSUME NEW t \in Turns, PolicyAsks(t) PROVE Tidy'
    BY <2>0, <2>8, PolicyAsksEffect DEF AtHead
  <2>9. ASSUME NEW t \in Turns, NEW q \in Batches, NEW h \in BOOLEAN, AgentReplies(t, q, h)
        PROVE  Tidy'
    BY <2>0, <2>9, AgentRepliesEffect DEF Tidy, AtHead
  <2>10. ASSUME NEW t \in Turns, FlushEntry(t) PROVE Tidy'
    BY <2>10, FlushEntryEffect DEF Tidy
  <2>11. ASSUME NEW t \in Turns, FlushEnds(t) PROVE Tidy'
    BY <2>0, <2>11, FlushEndsEffect DEF Tidy, AtHead
  <2>12. CASE UNCHANGED vars
    BY <2>12 DEF vars, Tidy
  <2> QED BY <2>1, <2>2, <2>3, <2>4, <2>5, <2>6, <2>7, <2>8, <2>9, <2>10, <2>11, <2>12,
             StepKinds
<1> QED BY <1>1, <1>2, TypeCorrect, PTL DEF Spec

-----------------------------------------------------------------------------
(* Submitted once, a call is run once and its status moves on.                *)

\* The turn's flush, or its consumer, has a call that waits for a decision.
Suspended(t) == pc[t] = "awaiting" \/ (pc[t] = "flush" /\ fate[t] = "Suspended")

\* The call a turn is about to run, or its consumer holds, has not been run.
OnceAt(t) ==
  /\ pc[t] \in {"starting", "refusing"} =>
       ran[Head(queue[t])] = 0 /\ shown[Head(queue[t])] \in {"none", "pending"}
  /\ pc[t] = "calling" =>
       ran[Head(queue[t])] = 0 /\ shown[Head(queue[t])] = "in_progress"
  /\ pc[t] = "called" => shown[Head(queue[t])] = "in_progress"
  /\ Suspended(t) => held[t] # None /\ ran[held[t]] = 0 /\ shown[held[t]] = "pending"

\* No call has been run twice.
RunOnce == \A c \in Calls : ran[c] <= 1

\* What holds of every call when each decision is submitted once.
Once == (\A t \in Turns : OnceAt(t)) /\ RunOnce

\* The steps of one turn do nothing to the calls in another's hands.
LEMMA OnceOthers ==
  ASSUME TypeOK, Owned, Tidy, Once, NEW t \in Turns, Others(t),
         \A c \in Calls : owner[c] # t => ran'[c] = ran[c] /\ shown'[c] = shown[c],
         NEW u \in Turns, u # t
  PROVE  OnceAt(u)'
<1>1. /\ pc'[u] = pc[u] /\ queue'[u] = queue[u] /\ held'[u] = held[u] /\ fate'[u] = fate[u]
      /\ OnceAt(u)
  BY DEF Others, Once
<1>2. ASSUME pc[u] \in AtHead
      PROVE  ran'[Head(queue[u])] = ran[Head(queue[u])] /\ shown'[Head(queue[u])] = shown[Head(queue[u])]
  <2>1. queue[u] # <<>>
    BY <1>2 DEF Tidy
  <2>2. Head(queue[u]) \in Calls /\ owner[Head(queue[u])] = u
    BY <2>1, HeadType, OwnedHead
  <2> QED BY <2>2
<1>3. ASSUME held[u] # None
      PROVE  ran'[held[u]] = ran[held[u]] /\ shown'[held[u]] = shown[held[u]]
  <2>1. held[u] \in Calls /\ owner[held[u]] = u
    BY <1>3 DEF TypeOK, Owned
  <2> QED BY <2>1
<1> QED BY <1>1, <1>2, <1>3 DEF OnceAt, Suspended, AtHead

\* A report never takes back an outcome: the step of StatusSettles.
Settled == \A c \in Calls : shown[c] \in Outcomes => shown'[c] = shown[c]

\* A step that marks at most the call at the head of the turn's own queue.
LEMMA OnceMark ==
  ASSUME TypeOK, Owned, Tidy, Once, NEW t \in Turns, Others(t), queue[t] # <<>>,
         \A c \in Calls : c # Head(queue[t]) => ran'[c] = ran[c] /\ shown'[c] = shown[c],
         ran'[Head(queue[t])] <= 1,
         shown[Head(queue[t])] \notin Outcomes,
         OnceAt(t)'
  PROVE  Once' /\ Settled
<1>1. Head(queue[t]) \in Calls /\ owner[Head(queue[t])] = t
  BY HeadType, OwnedHead
<1>2. \A c \in Calls : owner[c] # t => ran'[c] = ran[c] /\ shown'[c] = shown[c]
  BY <1>1
<1>3. \A u \in Turns : OnceAt(u)'
  BY <1>2, OnceOthers
<1>4. RunOnce'
  BY DEF Once, RunOnce
<1> QED BY <1>3, <1>4 DEF Once, Settled

\* A step that marks no call.
LEMMA OnceSilent ==
  ASSUME TypeOK, Owned, Tidy, Once, NEW t \in Turns, Others(t),
         ran' = ran, shown' = shown, OnceAt(t)'
  PROVE  Once' /\ Settled
<1>1. \A u \in Turns : OnceAt(u)'
  BY OnceOthers
<1> QED BY <1>1 DEF Once, RunOnce, Settled

\* What a step does to the calls when a decision is submitted once.
LEMMA OnceStep ==
  ASSUME ~Retry, TypeOK, Owned, Placed, Tidy, Once, [Next]_vars
  PROVE  Once' /\ Settled
<1>1. ASSUME NEW t \in Turns, queue[t] # <<>>
      PROVE  Head(queue[t]) \in Calls /\ Head(queue[t]) \in Elements(queue[t])
  <2>1. queue[t] \in Seq(Calls)
    BY DEF TypeOK
  <2> QED BY <1>1, <2>1, HeadType, TailElements
<1>2. ASSUME NEW t \in Turns, queue[t] # <<>>, pc[t] = "batch"
      PROVE  ran[Head(queue[t])] = 0 /\ shown[Head(queue[t])] = "none"
  BY <1>1, <1>2 DEF Placed, Untouched
<1>3. ASSUME NEW t \in Turns, Moves(t) PROVE Once' /\ Settled
  <2>1. /\ Others(t) /\ UNCHANGED <<queue, held, ran, shown>>
    BY <1>3, MovesEffect
  <2>2. CASE pc[t] = "batch" /\ pc'[t] = "starting" /\ queue[t] # <<>>
    <3>1. OnceAt(t)'
      BY <1>2, <2>1, <2>2 DEF OnceAt, Suspended
    <3> QED BY <2>1, <3>1, OnceSilent
  <2>3. CASE ~(pc[t] = "batch" /\ pc'[t] = "starting" /\ queue[t] # <<>>)
    <3>1. ~Suspended(t)' /\ pc'[t] \notin AtHead
      BY <1>3, <2>3, MovesStages DEF Suspended, AtHead
    <3>2. OnceAt(t)'
      BY <3>1 DEF OnceAt, Suspended, AtHead
    <3> QED BY <2>1, <3>2, OnceSilent
  <2> QED BY <2>2, <2>3
<1>4. ASSUME NEW t \in Turns, Errors(t) PROVE Once' /\ Settled
  <2>1. Others(t) /\ ran' = ran /\ shown' = shown /\ pc'[t] = "failed"
    BY <1>4, ErrorsEffect
  <2>2. OnceAt(t)'
    BY <2>1 DEF OnceAt, Suspended
  <2> QED BY <2>1, <2>2, OnceSilent
<1>5. ASSUME NEW t \in Turns, Settles(t) PROVE Once' /\ Settled
  <2>1. /\ queue[t] # <<>> /\ pc[t] \in {"batch", "called", "refusing"} /\ Others(t)
        /\ ran' = ran /\ pc'[t] = "batch"
        /\ \A c \in Calls : c # Head(queue[t]) => shown'[c] = shown[c]
    BY <1>5, SettlesEffect
  <2>2. OnceAt(t)'
    BY <2>1 DEF OnceAt, Suspended
  <2>3. ran[Head(queue[t])] <= 1
    BY <1>1, <2>1 DEF Once, RunOnce
  <2>4. shown[Head(queue[t])] \notin Outcomes
    BY <1>2, <2>1 DEF Once, OnceAt, Outcomes
  <2> QED BY <2>1, <2>2, <2>3, <2>4, OnceMark
<1>6. ASSUME NEW t \in Turns, ReportInProgress(t) PROVE Once' /\ Settled
  <2>1. /\ queue[t] # <<>> /\ pc[t] = "starting" /\ pc'[t] = "calling" /\ Others(t)
        /\ ran' = ran /\ queue' = queue
        /\ shown'[Head(queue[t])] = "in_progress"
        /\ \A c \in Calls : c # Head(queue[t]) => shown'[c] = shown[c]
    BY <1>6, ReportInProgressEffect
  <2>2. ran[Head(queue[t])] = 0 /\ shown[Head(queue[t])] \notin Outcomes
    BY <2>1 DEF Once, OnceAt, Outcomes
  <2>3. OnceAt(t)'
    BY <2>1, <2>2 DEF OnceAt, Suspended
  <2> QED BY <2>1, <2>2, <2>3, OnceMark
<1>7. ASSUME NEW t \in Turns, CallTool(t) PROVE Once' /\ Settled
  <2>1. /\ queue[t] # <<>> /\ pc[t] = "calling" /\ pc'[t] = "called" /\ Others(t)
        /\ shown' = shown /\ queue' = queue
        /\ ran'[Head(queue[t])] = ran[Head(queue[t])] + 1
        /\ \A c \in Calls : c # Head(queue[t]) => ran'[c] = ran[c]
    BY <1>7, CallToolEffect
  <2>2. ran[Head(queue[t])] = 0 /\ shown[Head(queue[t])] = "in_progress"
    BY <2>1 DEF Once, OnceAt
  <2>3. OnceAt(t)'
    BY <2>1, <2>2 DEF OnceAt, Suspended
  <2> QED BY <2>1, <2>2, <2>3, OnceMark DEF Outcomes
<1>8. ASSUME NEW t \in Turns, NEW o \in Decisions, PolicyResolves(t, o) PROVE Once' /\ Settled
  <2>1. /\ queue[t] # <<>> /\ pc[t] = "batch" /\ Others(t)
        /\ ran' = ran /\ shown' = shown
        /\ pc'[t] \in {"starting", "refusing", "flush", "failed"}
        /\ pc'[t] \in {"starting", "refusing"} => queue'[t] = queue[t]
        /\ pc'[t] = "flush" => fate'[t] = "Cancelled"
    BY <1>8, PolicyResolvesEffect
  <2>2. OnceAt(t)'
    BY <1>2, <2>1 DEF OnceAt, Suspended
  <2> QED BY <2>1, <2>2, OnceSilent
<1>9. ASSUME NEW t \in Turns, NEW p \in Calls, NEW o \in Decisions, Approve(t, p, o) PROVE Once' /\ Settled
  <2>1. /\ p = held[t] /\ p # None /\ pc[t] = "awaiting" /\ Others(t)
        /\ ran' = ran /\ shown' = shown
        /\ pc'[t] \in {"starting", "refusing", "flush", "failed"}
        /\ pc'[t] \in {"starting", "refusing"} => queue'[t] = <<held[t]>>
        /\ pc'[t] = "flush" => fate'[t] = "Cancelled"
    BY <1>9, ApproveEffect, ConstantsOK DEF ConstantsOK
  <2>2. ran[held[t]] = 0 /\ shown[held[t]] = "pending"
    BY <2>1 DEF Once, OnceAt, Suspended
  <2>3. pc'[t] \in {"starting", "refusing"} => Head(queue'[t]) = held[t]
    BY <2>1, OneElement
  <2>4. OnceAt(t)'
    BY <2>1, <2>2, <2>3 DEF OnceAt, Suspended
  <2> QED BY <2>1, <2>4, OnceSilent
<1>10. ASSUME NEW t \in Turns, PolicyAsks(t) PROVE Once' /\ Settled
  <2>1. /\ queue[t] # <<>> /\ pc[t] = "batch" /\ pc'[t] = "flush" /\ Others(t)
        /\ ran' = ran /\ held'[t] = Head(queue[t])
        /\ shown'[Head(queue[t])] = "pending"
        /\ \A c \in Calls : c # Head(queue[t]) => shown'[c] = shown[c]
    BY <1>10, PolicyAsksEffect
  <2>2. /\ ran[Head(queue[t])] = 0 /\ shown[Head(queue[t])] \notin Outcomes
        /\ Head(queue[t]) # None
    BY <1>1, <1>2, <2>1, ConstantsOK DEF Outcomes, ConstantsOK
  <2>3. OnceAt(t)'
    BY <2>1, <2>2 DEF OnceAt, Suspended
  <2> QED BY <2>1, <2>2, <2>3, OnceMark
<1>11. ASSUME NEW t \in Turns, NEW q \in Batches, NEW h \in BOOLEAN, AgentReplies(t, q, h)
       PROVE  Once' /\ Settled
  <2>1. /\ pc'[t] \in {"text", "batch", "closing"} /\ Others(t) /\ ran' = ran /\ shown' = shown
    BY <1>11, AgentRepliesEffect
  <2>2. OnceAt(t)'
    BY <2>1 DEF OnceAt, Suspended
  <2> QED BY <2>1, <2>2, OnceSilent
<1>12. ASSUME NEW t \in Turns, FlushEntry(t) PROVE Once' /\ Settled
  <2>1. UNCHANGED <<pc, queue, fate, held, ran, shown>>
    BY <1>12, FlushEntryEffect
  <2> QED BY <2>1 DEF Once, OnceAt, Suspended, RunOnce, Settled
<1>13. ASSUME NEW t \in Turns, FlushEnds(t) PROVE Once' /\ Settled
  <2>1. /\ pc[t] = "flush" /\ pc'[t] \in {"loop", "closing", "awaiting"} /\ Others(t)
        /\ UNCHANGED <<queue, held, ran, shown>>
        /\ pc'[t] = "awaiting" <=> fate[t] = "Suspended"
    BY <1>13, FlushEndsEffect
  <2>2. OnceAt(t)'
    BY <2>1 DEF Once, OnceAt, Suspended
  <2> QED BY <2>1, <2>2, OnceSilent
<1>14. CASE UNCHANGED vars
  BY <1>14 DEF vars, Once, OnceAt, Suspended, RunOnce, Settled
<1> QED BY <1>3, <1>4, <1>5, <1>6, <1>7, <1>8, <1>9, <1>10, <1>11, <1>12, <1>13, <1>14,
           StepKinds

\* Unless a pending call is submitted again, each call is run when no run of it
\* was begun, and is reported in order.
THEOREM OnceCorrect == ASSUME ~Retry PROVE Spec => []Once
<1>1. Init => Once
  BY DEF Init, Once, OnceAt, Suspended, RunOnce
<1>2. TypeOK /\ Owned /\ Placed /\ Tidy /\ Once /\ [Next]_vars => Once'
  BY OnceStep
<1> QED BY <1>1, <1>2, TypeCorrect, OwnedCorrect, PlacedCorrect, TidyCorrect, PTL DEF Spec

-----------------------------------------------------------------------------
(* However often a pending call is submitted, and by whatever many calls of   *)
(* approve at once: no call runs twice that was not handed out.               *)

\* Humans are asked about Draft calls only.
AskedDraft == \A c \in asked : TierOf[c] = "Draft"

\* A question is asked where neither the loop answers nor the tier allows.
THEOREM AskedDraftCorrect == Spec => []AskedDraft
<1>1. Init => AskedDraft
  BY DEF Init, AskedDraft
<1>2. TypeOK /\ AskedDraft /\ [Next]_vars => AskedDraft'
  <2> SUFFICES ASSUME TypeOK, AskedDraft, [Next]_vars PROVE AskedDraft'
    OBVIOUS
  <2>1. asked' = asked \/ \E t \in Turns : PolicyAsks(t)
    BY StepKinds, MovesEffect, ErrorsEffect, SettlesEffect, ReportInProgressEffect,
       CallToolEffect, PolicyResolvesEffect, ApproveEffect, AgentRepliesEffect,
       FlushEntryEffect, FlushEndsEffect DEF vars
  <2>2. ASSUME NEW t \in Turns, PolicyAsks(t) PROVE AskedDraft'
    <3>1. /\ asked' = asked \cup {Head(queue[t])} /\ Head(queue[t]) \in Calls
          /\ ~Unfit(Head(queue[t])) /\ ~RunsUnasked(Head(queue[t]))
      BY <2>2, PolicyAsksEffect, HeadType
    <3>2. TierOf[Head(queue[t])] = "Draft"
      BY <3>1, ConstantsOK DEF ConstantsOK, Unfit, RunsUnasked
    <3> QED BY <3>1, <3>2 DEF AskedDraft
  <2> QED BY <2>1, <2>2 DEF AskedDraft
<1> QED BY <1>1, <1>2, TypeCorrect, PTL DEF Spec

\* A call no human was asked about is run when no run of it was begun.
UnaskedOnce ==
  \A c \in Calls \ asked :
    ran[c] <= 1 /\ \A t \in Turns : Armed(t, c) => ran[c] = 0

\* A step that runs nothing, and arms no call but one that was not run.
LEMMA UnaskedQuiet ==
  ASSUME UnaskedOnce, asked \subseteq asked', ran' = ran,
         \A t \in Turns, c \in Calls \ asked : Armed(t, c)' => Armed(t, c) \/ ran[c] = 0
  PROVE  UnaskedOnce'
BY DEF UnaskedOnce

\* A step after which its own turn is not about to run a call it was not before.
LEMMA UnaskedMove ==
  ASSUME UnaskedOnce, asked \subseteq asked', ran' = ran, NEW t \in Turns, Others(t),
         \A c \in Calls \ asked : Armed(t, c)' => Armed(t, c) \/ ran[c] = 0
  PROVE  UnaskedOnce'
<1>1. \A u \in Turns, c \in Calls \ asked : Armed(u, c)' => Armed(u, c) \/ ran[c] = 0
  BY DEF Others, Armed
<1> QED BY <1>1, UnaskedQuiet

\* An invocation, of a call that was handed out or is its turn's own.
LEMMA UnaskedCallTool ==
  ASSUME TypeOK, Attributed, UnaskedOnce, NEW t \in Turns, CallTool(t)
  PROVE  UnaskedOnce'
<1> DEFINE h == Head(queue[t])
<1>1. /\ queue[t] # <<>> /\ pc[t] = "calling" /\ pc'[t] = "called"
      /\ UNCHANGED <<queue, asked, owner>> /\ Others(t)
      /\ ran'[h] = ran[h] + 1
      /\ \A c \in Calls : c # h => ran'[c] = ran[c]
  BY CallToolEffect
<1>2. h \in Calls /\ Armed(t, h)
  BY <1>1, HeadType DEF Armed
<1>3. \A u \in Turns, c \in Calls : Armed(u, c)' => Armed(u, c) /\ u # t
  BY <1>1 DEF Armed, Others
<1>4. \A u \in Turns, c \in Calls : Armed(u, c) => TakenUp(u, c)
  <2> SUFFICES ASSUME NEW u \in Turns, queue[u] # <<>>
               PROVE  TakenUp(u, Head(queue[u]))
    BY DEF Armed
  <2>1. queue[u] \in Seq(Calls) /\ \A i \in DOMAIN queue[u] : TakenUp(u, queue[u][i])
    BY DEF TypeOK, Attributed
  <2>2. 1 \in DOMAIN queue[u] /\ Head(queue[u]) = queue[u][1]
    BY <2>1
  <2> QED BY <2>1, <2>2
<1> HIDE DEF h
<1> SUFFICES ASSUME NEW c \in Calls, c \notin asked
             PROVE  ran'[c] <= 1 /\ \A u \in Turns : Armed(u, c)' => ran'[c] = 0
  BY <1>1 DEF UnaskedOnce
<1>5. CASE c = h
  <2>1. ran[h] = 0 /\ owner[h] = t
    BY <1>2, <1>4, <1>5 DEF UnaskedOnce, TakenUp
  <2>2. \A u \in Turns : ~Armed(u, c)'
    BY <1>3, <1>4, <1>5, <2>1 DEF TakenUp
  <2> QED BY <1>1, <1>5, <2>1, <2>2
<1>6. CASE c # h
  BY <1>1, <1>3, <1>6 DEF UnaskedOnce
<1> QED BY <1>5, <1>6

\* Whatever is submitted again, overlaps or fails.
THEOREM UnaskedOnceCorrect == Spec => []UnaskedOnce
<1>1. Init => UnaskedOnce
  BY DEF Init, UnaskedOnce, Armed
<1>2. TypeOK /\ Attributed /\ Placed /\ UnaskedOnce /\ [Next]_vars => UnaskedOnce'
  <2> SUFFICES ASSUME TypeOK, Attributed, Placed, UnaskedOnce, [Next]_vars
               PROVE  UnaskedOnce'
    OBVIOUS
  <2>1. ASSUME NEW t \in Turns, queue[t] # <<>>, pc[t] = "batch"
        PROVE  ran[Head(queue[t])] = 0
    <3>1. Head(queue[t]) \in Elements(queue[t])
      BY <2>1, TailElements DEF TypeOK
    <3> QED BY <2>1, <3>1 DEF Placed, Untouched
  <2>2. ASSUME NEW t \in Turns, Moves(t) PROVE UnaskedOnce'
    <3>1. Others(t) /\ UNCHANGED <<queue, ran, asked>>
      BY <2>2, MovesEffect
    <3>2. pc'[t] \in {"starting", "calling"} => pc[t] = "batch" /\ queue[t] # <<>>
      BY <2>2, MovesStages
    <3>3. \A c \in Calls \ asked : Armed(t, c)' => ran[c] = 0
      BY <2>1, <3>1, <3>2 DEF Armed
    <3> QED BY <3>1, <3>3, UnaskedMove
  <2>3. ASSUME NEW t \in Turns, Errors(t) PROVE UnaskedOnce'
    BY <2>3, ErrorsEffect, UnaskedMove DEF Armed
  <2>4. ASSUME NEW t \in Turns, Settles(t) PROVE UnaskedOnce'
    BY <2>4, SettlesEffect, UnaskedMove DEF Armed
  <2>5. ASSUME NEW t \in Turns, ReportInProgress(t) PROVE UnaskedOnce'
    BY <2>5, ReportInProgressEffect, UnaskedMove DEF Armed
  <2>6. ASSUME NEW t \in Turns, NEW o \in Decisions, PolicyResolves(t, o) PROVE UnaskedOnce'
    <3>1. /\ queue[t] # <<>> /\ pc[t] = "batch" /\ Others(t)
          /\ UNCHANGED <<ran, asked>>
          /\ pc'[t] = "starting" => queue'[t] = queue[t]
          /\ pc'[t] # "calling"
      BY <2>6, PolicyResolvesEffect
    <3>2. \A c \in Calls \ asked : Armed(t, c)' => ran[c] = 0
      BY <2>1, <3>1 DEF Armed
    <3> QED BY <3>1, <3>2, UnaskedMove
  <2>7. ASSUME NEW t \in Turns, NEW p \in Calls, NEW o \in Decisions, Approve(t, p, o)
        PROVE  UnaskedOnce'
    <3>1. /\ p = held[t] \/ p \in handed
          /\ Others(t)
          /\ UNCHANGED <<ran, asked>>
          /\ pc'[t] = "starting" => queue'[t] = <<p>>
          /\ pc'[t] # "calling"
      BY <2>7, ApproveEffect
    <3>2. p \in asked
      BY <3>1, ConstantsOK DEF Attributed, ConstantsOK
    <3>3. \A c \in Calls \ asked : ~Armed(t, c)'
      BY <3>1, <3>2, OneElement DEF Armed
    <3> QED BY <2>7, <3>1, <3>3, ApproveEffect, UnaskedMove
  <2>8. ASSUME NEW t \in Turns, PolicyAsks(t) PROVE UnaskedOnce'
    BY <2>8, PolicyAsksEffect, UnaskedMove DEF Armed
  <2>9. ASSUME NEW t \in Turns, NEW q \in Batches, NEW h \in BOOLEAN, AgentReplies(t, q, h)
        PROVE  UnaskedOnce'
    BY <2>9, AgentRepliesEffect, UnaskedMove DEF Armed
  <2>10. ASSUME NEW t \in Turns, FlushEntry(t) \/ FlushEnds(t) PROVE UnaskedOnce'
    BY <2>10, FlushEntryEffect, FlushEndsEffect, UnaskedMove DEF Armed
  <2>11. CASE UNCHANGED vars
    BY <2>11 DEF vars, UnaskedOnce, Armed
  <2> QED BY <2>2, <2>3, <2>4, <2>5, <2>6, <2>7, <2>8, <2>9, <2>10, <2>11,
             UnaskedCallTool, StepKinds
<1> QED BY <1>1, <1>2, TypeCorrect, AttributedCorrect, PlacedCorrect, PTL DEF Spec

\* A call no human was asked about runs at most once, and any other at most once
\* for each time it is allowed, whatever overlaps or fails and however often and
\* by how many calls at once a consumer submits it (Manch::approve, execute).
THEOREM RunsAtMostOnce == Spec => []AtMostOnce
<1>1. TypeOK /\ AskedDraft /\ UnaskedOnce /\ ConsentBacked => AtMostOnce
  BY DEF TypeOK, AskedDraft, UnaskedOnce, ConsentBacked, AtMostOnce
<1> QED BY <1>1, TypeCorrect, AskedDraftCorrect, UnaskedOnceCorrect, ConsentHolds, PTL

-----------------------------------------------------------------------------
(* What is reported, when each pending call is submitted once.                *)

\* An outcome that was reported to the sink is never taken back, for a consumer
\* that submits each pending call once (dispatch::execute).
THEOREM OutcomesStand == ASSUME ~Retry PROVE Spec => StatusSettles
<1>1. TypeOK /\ Owned /\ Placed /\ Tidy /\ Once /\ [Next]_vars
        => [\A c \in Calls : shown[c] \in {"completed", "failed"} => shown'[c] = shown[c]]_shown
  BY OnceStep DEF Settled, Outcomes
<1> QED BY <1>1, TypeCorrect, OwnedCorrect, PlacedCorrect, TidyCorrect, OnceCorrect, PTL
           DEF Spec, StatusSettles

-----------------------------------------------------------------------------
(* What the sink was told and what is stored.                               *)

\* The results a flush has gone past are in the log.
ResultsWritten ==
  \A t \in Turns : pc[t] = "flush" =>
    \A i \in DOMAIN buf[t] :
      Len(buf[t]) + i <= appended[t] => buf[t][i] \in Results(log)

\* A stored result stays stored.
LEMMA ResultsGrow ==
  ASSUME TypeOK, [Next]_vars
  PROVE  Results(log) \subseteq Results(log')
<1>1. \/ log' = log
      \/ \E t \in Turns, k \in {"block", "text"} : log' = Append(log, Entry(t, k, None))
      \/ \E t \in Turns : FlushEntry(t)
  BY ZenonT(120) DEF Next, RuntimeStep, ConsumerStep, Rest, vars, Handle, HandleUnknownAgent,
         AppendBlock, MessageStored, Assemble, Exceeded, AgentReplies, AgentFails,
         AppendText, EmitDone, AnswerUnfit, ReportResult, ReportRefusal, Settle,
         DispatchRead, PolicyResolves, PolicyAsks, PolicyFails, ReportInProgress,
         CallTool, BatchEnds, SinkFails, FlushEnds, AppendFails, Approve, ApproveUnknown
<1>2. log \in Seq(Entries)
  BY DEF TypeOK
<1>3. ASSUME NEW e \in Entries, log' = Append(log, e) PROVE Results(log) \subseteq Results(log')
  BY <1>2, <1>3, EntryAdded
<1>4. \A t \in Turns, k \in {"block", "text"} : Entry(t, k, None) \in Entries
  BY DEF Entry, Entries
<1>5. ASSUME NEW t \in Turns, FlushEntry(t) PROVE Results(log) \subseteq Results(log')
  BY <1>3, <1>5, FlushEntryEffect
<1> QED BY <1>1, <1>3, <1>4, <1>5

\* A flush has written what it has counted, whatever other turns append meanwhile.
THEOREM ResultsWrittenCorrect == Spec => []ResultsWritten
<1>1. Init => ResultsWritten
  BY DEF Init, ResultsWritten
<1>2. TypeOK /\ TypeOK' /\ Written /\ ResultsWritten /\ [Next]_vars => ResultsWritten'
  <2> SUFFICES ASSUME TypeOK, TypeOK', Written, ResultsWritten, [Next]_vars PROVE ResultsWritten'
    OBVIOUS
  <2> USE ResultsGrow
  <2>1. ASSUME NEW t \in Turns, Others(t), pc'[t] = "flush" => appended'[t] = 0
        PROVE  ResultsWritten'
    <3>1. pc'[t] = "flush" =>
            \A i \in DOMAIN buf'[t] : ~(Len(buf'[t]) + i <= appended'[t])
      <4>1. buf'[t] \in Seq(Calls)
        BY DEF TypeOK
      <4>2. \A i \in DOMAIN buf'[t] : i \in Nat /\ i > 0
        BY <4>1
      <4>3. Len(buf'[t]) \in Nat
        BY <4>1
      <4> QED BY <2>1, <4>2, <4>3
    <3> QED BY <2>1, <3>1 DEF ResultsWritten, Others
  <2>2. ASSUME NEW t \in Turns, pc[t] \notin {"flush", "greeting"} PROVE appended[t] = 0
    BY <2>2 DEF Written
  <2>3. ASSUME NEW t \in Turns, Moves(t) PROVE ResultsWritten'
    <3>1. CASE pc[t] = "batch" /\ pc'[t] = "flush"
      <4>1. BatchEnds(t)
        BY <2>3, <3>1 DEF Moves, Handle, HandleUnknownAgent, AppendBlock, MessageStored,
             Assemble, AppendText, EmitDone, DispatchRead, ApproveUnknown, MayApprove, Busy,
             Goto, AtCall, TypeOK
      <4>2. appended'[t] = 0
        BY <2>2, <3>1, <4>1 DEF BatchEnds
      <4> QED BY <2>1, <2>3, <4>2, MovesEffect
    <3>2. CASE ~(pc[t] = "batch" /\ pc'[t] = "flush")
      <4>1. pc'[t] # "flush"
        BY <2>3, <3>2, MovesStages
      <4> QED BY <2>1, <2>3, <4>1, MovesEffect
    <3> QED BY <3>1, <3>2
  <2>4. ASSUME NEW t \in Turns, Errors(t) PROVE ResultsWritten'
    BY <2>1, <2>4, ErrorsEffect
  <2>5. ASSUME NEW t \in Turns, Settles(t) PROVE ResultsWritten'
    BY <2>1, <2>5, SettlesEffect
  <2>6. ASSUME NEW t \in Turns, ReportInProgress(t) PROVE ResultsWritten'
    BY <2>1, <2>6, ReportInProgressEffect
  <2>7. ASSUME NEW t \in Turns, CallTool(t) PROVE ResultsWritten'
    BY <2>1, <2>7, CallToolEffect
  <2>8. ASSUME NEW t \in Turns, NEW o \in Decisions, PolicyResolves(t, o) PROVE ResultsWritten'
    BY <2>1, <2>2, <2>8, PolicyResolvesEffect
  <2>9. ASSUME NEW t \in Turns, NEW p \in Calls, NEW o \in Decisions, Approve(t, p, o) PROVE ResultsWritten'
    BY <2>1, <2>2, <2>9, ApproveEffect DEF AtRest
  <2>10. ASSUME NEW t \in Turns, PolicyAsks(t) PROVE ResultsWritten'
    BY <2>1, <2>2, <2>10, PolicyAsksEffect
  <2>11. ASSUME NEW t \in Turns, NEW q \in Batches, NEW h \in BOOLEAN, AgentReplies(t, q, h)
         PROVE  ResultsWritten'
    BY <2>1, <2>11, AgentRepliesEffect
  <2>12. ASSUME NEW t \in Turns, FlushEntry(t) PROVE ResultsWritten'
    <3>1. /\ pc[t] = "flush" /\ UNCHANGED <<pc, buf>> /\ Others(t)
          /\ appended'[t] = appended[t] + 1
          /\ \E i \in DOMAIN buf[t], k \in {"call", "result"} :
               /\ log' = Append(log, Entry(t, k, buf[t][i]))
               /\ Entry(t, k, buf[t][i]) \in Entries
               /\ k = "result" => i = appended[t] + 1 - Len(buf[t])
               /\ k = "call" <=> appended[t] < Len(buf[t])
      BY <2>12, FlushEntryEffect
    <3>2. /\ appended[t] \in Nat /\ Len(buf[t]) \in Nat
          /\ \A i \in DOMAIN buf[t] : i \in Nat /\ i > 0
      <4>1. buf[t] \in Seq(Calls) /\ appended[t] \in Nat
        BY DEF TypeOK
      <4>2. Len(buf[t]) \in Nat /\ DOMAIN buf[t] = 1..Len(buf[t])
        BY <4>1
      <4> QED BY <4>1, <4>2
    <3>3. ASSUME NEW i \in DOMAIN buf[t], Len(buf[t]) + i <= appended[t] + 1
          PROVE  buf[t][i] \in Results(log')
      <4>1. CASE Len(buf[t]) + i <= appended[t]
        BY <3>1, <4>1 DEF ResultsWritten
      <4>2. CASE Len(buf[t]) + i = appended[t] + 1
        <5>1. ~(appended[t] < Len(buf[t])) /\ i = appended[t] + 1 - Len(buf[t])
          BY <3>2, <4>2
        <5>2. /\ log' = Append(log, Entry(t, "result", buf[t][i]))
              /\ Entry(t, "result", buf[t][i]) \in Entries
          BY <3>1, <5>1
        <5>3. log \in Seq(Entries)
          BY DEF TypeOK
        <5> QED BY <5>2, <5>3, EntryAdded DEF Entry
      <4>3. Len(buf[t]) + i <= appended[t] \/ Len(buf[t]) + i = appended[t] + 1
        BY <3>2, <3>3
      <4> QED BY <4>1, <4>2, <4>3
    <3> QED BY <3>1, <3>3 DEF ResultsWritten, Others
  <2>13. ASSUME NEW t \in Turns, FlushEnds(t) PROVE ResultsWritten'
    BY <2>1, <2>13, FlushEndsEffect
  <2>14. CASE UNCHANGED vars
    BY <2>14 DEF vars, ResultsWritten
  <2> QED BY <2>3, <2>4, <2>5, <2>6, <2>7, <2>8, <2>9, <2>10, <2>11, <2>12, <2>13, <2>14,
             StepKinds
<1> QED BY <1>1, <1>2, TypeCorrect, WrittenCorrect, PTL DEF Spec

\* At the end of a flush the results of the whole buffer are in the log.
LEMMA FlushedWhole ==
  ASSUME TypeOK, ResultsWritten, NEW t \in Turns, FlushEnds(t)
  PROVE  Elements(buf[t]) \subseteq Results(log)
<1>1. pc[t] = "flush" /\ appended[t] = 2 * Len(buf[t])
  BY FlushEndsEffect
<1>2. buf[t] \in Seq(Calls) /\ Len(buf[t]) \in Nat /\ DOMAIN buf[t] = 1..Len(buf[t])
  BY DEF TypeOK
<1>3. \A i \in DOMAIN buf[t] : Len(buf[t]) + i <= appended[t]
  BY <1>1, <1>2
<1> QED BY <1>1, <1>3 DEF ResultsWritten, Elements

\* A call was reported with an outcome exactly if its result is buffered or
\* stored, except by a turn that failed; one in progress is at the head.
ReportedAt(c) ==
  LET t == owner[c]
  IN  t # None /\ pc[t] # "failed" =>
        /\ shown[c] \in Outcomes => c \in Elements(buf[t]) \cup Results(log)
        /\ shown[c] = "in_progress" =>
             pc[t] \in {"calling", "called"} /\ c = Head(queue[t])

\* The inductive strengthening of FinishedAgrees.
Reported ==
  /\ \A t \in Turns : \A c \in Elements(buf[t]) : shown[c] \in Outcomes
  /\ \A c \in Calls : c \in Results(log) => shown[c] \in Outcomes
  /\ \A c \in Calls : ReportedAt(c)

\* A step that reports nothing, and loses no result on the way to the log.
LEMMA ReportedSame ==
  ASSUME TypeOK, Reported, NEW t \in Turns, Others(t), SameEntries,
         shown' = shown, owner' = owner,
         Elements(buf'[t]) \subseteq Elements(buf[t]),
         pc'[t] # "failed" =>
           /\ pc[t] # "failed"
           /\ Elements(buf[t]) \subseteq Elements(buf'[t]) \cup Results(log)
           /\ pc[t] \in {"calling", "called"} =>
                pc'[t] \in {"calling", "called"} /\ queue'[t] = queue[t]
  PROVE  Reported'
<1>1. \A u \in Turns : u # t => pc'[u] = pc[u] /\ buf'[u] = buf[u] /\ queue'[u] = queue[u]
  BY DEF Others
<1>2. \A c \in Calls : c \in Results(log') <=> c \in Results(log)
  BY DEF SameEntries
<1>3. ASSUME NEW c \in Calls PROVE ReportedAt(c)'
  <2>1. owner[c] \in Turns \cup {None} /\ ReportedAt(c)
    BY DEF TypeOK, Reported
  <2>2. CASE owner[c] = t
    BY <1>2, <2>1, <2>2 DEF ReportedAt
  <2>3. CASE owner[c] # t
    BY <1>1, <1>2, <2>1, <2>3 DEF ReportedAt
  <2> QED BY <2>2, <2>3
<1>4. \A u \in Turns : \A c \in Elements(buf'[u]) : shown'[c] \in Outcomes
  BY <1>1 DEF Reported
<1> QED BY <1>2, <1>3, <1>4 DEF Reported

\* A step that reports on the call at the head of the turn's queue.
LEMMA ReportedHead ==
  ASSUME TypeOK, Owned, Reported, Settled, NEW t \in Turns, Others(t), queue[t] # <<>>,
         log' = log, owner' = owner, pc[t] # "failed",
         \A c \in Calls : c # Head(queue[t]) => shown'[c] = shown[c],
         \/ /\ buf'[t] = buf[t] /\ shown'[Head(queue[t])] = "pending"
         \/ /\ buf'[t] = buf[t] /\ shown'[Head(queue[t])] = "in_progress"
            /\ pc'[t] \in {"calling", "called"} /\ queue'[t] = queue[t]
         \/ /\ Elements(buf'[t]) = Elements(buf[t]) \cup {Head(queue[t])}
            /\ shown'[Head(queue[t])] \in Outcomes
  PROVE  Reported'
<1> DEFINE h == Head(queue[t])
<1>1. h \in Calls /\ owner[h] = t
  BY HeadType, OwnedHead
<1>2. /\ \A c \in Calls : c # h => shown'[c] = shown[c]
      /\ \/ buf'[t] = buf[t] /\ shown'[h] = "pending"
         \/ /\ buf'[t] = buf[t] /\ shown'[h] = "in_progress"
            /\ pc'[t] \in {"calling", "called"} /\ h = Head(queue'[t])
         \/ Elements(buf'[t]) = Elements(buf[t]) \cup {h} /\ shown'[h] \in Outcomes
      /\ ~(pc[t] # "failed" /\ shown[h] = "in_progress" /\ h # Head(queue[t]))
  OBVIOUS
<1>3. \A c \in Calls : owner[c] = t /\ shown[c] = "in_progress" => c = h
  BY ConstantsOK DEF Reported, ReportedAt, ConstantsOK
<1> HIDE DEF h
<1>4. \A u \in Turns : u # t => pc'[u] = pc[u] /\ buf'[u] = buf[u] /\ queue'[u] = queue[u]
  BY DEF Others
<1>5. \A u \in Turns : Elements(buf[u]) \subseteq Calls
  BY DEF TypeOK, Elements
<1>6. \A u \in Turns : \A c \in Elements(buf'[u]) : shown'[c] \in Outcomes
  <2>1. \A u \in Turns : \A c \in Elements(buf[u]) : shown'[c] \in Outcomes
    BY <1>5 DEF Reported, Settled
  <2> QED BY <1>2, <1>4, <2>1
<1>7. \A c \in Calls : c \in Results(log') => shown'[c] \in Outcomes
  BY DEF Reported, Settled
<1>8. ASSUME NEW c \in Calls, c = h PROVE ReportedAt(c)'
  <2>1. owner'[c] = t
    BY <1>1, <1>8
  <2>2. /\ shown'[c] \in Outcomes => c \in Elements(buf'[t])
        /\ shown'[c] = "in_progress" =>
             pc'[t] \in {"calling", "called"} /\ c = Head(queue'[t])
    BY <1>2, <1>8 DEF Outcomes
  <2> QED BY <2>1, <2>2 DEF ReportedAt
<1>9. ASSUME NEW c \in Calls, c # h PROVE ReportedAt(c)'
  <2>1. ReportedAt(c) /\ owner[c] \in Turns \cup {None} /\ shown'[c] = shown[c]
    BY <1>2, <1>9 DEF Reported, TypeOK
  <2>2. CASE owner[c] = t
    <3>1. Elements(buf[t]) \subseteq Elements(buf'[t])
      BY <1>2
    <3>2. shown[c] # "in_progress"
      BY <1>3, <1>9, <2>2
    <3> QED BY <2>1, <2>2, <3>1, <3>2 DEF ReportedAt
  <2>3. CASE owner[c] # t /\ owner[c] # None
    <3>1. /\ pc'[owner[c]] = pc[owner[c]] /\ buf'[owner[c]] = buf[owner[c]]
          /\ queue'[owner[c]] = queue[owner[c]]
      BY <1>4, <2>1, <2>3
    <3> QED BY <2>1, <3>1 DEF ReportedAt
  <2>4. CASE owner[c] = None
    BY <2>4 DEF ReportedAt
  <2> QED BY <2>2, <2>3, <2>4
<1> QED BY <1>6, <1>7, <1>8, <1>9 DEF Reported

\* An entry of a flush: what becomes a result was in the buffer.
LEMMA ReportedFlush ==
  ASSUME TypeOK, Reported, [Next]_vars, NEW t \in Turns, FlushEntry(t)
  PROVE  Reported'
<1>1. UNCHANGED <<pc, queue, buf, owner, shown>>
  BY FlushEntryEffect
<1>2. Results(log) \subseteq Results(log') /\ Results(log') \subseteq Results(log) \cup Elements(buf[t])
  <2>1. PICK i \in DOMAIN buf[t], k \in {"call", "result"} :
          log' = Append(log, Entry(t, k, buf[t][i])) /\ Entry(t, k, buf[t][i]) \in Entries
    BY FlushEntryEffect
  <2>2. log \in Seq(Entries)
    BY DEF TypeOK
  <2> QED BY <2>1, <2>2, EntryAdded, ResultsGrow DEF Entry, Elements
<1>3. \A c \in Calls : c \in Results(log') => shown[c] \in Outcomes
  BY <1>2 DEF Reported
<1>4. \A c \in Calls : ReportedAt(c)'
  BY <1>1, <1>2 DEF Reported, ReportedAt
<1> QED BY <1>1, <1>3, <1>4 DEF Reported

\* The calls of a reply were not issued, so nothing was reported of them.
LEMMA ReportedReplies ==
  ASSUME TypeOK, Placed, Reported, NEW t \in Turns, NEW q \in Batches, NEW h \in BOOLEAN,
         AgentReplies(t, q, h)
  PROVE  Reported'
<1>1. /\ pc[t] = "prompting" /\ UNCHANGED <<log, buf, shown>> /\ Others(t)
      /\ pc'[t] \notin {"failed", "calling", "called"}
      /\ \A c \in Elements(q) : owner[c] = None /\ c \in Calls
      /\ \A c \in Calls : c \notin Elements(q) => owner'[c] = owner[c]
  BY AgentRepliesEffect
<1>2. ASSUME NEW c \in Calls PROVE ReportedAt(c)'
  <2>1. CASE c \in Elements(q)
    <3>1. shown[c] = "none"
      BY <1>1, <2>1 DEF Placed, Untouched
    <3> QED BY <1>1, <3>1 DEF ReportedAt, Outcomes
  <2>2. CASE c \notin Elements(q)
    <3>1. owner'[c] = owner[c] /\ owner[c] \in Turns \cup {None} /\ ReportedAt(c)
      BY <1>1, <2>2 DEF TypeOK, Reported
    <3>2. CASE owner[c] = t
      BY <1>1, <3>1, <3>2 DEF ReportedAt
    <3>3. CASE owner[c] # t
      BY <1>1, <3>1, <3>3 DEF ReportedAt, Others
    <3> QED BY <3>2, <3>3
  <2> QED BY <2>1, <2>2
<1> QED BY <1>1, <1>2 DEF Reported

\* Unless a pending call is submitted again, what was reported is kept.
THEOREM ReportedCorrect == ASSUME ~Retry PROVE Spec => []Reported
<1>1. Init => Reported
  <2> SUFFICES ASSUME Init PROVE Reported
    OBVIOUS
  <2>1. /\ \A c \in Calls : shown[c] = "none"
        /\ \A t \in Turns : buf[t] = <<>>
        /\ Results(log) = {}
    BY DEF Init, Results
  <2> QED BY <2>1, NoElements DEF Reported, ReportedAt, Outcomes
<1>2. TypeOK /\ Owned /\ Placed /\ Tidy /\ Once /\ ResultsWritten /\ Reported /\ [Next]_vars
        => Reported'
  <2> SUFFICES ASSUME TypeOK, Owned, Placed, Tidy, Once, ResultsWritten, Reported, [Next]_vars
               PROVE  Reported'
    OBVIOUS
  <2>0. Settled
    BY OnceStep
  <2>1. ASSUME NEW t \in Turns, Moves(t) PROVE Reported'
    <3>1. UNCHANGED <<queue, buf, callVars>> /\ Others(t) /\ SameEntries
      BY <2>1, MovesEffect
    <3>2. pc'[t] # "failed" => pc[t] # "failed"
      BY <2>1, MovesStages
    <3>3. pc[t] \notin {"calling", "called"}
      BY <2>1, MovesStages
    <3> QED BY <3>1, <3>2, <3>3, ReportedSame
  <2>2. ASSUME NEW t \in Turns, Errors(t) PROVE Reported'
    <3>1. SameEntries
      BY <2>2, ErrorsEffect DEF SameEntries
    <3> QED BY <2>2, <3>1, NoElements, ErrorsEffect, ReportedSame
  <2>3. ASSUME NEW t \in Turns, Settles(t) PROVE Reported'
    <3>1. /\ buf[t] \in Seq(Calls) /\ Head(queue[t]) \in Calls
          /\ buf'[t] = Append(buf[t], Head(queue[t]))
      BY <2>3, HeadType, SettlesEffect DEF TypeOK
    <3>2. Elements(buf'[t]) = Elements(buf[t]) \cup {Head(queue[t])}
      BY <3>1, AppendElements
    <3> QED BY <2>0, <2>3, <3>2, SettlesEffect, ReportedHead
  <2>4. ASSUME NEW t \in Turns, ReportInProgress(t) PROVE Reported'
    BY <2>0, <2>4, ReportInProgressEffect, ReportedHead
  <2>5. ASSUME NEW t \in Turns, CallTool(t) PROVE Reported'
    <3>1. SameEntries
      BY <2>5, CallToolEffect DEF SameEntries
    <3> QED BY <2>5, <3>1, CallToolEffect, ReportedSame
  <2>6. ASSUME NEW t \in Turns, NEW o \in Decisions, PolicyResolves(t, o) PROVE Reported'
    <3>1. /\ pc[t] = "batch" /\ log' = log /\ owner' = owner /\ shown' = shown /\ Others(t)
          /\ buf'[t] = IF pc'[t] = "failed" THEN <<>> ELSE buf[t]
      BY <2>6, PolicyResolvesEffect
    <3>2. SameEntries
      BY <3>1 DEF SameEntries
    <3> QED BY <3>1, <3>2, NoElements, ReportedSame
  <2>7. ASSUME NEW t \in Turns, NEW p \in Calls, NEW o \in Decisions, Approve(t, p, o) PROVE Reported'
    <3>1. /\ pc[t] = "awaiting" /\ UNCHANGED <<log, buf, owner, shown>> /\ Others(t)
      BY <2>7, ApproveEffect
    <3>2. SameEntries
      BY <3>1 DEF SameEntries
    <3> QED BY <3>1, <3>2, ReportedSame
  <2>8. ASSUME NEW t \in Turns, PolicyAsks(t) PROVE Reported'
    BY <2>0, <2>8, PolicyAsksEffect, ReportedHead
  <2>9. ASSUME NEW t \in Turns, FlushEnds(t) PROVE Reported'
    <3>1. /\ pc[t] = "flush" /\ UNCHANGED <<log, owner, shown>> /\ Others(t)
          /\ buf'[t] = <<>>
      BY <2>9, FlushEndsEffect
    <3>2. SameEntries
      BY <3>1 DEF SameEntries
    <3> QED BY <2>9, <3>1, <3>2, NoElements, FlushedWhole, ReportedSame
  <2>10. CASE UNCHANGED vars
    BY <2>10 DEF vars, Reported, ReportedAt
  <2> QED BY <2>1, <2>2, <2>3, <2>4, <2>5, <2>6, <2>7, <2>8, <2>9, <2>10,
             ReportedReplies, ReportedFlush, StepKinds
<1> QED BY <1>1, <1>2, TypeCorrect, OwnedCorrect, PlacedCorrect, TidyCorrect, OnceCorrect,
           ResultsWrittenCorrect, PTL DEF Spec

\* When a turn has finished, what the sink was told of its calls is what the
\* store holds: an outcome exactly for those whose result is stored, and none
\* left in progress (run_batch, execute and Buffer::flush), for a consumer
\* that submits each pending call once.
THEOREM FinishedTurnsAgree == ASSUME ~Retry PROVE Spec => []FinishedAgrees
<1>1. TypeOK /\ Tidy /\ Reported => FinishedAgrees
  <2> SUFFICES ASSUME TypeOK, Tidy, Reported, NEW t \in Turns, pc[t] = "finished",
                      NEW c \in Calls, owner[c] = t
               PROVE  /\ shown[c] # "in_progress"
                      /\ shown[c] \in {"completed", "failed"} <=> Recorded(c)
    BY DEF FinishedAgrees
  <2>1. Elements(buf[t]) = {}
    BY NoElements DEF Tidy, AtHead
  <2>2. ReportedAt(c) /\ t # None
    BY ConstantsOK DEF Reported, ConstantsOK
  <2>3. shown[c] # "in_progress" /\ (shown[c] \in Outcomes => c \in Results(log))
    BY <2>1, <2>2 DEF ReportedAt
  <2> QED BY <2>3, RecordedResults DEF Reported, Outcomes
<1> QED BY <1>1, TypeCorrect, TidyCorrect, ReportedCorrect, PTL

-----------------------------------------------------------------------------
(* The calls of the reply a turn is dispatching.                            *)

\* The stages at which a turn works on a reply.
Handling == AtHead \cup {"text", "batch"}

\* The calls of the last reply to a turn.
Current(t) == {c \in Calls : owner[c] = t /\ round[c] = rounds[t]}

\* What a turn has in hand is of its last reply, and no call is of a later one.
RoundsAt(t) ==
  /\ \A c \in Calls : owner[c] = t =>
       round[c] <= rounds[t] /\ (pc[t] = "prompting" => round[c] < rounds[t])
  /\ Elements(queue[t]) \subseteq Current(t)
  /\ Elements(buf[t]) \subseteq Current(t)
  /\ Suspended(t) => held[t] \in Current(t)

Rounds == \A t \in Turns : RoundsAt(t)

\* A step of one turn leaves the rounds of the others.
LEMMA RoundsOthers ==
  ASSUME TypeOK, Rounds, NEW t \in Turns, Others(t), NEW u \in Turns, u # t,
         \A c \in Calls : /\ owner'[c] = u <=> owner[c] = u
                          /\ owner[c] = u => round'[c] = round[c]
  PROVE  RoundsAt(u)' /\ Current(u)' = Current(u)
<1>1. /\ pc'[u] = pc[u] /\ queue'[u] = queue[u] /\ buf'[u] = buf[u] /\ held'[u] = held[u]
      /\ fate'[u] = fate[u] /\ rounds'[u] = rounds[u] /\ RoundsAt(u)
  BY DEF Others, Rounds
<1>2. Current(u)' = Current(u)
  BY <1>1 DEF Current
<1> QED BY <1>1, <1>2 DEF RoundsAt, Suspended

\* A step within a round: what the turn takes up is of that round.
LEMMA RoundsWithin ==
  ASSUME TypeOK, Rounds, NEW t \in Turns, Others(t),
         owner' = owner, round' = round, rounds'[t] = rounds[t], pc'[t] # "prompting",
         Elements(queue'[t]) \subseteq Current(t),
         Elements(buf'[t]) \subseteq Current(t),
         Suspended(t)' => held'[t] \in Current(t)
  PROVE  Rounds'
<1>1. Current(t)' = Current(t)
  BY DEF Current
<1>2. RoundsAt(t)'
  BY <1>1 DEF Rounds, RoundsAt
<1>3. \A u \in Turns : u # t => RoundsAt(u)'
  BY RoundsOthers
<1> QED BY <1>2, <1>3 DEF Rounds

\* The calls in a turn's hands are those of its last reply.
THEOREM RoundsCorrect == ASSUME ~Retry PROVE Spec => []Rounds
<1>1. Init => Rounds
  <2> SUFFICES ASSUME Init PROVE Rounds
    OBVIOUS
  <2>1. /\ \A c \in Calls : owner[c] = None
        /\ \A t \in Turns : /\ buf[t] = <<>> /\ queue[t] = <<>> /\ pc[t] = "idle"
                            /\ t # None
    BY ConstantsOK DEF Init, ConstantsOK
  <2> QED BY <2>1, NoElements DEF Rounds, RoundsAt, Suspended
<1>2. TypeOK /\ Owned /\ Placed /\ Tidy /\ Rounds /\ [Next]_vars => Rounds'
  <2> SUFFICES ASSUME TypeOK, Owned, Placed, Tidy, Rounds, [Next]_vars PROVE Rounds'
    OBVIOUS
  <2>0. ASSUME NEW t \in Turns
        PROVE  /\ Elements(queue[t]) \subseteq Current(t)
               /\ Elements(buf[t]) \subseteq Current(t)
               /\ queue[t] # <<>> =>
                    /\ Head(queue[t]) \in Current(t) /\ Head(queue[t]) \in Calls
                    /\ Elements(Tail(queue[t])) \subseteq Current(t)
               /\ Elements(<<>>) \subseteq Current(t)
    <3>1. queue[t] \in Seq(Calls)
      BY DEF TypeOK
    <3>2. Elements(queue[t]) \subseteq Current(t) /\ Elements(buf[t]) \subseteq Current(t)
      BY DEF Rounds, RoundsAt
    <3> QED BY <3>1, <3>2, HeadType, TailElements, NoElements
  <2>1. ASSUME NEW t \in Turns, Moves(t) PROVE Rounds'
    <3>1. UNCHANGED <<queue, buf, held, owner, round>> /\ Others(t)
      BY <2>1, MovesEffect
    <3>2. CASE pc[t] = "loop"
      <4>1. /\ rounds'[t] = rounds[t] + 1 /\ ~Suspended(t)'
            /\ rounds[t] \in Nat /\ \A c \in Calls : round[c] \in Nat
        BY <2>1, <3>2, MovesStages DEF TypeOK, Suspended
      <4>2. Elements(queue'[t]) = {} /\ Elements(buf'[t]) = {}
        BY <3>1, <3>2, NoElements DEF Tidy, AtHead
      <4>3. \A c \in Calls : owner[c] = t => round[c] < rounds[t] + 1
        BY <4>1 DEF Rounds, RoundsAt
      <4>4. RoundsAt(t)'
        BY <3>1, <4>1, <4>2, <4>3 DEF RoundsAt
      <4>5. \A u \in Turns : u # t => RoundsAt(u)'
        BY <3>1, RoundsOthers
      <4> QED BY <4>4, <4>5 DEF Rounds
    <3>3. CASE pc[t] # "loop"
      <4>1. rounds'[t] = rounds[t] /\ pc'[t] # "prompting" /\ ~Suspended(t)'
        BY <2>1, <3>3, MovesStages DEF Suspended
      <4> QED BY <2>0, <3>1, <4>1, RoundsWithin
    <3> QED BY <3>2, <3>3
  <2>2. ASSUME NEW t \in Turns, Errors(t) PROVE Rounds'
    <3>1. ~Suspended(t)'
      BY <2>2, ErrorsEffect DEF Suspended
    <3> QED BY <2>0, <2>2, <3>1, ErrorsEffect, RoundsWithin
  <2>3. ASSUME NEW t \in Turns, Settles(t) PROVE Rounds'
    <3>1. ~Suspended(t)'
      BY <2>3, SettlesEffect DEF Suspended
    <3>2. /\ buf[t] \in Seq(Calls) /\ Head(queue[t]) \in Calls
          /\ buf'[t] = Append(buf[t], Head(queue[t]))
      BY <2>3, HeadType, SettlesEffect DEF TypeOK
    <3>3. Elements(buf'[t]) = Elements(buf[t]) \cup {Head(queue[t])}
      BY <3>2, AppendElements
    <3> QED BY <2>0, <2>3, <3>1, <3>3, SettlesEffect, RoundsWithin
  <2>4. ASSUME NEW t \in Turns, ReportInProgress(t) \/ CallTool(t) PROVE Rounds'
    <3>1. /\ UNCHANGED <<queue, buf, rounds, held, owner, round>> /\ Others(t)
          /\ pc'[t] \in {"calling", "called"}
      BY <2>4, ReportInProgressEffect, CallToolEffect
    <3> QED BY <2>0, <3>1, RoundsWithin DEF Suspended
  <2>5. ASSUME NEW t \in Turns, NEW o \in Decisions, PolicyResolves(t, o) PROVE Rounds'
    <3>1. /\ UNCHANGED <<rounds, held, owner, round>> /\ Others(t)
          /\ pc'[t] \in {"starting", "refusing", "flush", "failed"}
          /\ queue'[t] = queue[t] \/ queue'[t] = <<>>
          /\ buf'[t] = buf[t] \/ buf'[t] = <<>>
          /\ ~Suspended(t)'
      BY <2>5, PolicyResolvesEffect DEF Suspended
    <3> QED BY <2>0, <3>1, RoundsWithin
  <2>6. ASSUME NEW t \in Turns, NEW p \in Calls, NEW o \in Decisions, Approve(t, p, o) PROVE Rounds'
    <3>1. /\ pc[t] = "awaiting" /\ UNCHANGED <<buf, rounds, held, owner, round>> /\ Others(t)
          /\ pc'[t] \in {"starting", "refusing", "flush", "failed"}
          /\ queue'[t] = <<held[t]>> \/ queue'[t] = <<>>
          /\ ~Suspended(t)'
      BY <2>6, ApproveEffect DEF Suspended
    <3>2. held[t] \in Current(t)
      BY <3>1 DEF Rounds, RoundsAt, Suspended
    <3>3. Elements(queue'[t]) \subseteq Current(t)
      <4>1. Elements(<<held[t]>>) = {held[t]}
        BY OneElement
      <4>2. CASE queue'[t] = <<held[t]>>
        BY <3>2, <4>1, <4>2
      <4>3. CASE queue'[t] = <<>>
        BY <4>3, NoElements
      <4> QED BY <3>1, <4>2, <4>3
    <3>4. Elements(buf'[t]) \subseteq Current(t) /\ rounds'[t] = rounds[t]
      BY <2>0, <3>1
    <3>5. pc'[t] # "prompting" /\ owner' = owner /\ round' = round /\ Others(t)
      BY <3>1
    <3> QED BY <3>1, <3>3, <3>4, <3>5, RoundsWithin
  <2>7. ASSUME NEW t \in Turns, PolicyAsks(t) PROVE Rounds'
    BY <2>0, <2>7, PolicyAsksEffect, RoundsWithin
  <2>8. ASSUME NEW t \in Turns, NEW q \in Batches, NEW h \in BOOLEAN, AgentReplies(t, q, h)
        PROVE  Rounds'
    <3>1. /\ pc[t] = "prompting" /\ pc'[t] \in {"text", "batch", "closing"}
          /\ UNCHANGED <<buf, rounds>> /\ Others(t) /\ queue'[t] = q
          /\ \A c \in Elements(q) : owner[c] = None /\ c \in Calls
                                    /\ owner'[c] = t /\ round'[c] = rounds[t]
          /\ \A c \in Calls : c \notin Elements(q) => owner'[c] = owner[c] /\ round'[c] = round[c]
      BY <2>8, AgentRepliesEffect
    <3>0. None \notin Turns /\ rounds[t] \in Nat
      BY ConstantsOK DEF ConstantsOK, TypeOK
    <3>2. Elements(queue'[t]) \subseteq Current(t)'
      BY <3>1 DEF Current
    <3>3. Elements(buf'[t]) = {}
      BY <3>1, NoElements DEF Tidy, AtHead
    <3>4. ~Suspended(t)'
      BY <3>1 DEF Suspended
    <3>5. \A c \in Calls : owner'[c] = t => round'[c] <= rounds'[t]
      <4>1. \A c \in Calls : owner[c] = t => round[c] <= rounds[t]
        BY DEF Rounds, RoundsAt
      <4> QED BY <3>0, <3>1, <4>1
    <3>6. RoundsAt(t)'
      BY <3>1, <3>2, <3>3, <3>4, <3>5 DEF RoundsAt
    <3>7. \A u \in Turns : u # t => RoundsAt(u)'
      BY <3>0, <3>1, RoundsOthers
    <3> QED BY <3>6, <3>7 DEF Rounds
  <2>9. ASSUME NEW t \in Turns, FlushEntry(t) PROVE Rounds'
    <3>1. UNCHANGED <<pc, queue, buf, fate, rounds, held, owner, round>>
      BY <2>9, FlushEntryEffect
    <3> QED BY <3>1 DEF Rounds, RoundsAt, Current, Suspended
  <2>10. ASSUME NEW t \in Turns, FlushEnds(t) PROVE Rounds'
    <3>1. Suspended(t)' => held[t] \in Current(t)
      BY <2>10, FlushEndsEffect DEF Rounds, RoundsAt, Suspended
    <3> QED BY <2>0, <2>10, <3>1, FlushEndsEffect, RoundsWithin
  <2>11. CASE UNCHANGED vars
    BY <2>11 DEF vars, Rounds, RoundsAt, Current, Suspended
  <2> QED BY <2>1, <2>2, <2>3, <2>4, <2>5, <2>6, <2>7, <2>8, <2>9, <2>10, <2>11, StepKinds
<1> QED BY <1>1, <1>2, TypeCorrect, OwnedCorrect, PlacedCorrect, TidyCorrect, PTL DEF Spec

-----------------------------------------------------------------------------
(* A batch is stored whole if the store works.  A call that ran unasked stays *)
(* in the turn's hands until it is stored, and none of its batch is stored    *)
(* before that.                                                               *)

\* Where the calls of a turn are that ran unasked.
KeptAt(t) ==
  /\ held[t] # None => held[t] \in asked
  /\ pc[t] # "failed" =>
       \A d \in Calls : owner[d] = t /\ d \notin asked /\ ran[d] > 0 =>
         \/ d \in Elements(buf[t]) \cup Results(log)
         \/ pc[t] = "called" /\ d = Head(queue[t])
  /\ pc[t] \in Handling /\ ~(Elements(queue[t]) \subseteq asked) =>
       \A c \in Current(t) : c \notin Results(log)
  /\ \A c, d \in Calls :
       /\ owner[c] = t /\ owner[d] = t /\ round[c] = round[d] /\ d \notin asked
       /\ c \in Results(log) /\ ran[d] > 0
       => d \in Results(log) \/ (pc[t] = "flush" /\ d \in Elements(buf[t]))

\* The inductive strengthening of BatchAtomic.
Kept == \A t \in Turns : KeptAt(t)

\* A step of one turn keeps the calls of the others.
LEMMA KeptOthers ==
  ASSUME TypeOK, Rounds, Kept, NEW t \in Turns, Others(t), asked \subseteq asked',
         \A c \in Calls : \A v \in Turns : v # t =>
           /\ owner'[c] = v <=> owner[c] = v
           /\ owner[c] = v => /\ round'[c] = round[c] /\ ran'[c] = ran[c]
                              /\ c \in Results(log') <=> c \in Results(log),
         NEW u \in Turns, u # t
  PROVE  KeptAt(u)'
<1>1. /\ pc'[u] = pc[u] /\ queue'[u] = queue[u] /\ buf'[u] = buf[u] /\ held'[u] = held[u]
      /\ KeptAt(u)
  BY DEF Others, Kept
<1>2. Current(u)' = Current(u)
  BY RoundsOthers
<1>3. \A c \in Calls :
        /\ owner'[c] = u <=> owner[c] = u
        /\ owner[c] = u => /\ round'[c] = round[c] /\ ran'[c] = ran[c]
                           /\ c \in Results(log') <=> c \in Results(log)
  OBVIOUS
<1>4. \A c \in Current(u) : c \in Calls /\ owner[c] = u
  BY DEF Current
<1>5. pc'[u] # "failed" =>
        \A d \in Calls : owner'[d] = u /\ d \notin asked' /\ ran'[d] > 0 =>
          \/ d \in Elements(buf'[u]) \cup Results(log')
          \/ pc'[u] = "called" /\ d = Head(queue'[u])
  <2> SUFFICES ASSUME pc[u] # "failed", NEW d \in Calls, owner'[d] = u, d \notin asked',
                      ran'[d] > 0
               PROVE  \/ d \in Elements(buf[u]) \cup Results(log')
                      \/ pc[u] = "called" /\ d = Head(queue[u])
    BY <1>1
  <2>1. owner[d] = u /\ d \notin asked /\ ran[d] > 0 /\ (d \in Results(log') <=> d \in Results(log))
    BY <1>3
  <2> QED BY <1>1, <2>1 DEF KeptAt
<1>6. pc'[u] \in Handling /\ ~(Elements(queue'[u]) \subseteq asked') =>
        \A c \in Current(u) : c \notin Results(log')
  <2>1. pc'[u] \in Handling /\ ~(Elements(queue'[u]) \subseteq asked') =>
          pc[u] \in Handling /\ ~(Elements(queue[u]) \subseteq asked)
    BY <1>1
  <2> QED BY <1>1, <1>3, <1>4, <2>1 DEF KeptAt
<1>7. ASSUME NEW c \in Calls, NEW d \in Calls, owner'[c] = u, owner'[d] = u,
             round'[c] = round'[d], d \notin asked', c \in Results(log'), ran'[d] > 0
      PROVE  d \in Results(log') \/ (pc'[u] = "flush" /\ d \in Elements(buf'[u]))
  <2>1. /\ owner[c] = u /\ owner[d] = u /\ round[c] = round[d] /\ d \notin asked
        /\ c \in Results(log) /\ ran[d] > 0
    BY <1>3, <1>7
  <2>2. d \in Results(log) \/ (pc[u] = "flush" /\ d \in Elements(buf[u]))
    BY <1>1, <2>1 DEF KeptAt
  <2> QED BY <1>1, <1>3, <2>1, <2>2
<1>8. held'[u] # None => held'[u] \in asked'
  BY <1>1 DEF KeptAt
<1> QED BY <1>2, <1>5, <1>6, <1>7, <1>8 DEF KeptAt

\* A step that runs nothing and stores nothing.
LEMMA KeptSame ==
  ASSUME TypeOK, Rounds, Kept, NEW t \in Turns, Others(t), SameEntries,
         UNCHANGED <<owner, round, ran>>, asked \subseteq asked',
         held'[t] # None => held'[t] \in asked',
         pc'[t] # "failed" =>
           /\ pc[t] # "failed"
           /\ Elements(buf[t]) \subseteq Elements(buf'[t]) \cup Results(log)
           /\ pc[t] = "called" => Head(queue[t]) \in Elements(buf'[t]),
         pc[t] = "flush" => Elements(buf[t]) \subseteq Results(log),
         pc'[t] \in Handling =>
           /\ pc[t] \in Handling /\ rounds'[t] = rounds[t]
           /\ Elements(queue'[t]) \subseteq Elements(queue[t]) \cup asked'
  PROVE  Kept'
<1>1. KeptAt(t)
  BY DEF Kept
<1>2. \A c \in Calls : c \in Results(log') <=> c \in Results(log)
  BY DEF SameEntries
<1>3. pc'[t] # "failed" =>
        \A d \in Calls : owner'[d] = t /\ d \notin asked' /\ ran'[d] > 0 =>
          d \in Elements(buf'[t]) \cup Results(log')
  <2> SUFFICES ASSUME pc'[t] # "failed", NEW d \in Calls, owner[d] = t, d \notin asked',
                      ran[d] > 0
               PROVE  d \in Elements(buf'[t]) \cup Results(log')
    OBVIOUS
  <2>1. d \in Elements(buf[t]) \cup Results(log) \/ (pc[t] = "called" /\ d = Head(queue[t]))
    BY <1>1 DEF KeptAt
  <2> QED BY <1>2, <2>1
<1>4. pc'[t] \in Handling /\ ~(Elements(queue'[t]) \subseteq asked') =>
        \A c \in Current(t)' : c \notin Results(log')
  <2> SUFFICES ASSUME pc'[t] \in Handling, ~(Elements(queue'[t]) \subseteq asked'),
                      NEW c \in Current(t)'
               PROVE  c \notin Results(log')
    OBVIOUS
  <2>1. c \in Current(t) /\ c \in Calls
    BY DEF Current
  <2>2. pc[t] \in Handling /\ ~(Elements(queue[t]) \subseteq asked)
    OBVIOUS
  <2> QED BY <1>1, <1>2, <2>1, <2>2 DEF KeptAt
<1>5. ASSUME NEW c \in Calls, NEW d \in Calls, owner[c] = t, owner[d] = t,
             round[c] = round[d], d \notin asked', c \in Results(log'), ran[d] > 0
      PROVE  d \in Results(log')
  <2>1. d \in Results(log) \/ (pc[t] = "flush" /\ d \in Elements(buf[t]))
    BY <1>1, <1>2, <1>5 DEF KeptAt
  <2> QED BY <1>2, <2>1
<1>6. KeptAt(t)'
  BY <1>3, <1>4, <1>5 DEF KeptAt
<1>7. \A u \in Turns : u # t => KeptAt(u)'
  BY <1>2, KeptOthers
<1> QED BY <1>6, <1>7 DEF Kept

\* A tool is called: a call nobody was asked about is the first of its batch
\* that could be stored.
LEMMA KeptCall ==
  ASSUME TypeOK, Owned, Rounds, Kept, NEW t \in Turns, CallTool(t)
  PROVE  Kept'
<1>1. /\ queue[t] # <<>> /\ pc[t] = "calling" /\ pc'[t] = "called"
      /\ UNCHANGED <<log, queue, buf, rounds, held, owner, round, asked>>
      /\ Others(t)
      /\ \A c \in Calls : c # Head(queue[t]) => ran'[c] = ran[c]
  BY CallToolEffect DEF CallTool
<1>2. KeptAt(t)
  BY DEF Kept
<1>3. Head(queue[t]) \in Calls /\ owner[Head(queue[t])] = t /\ Head(queue[t]) \in Current(t)
      /\ Head(queue[t]) \in Elements(queue[t])
  <2>1. queue[t] \in Seq(Calls)
    BY DEF TypeOK
  <2> QED BY <1>1, <2>1, HeadType, OwnedHead, TailElements DEF Rounds, RoundsAt
<1>4. ASSUME NEW d \in Calls, owner[d] = t, d \notin asked, ran'[d] > 0
      PROVE  d \in Elements(buf[t]) \cup Results(log) \/ d = Head(queue[t])
  <2>1. CASE d # Head(queue[t])
    <3>1. ran[d] > 0
      BY <1>1, <1>4, <2>1
    <3> QED BY <1>1, <1>2, <1>4, <3>1 DEF KeptAt
  <2> QED BY <2>1
<1>5. pc[t] \in Handling /\ pc'[t] \in Handling
  BY <1>1 DEF Handling, AtHead
<1>6. Current(t)' = Current(t)
  BY <1>1 DEF Current
<1>7. ASSUME NEW c \in Calls, NEW d \in Calls, owner[c] = t, owner[d] = t,
             round[c] = round[d], d \notin asked, c \in Results(log), ran'[d] > 0
      PROVE  d \in Results(log)
  <2>1. CASE d # Head(queue[t])
    <3>1. ran[d] > 0
      BY <1>1, <1>7, <2>1
    <3> QED BY <1>1, <1>2, <1>7, <3>1 DEF KeptAt
  <2>2. CASE d = Head(queue[t])
    <3>1. c \in Current(t)
      BY <1>3, <1>7, <2>2 DEF Current
    <3>2. ~(Elements(queue[t]) \subseteq asked)
      BY <1>3, <1>7, <2>2
    <3> QED BY <1>2, <1>5, <1>7, <3>1, <3>2 DEF KeptAt
  <2> QED BY <2>1, <2>2
<1>8. KeptAt(t)'
  BY <1>1, <1>2, <1>4, <1>5, <1>6, <1>7 DEF KeptAt
<1>9. \A u \in Turns : u # t => KeptAt(u)'
  BY <1>1, <1>3, KeptOthers
<1> QED BY <1>8, <1>9 DEF Kept

\* A reply starts a round with calls that left no trace.
LEMMA KeptReplies ==
  ASSUME TypeOK, Placed, Rounds, Kept, NEW t \in Turns, NEW q \in Batches, NEW h \in BOOLEAN,
         AgentReplies(t, q, h)
  PROVE  Kept'
<1>1. /\ pc[t] = "prompting" /\ pc'[t] \in {"text", "batch", "closing"}
      /\ UNCHANGED <<log, buf, rounds, held, asked, ran>> /\ Others(t)
      /\ \A c \in Elements(q) : owner[c] = None /\ c \in Calls
                                /\ owner'[c] = t /\ round'[c] = rounds[t]
      /\ \A c \in Calls : c \notin Elements(q) => owner'[c] = owner[c] /\ round'[c] = round[c]
  BY AgentRepliesEffect
<1>2. KeptAt(t) /\ None \notin Turns
  BY ConstantsOK DEF Kept, ConstantsOK
<1>3. \A c \in Elements(q) : ran[c] = 0 /\ c \notin Results(log)
  <2>1. Results(log) \subseteq Entered(log)
    BY DEF Results, Entered
  <2> QED BY <1>1, <2>1 DEF Placed, Untouched
<1>4. ASSUME NEW c \in Current(t)' PROVE c \in Elements(q)
  <2>1. c \in Calls /\ owner'[c] = t /\ round'[c] = rounds[t]
    BY <1>1 DEF Current
  <2>2. ASSUME c \notin Elements(q) PROVE FALSE
    <3>1. owner[c] = t /\ round[c] = rounds[t] /\ round[c] \in Nat
      BY <1>1, <2>1, <2>2 DEF TypeOK
    <3>2. round[c] < rounds[t]
      BY <1>1, <2>1, <3>1 DEF Rounds, RoundsAt
    <3> QED BY <3>1, <3>2
  <2> QED BY <2>2
<1>5. ASSUME NEW d \in Calls, owner'[d] = t, d \notin asked, ran[d] > 0
      PROVE  d \in Elements(buf[t]) \cup Results(log)
  <2>1. d \notin Elements(q)
    BY <1>3, <1>5
  <2> QED BY <1>1, <1>2, <1>5, <2>1 DEF KeptAt
<1>6. ASSUME NEW c \in Calls, NEW d \in Calls, owner'[c] = t, owner'[d] = t,
             round'[c] = round'[d], d \notin asked, c \in Results(log), ran[d] > 0
      PROVE  d \in Results(log)
  <2>1. d \notin Elements(q) /\ c \notin Elements(q)
    BY <1>3, <1>6
  <2> QED BY <1>1, <1>2, <1>6, <2>1 DEF KeptAt
<1>7. KeptAt(t)'
  <2>1. \A c \in Current(t)' : c \notin Results(log)
    BY <1>3, <1>4
  <2> QED BY <1>1, <1>2, <1>5, <1>6, <2>1 DEF KeptAt
<1>8. \A u \in Turns : u # t => KeptAt(u)'
  BY <1>1, <1>2, KeptOthers
<1> QED BY <1>7, <1>8 DEF Kept

\* A flush stores a call of the batch; the others that ran wait in the buffer.
LEMMA KeptFlush ==
  ASSUME TypeOK, Owned, Rounds, Kept, [Next]_vars, NEW t \in Turns, FlushEntry(t)
  PROVE  Kept'
<1>1. pc[t] = "flush" /\ UNCHANGED <<pc, queue, buf, rounds, held, owner, round, asked, ran>>
      /\ Others(t)
  BY FlushEntryEffect
<1>2. Results(log) \subseteq Results(log') /\ Results(log') \subseteq Results(log) \cup Elements(buf[t])
  <2>1. PICK i \in DOMAIN buf[t], k \in {"call", "result"} :
          log' = Append(log, Entry(t, k, buf[t][i])) /\ Entry(t, k, buf[t][i]) \in Entries
    BY FlushEntryEffect
  <2>2. log \in Seq(Entries)
    BY DEF TypeOK
  <2> QED BY <2>1, <2>2, EntryAdded, ResultsGrow DEF Entry, Elements
<1>3. KeptAt(t)
  BY DEF Kept
<1>4. \A c \in Elements(buf[t]) : owner[c] = t /\ round[c] = rounds[t]
  BY DEF Rounds, RoundsAt, Current
<1>5. pc[t] \notin Handling
  BY <1>1 DEF Handling, AtHead
<1>6. ASSUME NEW c \in Calls, NEW d \in Calls, owner[c] = t, owner[d] = t,
             round[c] = round[d], d \notin asked, c \in Results(log'), ran[d] > 0
      PROVE  d \in Results(log') \/ d \in Elements(buf[t])
  BY <1>1, <1>2, <1>3, <1>6 DEF KeptAt
<1>7. KeptAt(t)'
  BY <1>1, <1>2, <1>3, <1>5, <1>6 DEF KeptAt
<1>8. \A c \in Calls : owner[c] # t => (c \in Results(log') <=> c \in Results(log))
  BY <1>2, <1>4
<1>9. \A u \in Turns : u # t => KeptAt(u)'
  BY <1>1, <1>8, KeptOthers
<1> QED BY <1>7, <1>9 DEF Kept

\* Unless a pending call is submitted again or the store fails, that is so.
THEOREM KeptCorrect == ASSUME ~Retry, "append" \notin Faults PROVE Spec => []Kept
<1>1. Init => Kept
  <2> SUFFICES ASSUME Init PROVE Kept
    OBVIOUS
  <2>1. /\ \A t \in Turns : pc[t] = "idle" /\ held[t] = None
        /\ \A c \in Calls : ran[c] = 0
    BY DEF Init
  <2> QED BY <2>1 DEF Kept, KeptAt, Handling, AtHead
<1>2. TypeOK /\ Owned /\ Placed /\ Tidy /\ ResultsWritten /\ Rounds /\ Kept /\ [Next]_vars
        => Kept'
  <2> SUFFICES ASSUME TypeOK, Owned, Placed, Tidy, ResultsWritten, Rounds, Kept, [Next]_vars
               PROVE  Kept'
    OBVIOUS
  <2>0. \A t \in Turns : held[t] # None => held[t] \in asked
    BY DEF Kept, KeptAt
  <2>1. ASSUME NEW t \in Turns, Moves(t) PROVE Kept'
    <3>1. UNCHANGED <<queue, buf, held, callVars>> /\ Others(t) /\ SameEntries
      BY <2>1, MovesEffect
    <3>2. /\ pc[t] \notin {"called", "flush"}
          /\ pc'[t] # "failed" => pc[t] # "failed"
          /\ pc'[t] \in Handling => pc[t] \in Handling /\ rounds'[t] = rounds[t]
      BY <2>1, MovesStages DEF Handling, AtHead
    <3> QED BY <2>0, <3>1, <3>2, KeptSame
  <2>2. ASSUME NEW t \in Turns, Errors(t) PROVE Kept'
    <3>1. pc[t] # "flush"
      BY <2>2 DEF Errors, Exceeded, AgentFails, PolicyFails, SinkFails, AppendFails,
           NeedsDecision, AtCall
    <3>2. /\ UNCHANGED <<log, held, owner, round, ran, asked>> /\ Others(t)
          /\ pc'[t] = "failed"
      BY <2>2, ErrorsEffect
    <3>3. SameEntries /\ pc'[t] \notin Handling
      BY <3>2 DEF SameEntries, Handling, AtHead
    <3> QED BY <2>0, <3>1, <3>2, <3>3, KeptSame
  <2>3. ASSUME NEW t \in Turns, Settles(t) PROVE Kept'
    <3>1. /\ queue[t] # <<>> /\ pc[t] \in {"batch", "called", "refusing"}
          /\ UNCHANGED <<log, rounds, held, owner, round, asked, ran>> /\ Others(t)
          /\ pc'[t] = "batch" /\ queue'[t] = Tail(queue[t])
          /\ buf'[t] = Append(buf[t], Head(queue[t]))
      BY <2>3, SettlesEffect
    <3>2. /\ buf[t] \in Seq(Calls) /\ Head(queue[t]) \in Calls /\ queue[t] \in Seq(Calls)
      BY <3>1, HeadType DEF TypeOK
    <3>3. /\ Elements(buf'[t]) = Elements(buf[t]) \cup {Head(queue[t])}
          /\ Elements(queue'[t]) \subseteq Elements(queue[t])
      BY <3>1, <3>2, AppendElements, TailElements
    <3>4. SameEntries /\ pc[t] \in Handling
      BY <3>1 DEF SameEntries, Handling, AtHead
    <3> QED BY <2>0, <3>1, <3>3, <3>4, KeptSame
  <2>4. ASSUME NEW t \in Turns, ReportInProgress(t) PROVE Kept'
    <3>1. /\ pc[t] = "starting" /\ pc'[t] = "calling"
          /\ UNCHANGED <<log, queue, buf, rounds, held, owner, round, asked, ran>> /\ Others(t)
      BY <2>4, ReportInProgressEffect
    <3>2. SameEntries /\ pc[t] \in Handling
      BY <3>1 DEF SameEntries, Handling, AtHead
    <3> QED BY <2>0, <3>1, <3>2, KeptSame
  <2>5. ASSUME NEW t \in Turns, CallTool(t) PROVE Kept'
    BY <2>5, KeptCall
  <2>6. ASSUME NEW t \in Turns, NEW o \in Decisions, PolicyResolves(t, o) PROVE Kept'
    <3>1. /\ pc[t] = "batch" /\ Others(t)
          /\ UNCHANGED <<log, rounds, held, owner, round, asked, ran>>
          /\ pc'[t] \in {"starting", "refusing", "flush", "failed"}
          /\ queue'[t] = queue[t] \/ queue'[t] = <<>>
          /\ buf'[t] = IF pc'[t] = "failed" THEN <<>> ELSE buf[t]
      BY <2>6, PolicyResolvesEffect
    <3>2. SameEntries /\ pc[t] \in Handling
      BY <3>1 DEF SameEntries, Handling, AtHead
    <3>3. Elements(queue'[t]) \subseteq Elements(queue[t])
      BY <3>1, NoElements
    <3> QED BY <2>0, <3>1, <3>2, <3>3, KeptSame
  <2>7. ASSUME NEW t \in Turns, NEW p \in Calls, NEW o \in Decisions, Approve(t, p, o) PROVE Kept'
    <3>1. /\ pc[t] = "awaiting" /\ held[t] \in Calls /\ Others(t)
          /\ UNCHANGED <<log, buf, rounds, held, owner, round, asked, ran>>
          /\ queue'[t] = <<held[t]>> \/ queue'[t] = <<>>
      BY <2>7, ApproveEffect
    <3>2. held[t] \in asked
      BY <2>0, <3>1, ConstantsOK DEF ConstantsOK
    <3>3. Elements(queue'[t]) \subseteq asked
      <4>1. Elements(<<held[t]>>) = {held[t]}
        BY OneElement
      <4> QED BY <3>1, <3>2, <4>1, NoElements
    <3>4. KeptAt(t)
      BY DEF Kept
    <3>5. pc[t] \notin {"failed", "called", "flush"}
      BY <3>1
    <3>6. KeptAt(t)'
      <4>1. Elements(queue'[t]) \subseteq asked' /\ held'[t] = held[t] /\ asked' = asked
        BY <3>1, <3>3
      <4>2. \A d \in Calls : owner[d] = t /\ d \notin asked /\ ran[d] > 0 =>
              d \in Elements(buf[t]) \cup Results(log)
        BY <3>4, <3>5 DEF KeptAt
      <4>3. \A c, d \in Calls :
              /\ owner[c] = t /\ owner[d] = t /\ round[c] = round[d] /\ d \notin asked
              /\ c \in Results(log) /\ ran[d] > 0
              => d \in Results(log)
        BY <3>4, <3>5 DEF KeptAt
      <4> QED BY <2>0, <3>1, <4>1, <4>2, <4>3 DEF KeptAt
    <3>7. \A u \in Turns : u # t => KeptAt(u)'
      BY <3>1, KeptOthers
    <3> QED BY <3>6, <3>7 DEF Kept
  <2>8. ASSUME NEW t \in Turns, PolicyAsks(t) PROVE Kept'
    <3>1. /\ pc[t] = "batch" /\ pc'[t] = "flush" /\ Others(t)
          /\ UNCHANGED <<log, buf, owner, round, ran>>
          /\ held'[t] = Head(queue[t]) /\ asked' = asked \cup {Head(queue[t])}
      BY <2>8, PolicyAsksEffect
    <3>2. SameEntries /\ pc'[t] \notin Handling
      BY <3>1 DEF SameEntries, Handling, AtHead
    <3> QED BY <3>1, <3>2, KeptSame
  <2>9. ASSUME NEW t \in Turns, FlushEnds(t) PROVE Kept'
    <3>1. /\ pc[t] = "flush" /\ pc'[t] \in {"loop", "closing", "awaiting"}
          /\ UNCHANGED <<log, held, owner, round, asked, ran>> /\ Others(t)
      BY <2>9, FlushEndsEffect
    <3>2. SameEntries /\ pc'[t] \notin Handling
      BY <3>1 DEF SameEntries, Handling, AtHead
    <3>3. Elements(buf[t]) \subseteq Results(log)
      BY <2>9, FlushedWhole
    <3> QED BY <2>0, <3>1, <3>2, <3>3, KeptSame
  <2>10. CASE UNCHANGED vars
    BY <2>10 DEF vars, Kept, KeptAt, Current
  <2> QED BY <2>1, <2>2, <2>3, <2>4, <2>5, <2>6, <2>7, <2>8, <2>9, <2>10,
             KeptReplies, KeptFlush, StepKinds
<1> QED BY <1>1, <1>2, TypeCorrect, OwnedCorrect, PlacedCorrect, TidyCorrect,
           ResultsWrittenCorrect, RoundsCorrect, PTL DEF Spec

\* All or nothing: once a result of a batch is stored and the batch is not being
\* flushed, every call of it that ran unasked is stored too, provided the store
\* works and the consumer submits each pending call once (Buffer::record,
\* Buffer::flush and run_batch), however many turns overlap.
THEOREM BatchesAtomic == ASSUME ~Retry, "append" \notin Faults PROVE Spec => []BatchAtomic
<1>1. TypeOK /\ Kept => BatchAtomic
  <2> SUFFICES ASSUME TypeOK, Kept, NEW c \in Calls, NEW d \in Calls,
                      SameBatch(c, d), d \notin asked, Recorded(c), pc[owner[c]] # "flush",
                      ran[d] > 0
               PROVE  Recorded(d)
    BY DEF BatchAtomic
  <2>1. owner[c] \in Turns /\ owner[d] = owner[c] /\ round[c] = round[d]
    BY DEF SameBatch, Issued, TypeOK
  <2>2. KeptAt(owner[c])
    BY <2>1 DEF Kept
  <2> QED BY <2>1, <2>2, RecordedResults DEF KeptAt
<1> QED BY <1>1, TypeCorrect, KeptCorrect, PTL

-----------------------------------------------------------------------------
(* The loop is the one whose calls return: every step of the runtime is one   *)
(* of PromptLoop's, or none that it sees.                                    *)

\* A turn that steps alone takes its own stage and count along.
LEMMA LoopProceeds ==
  ASSUME NEW t \in Turns, Others(t),
         NEW s, NEW n, StageOf(t)' = s, Len(queue'[t]) = n
  PROVE  Loop!Proceed(t, s, n)
<1>1. \A u \in Turns : u # t => StageOf(u)' = StageOf(u) /\ queue'[u] = queue[u]
  BY DEF StageOf, Busy, Others
<1> QED BY <1>1 DEF Loop!Proceed

\* A step that keeps its turn's stage, count and budget is none of the loop's.
LEMMA LoopStays ==
  ASSUME NEW t \in Turns, Others(t), StageOf(t)' = StageOf(t),
         Len(queue'[t]) = Len(queue[t]), iters' = iters
  PROVE  UNCHANGED Loop!vars
<1>1. \A u \in Turns : StageOf(u)' = StageOf(u) /\ Len(queue'[u]) = Len(queue[u])
  BY DEF StageOf, Busy, Others
<1> QED BY <1>1 DEF Loop!vars

\* What the loop sees of a turn that fails: it rests, with no calls.
LEMMA LoopBreaks ==
  ASSUME NEW t \in Turns, Others(t), Busy(t), pc'[t] = "failed", queue'[t] = <<>>,
         iters' = iters
  PROVE  Loop!Next
<1>1. StageOf(t)' = "rest" /\ Len(queue'[t]) = 0
  BY DEF StageOf, Busy
<1>2. Loop!Proceed(t, "rest", 0)
  BY <1>1, LoopProceeds
<1>3. StageOf(t) # "rest"
  BY DEF StageOf, Busy
<1>4. Loop!Break(t)
  BY <1>2, <1>3 DEF Loop!Break
<1> QED BY <1>4 DEF Loop!Next

\* Steps of the loop itself that no call of a reply is part of.
LEMMA LoopMoves ==
  ASSUME TypeOK, Tidy, NEW t \in Turns, Moves(t)
  PROVE  Loop!Next \/ UNCHANGED Loop!vars
<1>1. Others(t) /\ queue' = queue
  BY MovesEffect
<1>2. CASE Handle(t)
  <2>1. pc[t] = "idle" /\ pc'[t] = "greeting" /\ iters' = FreshBudget(t)
    BY <1>2 DEF Handle, Goto, TypeOK
  <2>2. StageOf(t) = "rest" /\ StageOf(t)' = "loop" /\ Len(queue'[t]) = 0
    BY <1>1, <2>1 DEF StageOf, Busy, Tidy, AtHead
  <2>3. Loop!Proceed(t, "loop", 0)
    BY <1>1, <2>2, LoopProceeds
  <2>4. Loop!Enter(t)
    BY <2>1, <2>2, <2>3 DEF Loop!Enter, FreshBudget
  <2> QED BY <2>4 DEF Loop!Next
<1>3. CASE HandleUnknownAgent(t) \/ \E p \in Calls : ApproveUnknown(t, p)
  <2>1. pc[t] \in AtRest /\ pc'[t] = "failed" /\ iters' = iters
    BY <1>3 DEF HandleUnknownAgent, ApproveUnknown, MayApprove, Busy, AtRest, Goto, TypeOK
  <2> QED BY <1>1, <2>1, LoopStays DEF StageOf, Busy, AtRest
<1>4. CASE AppendBlock(t) \/ MessageStored(t)
  <2>1. pc[t] = "greeting" /\ pc'[t] \in {"greeting", "loop"} /\ iters' = iters
    BY <1>4 DEF AppendBlock, MessageStored, Goto, TypeOK
  <2> QED BY <1>1, <2>1, LoopStays DEF StageOf, Busy
<1>5. CASE Assemble(t)
  <2>1. /\ pc[t] = "loop" /\ pc'[t] = "prompting" /\ iters' = SpendPrompt(t) /\ iters[t] > 0
    BY <1>5 DEF Assemble, Goto, TypeOK
  <2>2. StageOf(t) = "loop" /\ StageOf(t)' = "replying" /\ Len(queue'[t]) = 0
    BY <1>1, <2>1 DEF StageOf, Busy, Tidy, AtHead
  <2>3. Loop!Proceed(t, "replying", 0)
    BY <1>1, <2>2, LoopProceeds
  <2>4. Loop!Prompt(t)
    BY <2>1, <2>2, <2>3 DEF Loop!Prompt, Loop!Spend, SpendPrompt
  <2> QED BY <2>4 DEF Loop!Next, Loop!Step
<1>6. CASE AppendText(t)
  <2>1. /\ pc[t] = "text" /\ iters' = iters
        /\ pc'[t] = IF queue[t] = <<>> THEN "closing" ELSE "batch"
    BY <1>6 DEF AppendText, Goto, TypeOK
  <2> QED BY <1>1, <2>1, LoopStays DEF StageOf, Busy
<1>7. CASE EmitDone(t)
  <2>1. pc[t] = "closing" /\ pc'[t] = "finished" /\ iters' = iters
    BY <1>7 DEF EmitDone, Goto, TypeOK
  <2>2. StageOf(t) = "ending" /\ StageOf(t)' = "rest" /\ Len(queue'[t]) = 0
    BY <1>1, <2>1 DEF StageOf, Busy, Tidy, AtHead
  <2>3. Loop!Proceed(t, "rest", 0)
    BY <1>1, <2>2, LoopProceeds
  <2>4. Loop!Return(t)
    BY <2>1, <2>2, <2>3 DEF Loop!Return
  <2> QED BY <2>4 DEF Loop!Next, Loop!Step
<1>8. CASE DispatchRead(t) \/ BatchEnds(t)
  <2>1. /\ pc[t] = "batch" /\ iters' = iters
        /\ pc'[t] = "starting" \/ (pc'[t] = "flush" /\ fate'[t] = "Completed")
    BY <1>8 DEF DispatchRead, BatchEnds, AtCall, Goto, TypeOK
  <2> QED BY <1>1, <2>1, LoopStays DEF StageOf, Busy
<1> QED BY <1>2, <1>3, <1>4, <1>5, <1>6, <1>7, <1>8 DEF Moves

\* An error breaks the loop off, the spent budget among them.
LEMMA LoopErrors ==
  ASSUME TypeOK, NEW t \in Turns, Errors(t)
  PROVE  Loop!Next
<1>1. Others(t) /\ pc'[t] = "failed" /\ queue'[t] = <<>> /\ iters' = iters
  BY ErrorsEffect
<1>2. Busy(t)
  BY DEF Errors, Exceeded, AgentFails, PolicyFails, NeedsDecision, AtCall, SinkFails,
         AppendFails, Busy
<1> QED BY <1>1, <1>2, LoopBreaks

\* An answer takes one call off the count.
LEMMA LoopSettles ==
  ASSUME TypeOK, NEW t \in Turns, Settles(t)
  PROVE  Loop!Next
<1>1. /\ queue[t] # <<>> /\ pc[t] \in {"batch", "called", "refusing"} /\ pc'[t] = "batch"
      /\ Others(t) /\ queue'[t] = Tail(queue[t]) /\ iters' = iters
  BY SettlesEffect
<1>2. StageOf(t) = "batch" /\ StageOf(t)' = "batch"
  BY <1>1 DEF StageOf, Busy
<1>3. Len(queue[t]) > 0 /\ Len(queue'[t]) = Len(queue[t]) - 1
  BY <1>1 DEF TypeOK
<1>4. PICK n \in Nat : n = Len(queue[t]) - 1
  <2>1. Len(queue[t]) \in Nat
    BY DEF TypeOK
  <2> QED BY <1>3, <2>1
<1>5. Loop!Proceed(t, "batch", n)
  BY <1>1, <1>2, <1>3, <1>4, LoopProceeds
<1>6. Loop!Answer(t)
  BY <1>1, <1>2, <1>3, <1>4, <1>5 DEF Loop!Answer, Loop!Proceed
<1> QED BY <1>6 DEF Loop!Next, Loop!Step

\* What the policy decides runs or refuses the call, stops the loop or breaks it.
LEMMA LoopPolicy ==
  ASSUME TypeOK, NEW t \in Turns, NEW o \in Decisions, PolicyResolves(t, o)
  PROVE  Loop!Next \/ UNCHANGED Loop!vars
<1>1. /\ queue[t] # <<>> /\ pc[t] = "batch" /\ Others(t) /\ iters' = iters
      /\ pc'[t] \in {"starting", "refusing", "flush", "failed"}
      /\ pc'[t] \in {"starting", "refusing"} => queue'[t] = queue[t]
      /\ pc'[t] \in {"flush", "failed"} => queue'[t] = <<>>
      /\ pc'[t] = "flush" => fate'[t] = "Cancelled"
  BY PolicyResolvesEffect
<1>2. CASE pc'[t] \in {"starting", "refusing"}
  BY <1>1, <1>2, LoopStays DEF StageOf, Busy
<1>3. CASE pc'[t] = "flush"
  <2>1. StageOf(t) = "batch" /\ StageOf(t)' = "ending" /\ Len(queue'[t]) = 0
    BY <1>1, <1>3 DEF StageOf, Busy
  <2>2. Loop!Proceed(t, "ending", 0)
    BY <1>1, <2>1, LoopProceeds
  <2>3. Loop!Stop(t)
    BY <1>1, <2>1, <2>2 DEF Loop!Stop
  <2> QED BY <2>3 DEF Loop!Next, Loop!Step
<1>4. CASE pc'[t] = "failed"
  BY <1>1, <1>4, LoopBreaks DEF Busy
<1> QED BY <1>1, <1>2, <1>3, <1>4

\* A human's decision enters the loop with the whole budget.
LEMMA LoopApprove ==
  ASSUME TypeOK, NEW t \in Turns, NEW p \in Calls, NEW o \in Decisions, Approve(t, p, o)
  PROVE  Loop!Next
<1>1. /\ pc[t] \in AtRest /\ Others(t)
      /\ pc'[t] \in {"starting", "refusing", "flush", "failed"}
      /\ pc'[t] \in {"starting", "refusing"} => queue'[t] = <<p>>
      /\ pc'[t] \in {"flush", "failed"} => queue'[t] = <<>>
      /\ pc'[t] = "flush" => fate'[t] = "Cancelled"
  BY ApproveEffect
<1>2. StageOf(t) = "rest"
  BY <1>1 DEF StageOf, Busy, AtRest
<1>3. \/ StageOf(t)' = "batch" /\ Len(queue'[t]) = 1
      \/ StageOf(t)' \in {"loop", "ending", "rest"} /\ Len(queue'[t]) = 0
  <2>1. CASE pc'[t] \in {"starting", "refusing"}
    <3>1. StageOf(t)' = "batch"
      BY <2>1 DEF StageOf, Busy
    <3>2. queue'[t] = <<p>>
      BY <1>1, <2>1
    <3> QED BY <3>1, <3>2
  <2>2. CASE pc'[t] = "flush"
    BY <1>1, <2>2 DEF StageOf, Busy
  <2>3. CASE pc'[t] = "failed"
    BY <1>1, <2>3 DEF StageOf, Busy
  <2> QED BY <1>1, <2>1, <2>2, <2>3
<1>4. \/ Loop!Proceed(t, "batch", 1)
      \/ \E s \in {"loop", "ending", "rest"} : Loop!Proceed(t, s, 0)
  BY <1>1, <1>3, LoopProceeds
<1>5. iters' = FreshBudget(t)
  BY DEF Approve
<1>6. Loop!Enter(t)
  BY <1>2, <1>4, <1>5 DEF Loop!Enter, FreshBudget
<1> QED BY <1>6 DEF Loop!Next

\* A question stops the loop.
LEMMA LoopAsks ==
  ASSUME TypeOK, NEW t \in Turns, PolicyAsks(t)
  PROVE  Loop!Next
<1>1. /\ pc[t] = "batch" /\ pc'[t] = "flush" /\ fate'[t] = "Suspended"
      /\ Others(t) /\ queue'[t] = <<>> /\ iters' = iters
  BY PolicyAsksEffect
<1>2. StageOf(t) = "batch" /\ StageOf(t)' = "ending" /\ Len(queue'[t]) = 0
  BY <1>1 DEF StageOf, Busy
<1>3. Loop!Proceed(t, "ending", 0)
  BY <1>1, <1>2, LoopProceeds
<1>4. Loop!Stop(t)
  BY <1>1, <1>2, <1>3 DEF Loop!Stop
<1> QED BY <1>4 DEF Loop!Next, Loop!Step

\* A reply has as many calls to answer as it issues.
LEMMA LoopReplies ==
  ASSUME TypeOK, NEW t \in Turns, NEW q \in Batches, NEW h \in BOOLEAN, AgentReplies(t, q, h)
  PROVE  Loop!Next
<1>1. /\ pc[t] = "prompting" /\ Others(t) /\ iters' = iters
      /\ q \in Seq(Calls) /\ queue'[t] = q /\ Len(q) <= MaxBatch
  BY AgentRepliesEffect
<1>2. pc'[t] = IF h THEN "text" ELSE IF q = <<>> THEN "closing" ELSE "batch"
  BY DEF AgentReplies, Goto, TypeOK
<1>3. StageOf(t) = "replying"
  BY <1>1 DEF StageOf, Busy
<1>4. StageOf(t)' = IF q = <<>> THEN "ending" ELSE "batch"
  BY <1>1, <1>2 DEF StageOf, Busy
<1>5. CASE q = <<>>
  <2>1. Loop!Proceed(t, "ending", 0)
    BY <1>1, <1>4, <1>5, LoopProceeds
  <2>2. Loop!Reply(t)
    BY <1>1, <1>3, <2>1 DEF Loop!Reply
  <2> QED BY <2>2 DEF Loop!Next, Loop!Step
<1>6. CASE q # <<>>
  <2>1. Len(q) \in 1..MaxBatch
    BY <1>1, <1>6, ConstantsOK DEF ConstantsOK
  <2>2. Loop!Proceed(t, "batch", Len(q))
    BY <1>1, <1>4, <1>6, LoopProceeds
  <2>3. Loop!Reply(t)
    BY <1>1, <1>3, <2>1, <2>2 DEF Loop!Reply
  <2> QED BY <2>3 DEF Loop!Next, Loop!Step
<1> QED BY <1>5, <1>6

\* A batch that is written goes on with the loop, ends it or returns.
LEMMA LoopFlushEnds ==
  ASSUME TypeOK, Tidy, NEW t \in Turns, FlushEnds(t)
  PROVE  Loop!Next \/ UNCHANGED Loop!vars
<1>1. /\ pc[t] = "flush" /\ Others(t) /\ queue' = queue /\ iters' = iters /\ fate' = fate
      /\ queue[t] = <<>> /\ fate[t] \in Fates
  <2>1. pc[t] = "flush" /\ queue' = queue /\ iters' = iters /\ fate' = fate
    BY DEF FlushEnds
  <2> QED BY <2>1, FlushEndsEffect DEF Tidy, AtHead, TypeOK
<1>2. pc'[t] = AfterFlush(fate[t])
  BY DEF FlushEnds, Goto, TypeOK
<1>3. CASE fate[t] = "Completed"
  <2>1. StageOf(t) = "batch" /\ StageOf(t)' = "loop" /\ Len(queue[t]) = 0 /\ Len(queue'[t]) = 0
    BY <1>1, <1>2, <1>3 DEF StageOf, Busy, AfterFlush
  <2>2. Loop!Proceed(t, "loop", 0)
    BY <1>1, <2>1, LoopProceeds
  <2>3. Loop!Continue(t)
    BY <1>1, <2>1, <2>2 DEF Loop!Continue
  <2> QED BY <2>3 DEF Loop!Next, Loop!Step
<1>4. CASE fate[t] = "Cancelled"
  <2>1. StageOf(t) = "ending" /\ StageOf(t)' = "ending"
    BY <1>1, <1>2, <1>4 DEF StageOf, Busy, AfterFlush
  <2> QED BY <1>1, <2>1, LoopStays
<1>5. CASE fate[t] = "Suspended"
  <2>1. StageOf(t) = "ending" /\ StageOf(t)' = "rest" /\ Len(queue'[t]) = 0
    BY <1>1, <1>2, <1>5 DEF StageOf, Busy, AfterFlush
  <2>2. Loop!Proceed(t, "rest", 0)
    BY <1>1, <2>1, LoopProceeds
  <2>3. Loop!Return(t)
    BY <1>1, <2>1, <2>2 DEF Loop!Return
  <2> QED BY <2>3 DEF Loop!Next, Loop!Step
<1> QED BY <1>1, <1>3, <1>4, <1>5 DEF Fates

\* Whatever overlaps, fails, pauses or is submitted again, the turn loop does
\* what PromptLoop does, so that its budget ends every call (Manch::drive).
THEOREM LoopBudgeted == Spec => BudgetedLoop
<1>1. Init => Loop!Init
  <2> SUFFICES ASSUME Init PROVE Loop!Init
    OBVIOUS
  <2>1. \A t \in Turns : StageOf(t) = "rest" /\ Len(queue[t]) = 0
    BY DEF Init, StageOf, Busy
  <2> QED BY <2>1 DEF Init, Loop!Init
<1>2. TypeOK /\ Tidy /\ [Next]_vars => [Loop!Next]_(Loop!vars)
  <2> SUFFICES ASSUME TypeOK, Tidy, [Next]_vars PROVE Loop!Next \/ UNCHANGED Loop!vars
    OBVIOUS
  <2>1. ASSUME NEW t \in Turns, ReportInProgress(t) PROVE UNCHANGED Loop!vars
    <3>1. /\ pc[t] = "starting" /\ pc'[t] = "calling" /\ Others(t)
          /\ UNCHANGED <<queue, iters>>
      BY <2>1, ReportInProgressEffect
    <3> QED BY <3>1, LoopStays DEF StageOf, Busy
  <2>2. ASSUME NEW t \in Turns, CallTool(t) PROVE UNCHANGED Loop!vars
    <3>1. /\ pc[t] = "calling" /\ pc'[t] = "called" /\ Others(t)
          /\ UNCHANGED <<queue, iters>>
      BY <2>2, CallToolEffect
    <3> QED BY <3>1, LoopStays DEF StageOf, Busy
  <2>3. ASSUME NEW t \in Turns, FlushEntry(t) PROVE UNCHANGED Loop!vars
    <3>1. UNCHANGED <<pc, queue, fate, iters>>
      BY <2>3, FlushEntryEffect
    <3> QED BY <3>1 DEF Loop!vars, StageOf, Busy
  <2>4. CASE UNCHANGED vars
    BY <2>4 DEF vars, Loop!vars, StageOf, Busy
  <2> QED BY <2>1, <2>2, <2>3, <2>4, LoopMoves, LoopErrors, LoopSettles, LoopPolicy,
             LoopApprove, LoopAsks, LoopReplies, LoopFlushEnds, StepKinds
<1> QED BY <1>1, <1>2, TypeCorrect, TidyCorrect, PTL DEF Spec, BudgetedLoop, Loop!Spec
=============================================================================
