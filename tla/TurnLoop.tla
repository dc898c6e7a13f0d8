------------------------------ MODULE TurnLoop ------------------------------
(***************************************************************************)
(* The prompt/tool loop of the Manch runtime: Manch::handle, Manch::approve *)
(* and the loop they share (Manch::drive) over the in-memory store, with    *)
(* the tier gate, the permission decisions and the batch buffer of          *)
(* dispatch.rs and the sink that captures a reply's tool calls.             *)
(*                                                                         *)
(* A turn is one user message and everything done about it: the handle     *)
(* that starts it and the approve calls that resume it.  approve keeps no   *)
(* record of what it has resolved, so a consumer may submit a pending call  *)
(* as often as it likes (Retry): such an approve runs in the place of any   *)
(* turn that has no call open, its own turn's while that waits or is over,  *)
(* another's while its own still runs.                                      *)
(* Each step below runs from one await point of the code to the next, so    *)
(* the steps of turns that overlap interleave where the async runtime may   *)
(* switch tasks.                                                            *)
(* An error that `?` propagates ends the call and drops its local values;   *)
(* a future that is dropped at an await point has the same effect.          *)
(***************************************************************************)
EXTENDS Integers, Sequences, FiniteSets

CONSTANTS
  Turns,          \* the user messages a consumer sends, one turn each
  SessionOf,      \* the session each turn belongs to
  Calls,          \* the tool calls agents may issue, each with an id of its own
  TierOf,         \* tier of the tool a call names; "None" when there is no such tool
  Unreadable,     \* the calls whose arguments arrive as null
  None,           \* no call, no turn
  MessageBlocks,  \* content blocks in a user message
  MaxToolIters,   \* Manch::max_tool_iters
  MaxBatch,       \* bound: calls in one reply
  MaxAnswers,     \* bound: decisions a consumer submits for one turn
  Serial,         \* TRUE: a consumer runs one turn of a session at a time
  Retry,          \* TRUE: a consumer submits a pending call more than once
  Faults          \* the fallible collaborators that may fail

Collaborators ==
  {"registry", "agent", "sink", "policy", "propose", "append"}

ASSUME ConstantsOK ==
  /\ Calls # {}
  /\ None \notin Turns \cup Calls
  /\ TierOf \in [Calls -> {"Read", "Draft", "None"}]
  /\ Unreadable \subseteq Calls
  /\ MessageBlocks \in Nat
  /\ MaxToolIters \in Nat \ {0}      \* ManchBuilder::build refuses zero
  /\ MaxBatch \in Nat
  /\ MaxAnswers \in Nat
  /\ Serial \in BOOLEAN
  /\ Retry \in BOOLEAN
  /\ Faults \subseteq Collaborators

VARIABLES
  log,        \* MemStore::entries
  pc,         \* the await point each turn stands at
  queue,      \* run_batch: calls of the reply still to process, the head first
  buf,        \* Buffer: the calls recorded so far in this batch, in order
  appended,   \* entries written by the append loop the turn is in
  fate,       \* how the batch resolved (Batch)
  iters,      \* prompts left in this call's budget
  rounds,     \* history: prompts made for the turn
  held,       \* Batch::Suspended::pending of the turn, then AwaitingApproval's
  handed,     \* the pending calls consumers have been given so far
  answers,    \* history: decisions submitted for the turn
  owner,      \* history: the turn whose agent issued a call
  round,      \* history: the prompt of that turn that issued it, 0 before
  asked,      \* history: calls a human was asked about
  dropped,    \* history: calls queued behind a pause or a cancellation
  allowed,    \* history: allow decisions applied to a call
  ran,        \* history: times Tool::call was invoked for a call
  shown       \* the last status reported to the sink for a call

loopVars == <<log, pc, queue, buf, appended, fate, iters>>
turnVars == <<rounds, held, handed, answers>>
callVars == <<owner, round, asked, dropped, allowed, ran, shown>>
vars == <<loopVars, turnVars, callVars>>

Stages ==
  {"idle", "greeting", "loop", "prompting", "text", "batch", "starting",
   "calling", "called", "refusing", "flush", "closing", "awaiting",
   "finished", "failed"}

Statuses == {"none", "pending", "in_progress", "completed", "failed"}

Fates == {"Completed", "Cancelled", "Suspended"}

\* What a consumer, or a policy that decides by itself, can answer.
Decisions == {"allow", "reject", "cancelled", "unrecognised"}

Entries ==
  [turn : Turns, kind : {"block", "text", "call", "result"}, call : Calls \cup {None}]

-----------------------------------------------------------------------------
(* Reading the store.                                                      *)

Entry(t, k, c) == [turn |-> t, kind |-> k, call |-> c]

\* Blocks and results are appended as the user, text and calls as the assistant.
RoleOf(e) == IF e.kind \in {"block", "result"} THEN "User" ELSE "Assistant"

\* MemStore::assemble_context: every entry of the store, whatever the session.
Context(s) == log

Issued(c) == owner[c] # None
Recorded(c) == \E i \in DOMAIN log : log[i].kind = "result" /\ log[i].call = c

-----------------------------------------------------------------------------
(* Slips: each is the shape a plausible mistake would give the definition    *)
(* below that it stands in for, to show that the properties notice it.      *)

FlushResultsFirst(b, n) ==
  IF n <= Len(b) THEN <<"result", b[n]>> ELSE <<"call", b[n - Len(b)]>>
FlushInterleaved(b, n) ==
  IF n % 2 = 1 THEN <<"call", b[(n + 1) \div 2]>> ELSE <<"result", b[n \div 2]>>
AdvanceNowhere(q) == q
SpendNothing(t) == iters
RecordNothing(t, c) == buf
RunWhateverTheAnswer(o) == "starting"

-----------------------------------------------------------------------------
(* Helpers.                                                                *)

\* The n-th entry Buffer::flush appends: every call, then every result.
FlushItem(b, n) ==
  IF n <= Len(b) THEN <<"call", b[n]>> ELSE <<"result", b[n - Len(b)]>>

\* `for inv in calls`: the calls behind the one just answered.
Advance(q) == Tail(q)

\* run_batch executes without asking: the tool is registered at Tier::Read.
RunsUnasked(c) == TierOf[c] = "Read"

\* run_batch answers the call itself: no such tool, or arguments it cannot read.
Unfit(c) == TierOf[c] = "None" \/ c \in Unreadable

\* `for _ in 0..self.max_tool_iters`, entered afresh by handle and by approve.
FreshBudget(t) == [iters EXCEPT ![t] = MaxToolIters]

\* ... and one iteration of it.
SpendPrompt(t) == [iters EXCEPT ![t] = @ - 1]

\* Buffer::record.
Record(t, c) == [buf EXCEPT ![t] = Append(@, c)]

\* The stage `apply` goes to with a decision on a call.
AfterDecision(o) ==
  [allow |-> "starting", reject |-> "refusing",
   cancelled |-> "flush", unrecognised |-> "failed"][o]

\* What drive does once the batch is written.
AfterFlush(f) ==
  [Completed |-> "loop", Cancelled |-> "closing", Suspended |-> "awaiting"][f]

Busy(t) == pc[t] \notin {"idle", "awaiting", "finished", "failed"}

\* A consumer that serialises a session submits nothing while a call is open.
MaySubmit(t) ==
  Serial => \A u \in Turns : SessionOf[u] = SessionOf[t] => ~Busy(u)

\* The replies an agent may stream: any calls not issued before, in any order.
Batches ==
  LET Fresh == {c \in Calls : ~Issued(c)}
  IN  UNION {{q \in [1..n -> Fresh] : \A i, j \in 1..n : q[i] = q[j] => i = j} :
                n \in 0..MaxBatch}

Goto(t, stage) == pc' = [pc EXCEPT ![t] = stage]

\* An error leaves the call: the queue and the buffer are dropped with it.
Fail(t) ==
  /\ Goto(t, "failed")
  /\ queue' = [queue EXCEPT ![t] = <<>>]
  /\ buf' = [buf EXCEPT ![t] = <<>>]
  /\ appended' = [appended EXCEPT ![t] = 0]

-----------------------------------------------------------------------------
Init ==
  /\ log = <<>>
  /\ pc = [t \in Turns |-> "idle"]
  /\ queue = [t \in Turns |-> <<>>]
  /\ buf = [t \in Turns |-> <<>>]
  /\ appended = [t \in Turns |-> 0]
  /\ fate = [t \in Turns |-> "Completed"]
  /\ iters = [t \in Turns |-> 0]
  /\ rounds = [t \in Turns |-> 0]
  /\ held = [t \in Turns |-> None]
  /\ handed = {}
  /\ answers = [t \in Turns |-> 0]
  /\ owner = [c \in Calls |-> None]
  /\ round = [c \in Calls |-> 0]
  /\ asked = {}
  /\ dropped = {}
  /\ allowed = [c \in Calls |-> 0]
  /\ ran = [c \in Calls |-> 0]
  /\ shown = [c \in Calls |-> "none"]

-----------------------------------------------------------------------------
(* Manch::handle: find the agent, append the message block by block.        *)

Handle(t) ==
  /\ pc[t] = "idle"
  /\ MaySubmit(t)
  /\ Goto(t, "greeting")
  /\ iters' = FreshBudget(t)
  /\ UNCHANGED <<log, queue, buf, appended, fate, turnVars, callVars>>

\* agent_for (or, on resume, tool_for) finds nothing under the id.
HandleUnknownAgent(t) ==
  /\ "registry" \in Faults
  /\ pc[t] = "idle"
  /\ MaySubmit(t)
  /\ Goto(t, "failed")
  /\ UNCHANGED <<log, queue, buf, appended, fate, iters, turnVars, callVars>>

AppendBlock(t) ==
  /\ pc[t] = "greeting"
  /\ appended[t] < MessageBlocks
  /\ log' = Append(log, Entry(t, "block", None))
  /\ appended' = [appended EXCEPT ![t] = @ + 1]
  /\ UNCHANGED <<pc, queue, buf, fate, iters, turnVars, callVars>>

MessageStored(t) ==
  /\ pc[t] = "greeting"
  /\ appended[t] = MessageBlocks
  /\ Goto(t, "loop")
  /\ appended' = [appended EXCEPT ![t] = 0]
  /\ UNCHANGED <<log, queue, buf, fate, iters, turnVars, callVars>>

-----------------------------------------------------------------------------
(* Manch::drive: prompt, persist the reply's text, dispatch its calls.      *)

AssembleOverBudget(t) ==
  /\ pc[t] = "loop"
  /\ Goto(t, "prompting")
  /\ iters' = SpendPrompt(t)
  /\ rounds' = [rounds EXCEPT ![t] = @ + 1]
  /\ UNCHANGED <<log, queue, buf, appended, fate, held, handed, answers, callVars>>

\* The next iteration of the loop assembles the context and prompts with it.
Assemble(t) ==
  /\ pc[t] = "loop"
  /\ iters[t] > 0
  /\ Goto(t, "prompting")
  /\ iters' = SpendPrompt(t)
  /\ rounds' = [rounds EXCEPT ![t] = @ + 1]
  /\ UNCHANGED <<log, queue, buf, appended, fate, held, handed, answers, callVars>>

\* "tool-call loop exceeded n iterations": an error, and no Done.
Exceeded(t) ==
  /\ pc[t] = "loop"
  /\ iters[t] = 0
  /\ Fail(t)
  /\ UNCHANGED <<log, fate, iters, turnVars, callVars>>

\* Agent::prompt returns.  InterceptSink captured the reply's text, if any,
\* and its calls in the order they were emitted.
AgentReplies(t, q, hasText) ==
  /\ pc[t] = "prompting"
  /\ queue' = [queue EXCEPT ![t] = q]
  /\ Goto(t, IF hasText THEN "text" ELSE IF q = <<>> THEN "closing" ELSE "batch")
  /\ owner' = [c \in Calls |-> IF \E i \in DOMAIN q : q[i] = c THEN t ELSE owner[c]]
  /\ round' =
       [c \in Calls |-> IF \E i \in DOMAIN q : q[i] = c THEN rounds[t] ELSE round[c]]
  /\ UNCHANGED <<log, buf, appended, fate, iters, turnVars,
                 asked, dropped, allowed, ran, shown>>

\* The stream, or the sink it is forwarded to, breaks: what was captured is dropped.
AgentFails(t) ==
  /\ Faults \cap {"agent", "sink"} # {}
  /\ pc[t] = "prompting"
  /\ Fail(t)
  /\ UNCHANGED <<log, fate, iters, turnVars, callVars>>

AppendText(t) ==
  /\ pc[t] = "text"
  /\ log' = Append(log, Entry(t, "text", None))
  /\ Goto(t, IF queue[t] = <<>> THEN "closing" ELSE "batch")
  /\ UNCHANGED <<queue, buf, appended, fate, iters, turnVars, callVars>>

EmitDone(t) ==
  /\ pc[t] = "closing"
  /\ Goto(t, "finished")
  /\ UNCHANGED <<log, queue, buf, appended, fate, iters, turnVars, callVars>>

-----------------------------------------------------------------------------
(* Manch::run_batch and apply, on the call at the head of the queue.        *)

AtCall(t, stage) == pc[t] = stage /\ queue[t] # <<>>

SettleSuccessOnly(t, status) ==
  LET c == Head(queue[t])
  IN  /\ shown' = [shown EXCEPT ![c] = status]
      /\ buf' = IF status = "completed" THEN Record(t, c) ELSE buf
      /\ queue' = [queue EXCEPT ![t] = Advance(@)]
      /\ Goto(t, "batch")
      /\ UNCHANGED <<log, appended, fate, iters, turnVars,
                     owner, round, asked, dropped, allowed, ran>>

\* The call is answered: report its last status, record it, take the next one.
Settle(t, status) ==
  LET c == Head(queue[t])
  IN  /\ shown' = [shown EXCEPT ![c] = status]
      /\ buf' = Record(t, c)
      /\ queue' = [queue EXCEPT ![t] = Advance(@)]
      /\ Goto(t, "batch")
      /\ UNCHANGED <<log, appended, fate, iters, turnVars,
                     owner, round, asked, dropped, allowed, ran>>

AnswerUnfit(t) ==
  /\ AtCall(t, "batch")
  /\ Unfit(Head(queue[t]))
  /\ Settle(t, "failed")

DispatchRead(t) ==
  /\ AtCall(t, "batch")
  /\ ~Unfit(Head(queue[t]))
  /\ RunsUnasked(Head(queue[t]))
  /\ Goto(t, "starting")
  /\ UNCHANGED <<log, queue, buf, appended, fate, iters, turnVars, callVars>>

NeedsDecision(t) ==
  /\ AtCall(t, "batch")
  /\ ~Unfit(Head(queue[t]))
  /\ ~RunsUnasked(Head(queue[t]))

\* apply: a decision on the call at the head of `q`, the calls still to run.
Apply(t, o, q) ==
  /\ Goto(t, AfterDecision(o))
  /\ queue' = [queue EXCEPT ![t] = IF o \in {"allow", "reject"} THEN q ELSE <<>>]
  /\ fate' = [fate EXCEPT ![t] = IF o = "cancelled" THEN "Cancelled" ELSE @]
  /\ allowed' = [allowed EXCEPT ![Head(q)] = IF o = "allow" THEN @ + 1 ELSE @]
  /\ dropped' = IF o = "cancelled"
                THEN dropped \cup {q[i] : i \in 2..Len(q)} ELSE dropped

\* PermissionDecision::Resolved: the policy answers without a human.
PolicyResolves(t, o) ==
  /\ NeedsDecision(t)
  /\ Apply(t, o, queue[t])
  /\ buf' = [buf EXCEPT ![t] = IF o = "unrecognised" THEN <<>> ELSE @]
  /\ UNCHANGED <<log, appended, iters, turnVars, owner, round, asked, ran, shown>>

AskAndContinue(t) ==
  /\ NeedsDecision(t)
  /\ shown' = [shown EXCEPT ![Head(queue[t])] = "pending"]
  /\ asked' = asked \cup {Head(queue[t])}
  /\ dropped' = dropped \cup {queue[t][i] : i \in 2..Len(queue[t])}
  /\ held' = [held EXCEPT ![t] = Head(queue[t])]
  /\ queue' = [queue EXCEPT ![t] = Advance(@)]
  /\ UNCHANGED <<log, pc, buf, appended, fate, iters, rounds, handed, answers,
                 owner, round, allowed, ran>>

\* PermissionDecision::Ask: preview, report Pending, suspend.
PolicyAsks(t) ==
  /\ NeedsDecision(t)
  /\ shown' = [shown EXCEPT ![Head(queue[t])] = "pending"]
  /\ asked' = asked \cup {Head(queue[t])}
  /\ dropped' = dropped \cup {queue[t][i] : i \in 2..Len(queue[t])}
  /\ held' = [held EXCEPT ![t] = Head(queue[t])]
  /\ fate' = [fate EXCEPT ![t] = "Suspended"]
  /\ queue' = [queue EXCEPT ![t] = <<>>]
  /\ Goto(t, "flush")
  /\ UNCHANGED <<log, buf, appended, iters, rounds, handed, answers,
                 owner, round, allowed, ran>>

\* PermissionPolicy::decide or Tool::propose returns an error.
PolicyFails(t) ==
  /\ Faults \cap {"policy", "propose"} # {}
  /\ NeedsDecision(t)
  /\ Fail(t)
  /\ UNCHANGED <<log, fate, iters, turnVars, callVars>>

\* execute: report InProgress ...
ReportInProgress(t) ==
  /\ AtCall(t, "starting")
  /\ shown' = [shown EXCEPT ![Head(queue[t])] = "in_progress"]
  /\ Goto(t, "calling")
  /\ UNCHANGED <<log, queue, buf, appended, fate, iters, turnVars,
                 owner, round, asked, dropped, allowed, ran>>

\* ... call the tool ...
CallTool(t) ==
  /\ AtCall(t, "calling")
  /\ ran' = [ran EXCEPT ![Head(queue[t])] = @ + 1]
  /\ Goto(t, "called")
  /\ UNCHANGED <<log, queue, buf, appended, fate, iters, turnVars,
                 owner, round, asked, dropped, allowed, shown>>

\* ... and report how it ended: a tool's error is an answer like any other.
ReportResult(t, status) ==
  /\ AtCall(t, "called")
  /\ Settle(t, status)

ReportRefusal(t) ==
  /\ AtCall(t, "refusing")
  /\ Settle(t, "failed")

BatchEnds(t) ==
  /\ pc[t] = "batch"
  /\ queue[t] = <<>>
  /\ fate' = [fate EXCEPT ![t] = "Completed"]
  /\ Goto(t, "flush")
  /\ UNCHANGED <<log, queue, buf, appended, iters, turnVars, callVars>>

\* EventSink::emit returns an error where the loop awaits it.
SinkFails(t) ==
  /\ "sink" \in Faults
  /\ \/ pc[t] \in {"starting", "called", "refusing", "closing"}
     \/ AtCall(t, "batch")
  /\ Fail(t)
  /\ UNCHANGED <<log, fate, iters, turnVars, callVars>>

-----------------------------------------------------------------------------
(* Buffer::flush, one append per step.                                      *)

FlushEntry(t) ==
  /\ pc[t] = "flush"
  /\ appended[t] < 2 * Len(buf[t])
  /\ LET item == FlushItem(buf[t], appended[t] + 1)
     IN  log' = Append(log, Entry(t, item[1], item[2]))
  /\ appended' = [appended EXCEPT ![t] = @ + 1]
  /\ UNCHANGED <<pc, queue, buf, fate, iters, turnVars, callVars>>

FlushEnds(t) ==
  /\ pc[t] = "flush"
  /\ appended[t] = 2 * Len(buf[t])
  /\ buf' = [buf EXCEPT ![t] = <<>>]
  /\ appended' = [appended EXCEPT ![t] = 0]
  /\ handed' = IF fate[t] = "Suspended" THEN handed \cup {held[t]} ELSE handed
  /\ Goto(t, AfterFlush(fate[t]))
  /\ UNCHANGED <<log, queue, fate, iters, rounds, held, answers, callVars>>

\* MemoryStore::append returns an error.
AppendFails(t) ==
  /\ "append" \in Faults
  /\ \/ pc[t] = "greeting" /\ appended[t] < MessageBlocks
     \/ pc[t] = "text"
     \/ pc[t] = "flush" /\ appended[t] < 2 * Len(buf[t])
  /\ Fail(t)
  /\ UNCHANGED <<log, fate, iters, turnVars, callVars>>

-----------------------------------------------------------------------------
(* Manch::approve: the consumer returns a pending call with a decision.     *)

MayApprove(t, c) ==
  /\ \/ pc[t] = "awaiting" /\ c = held[t]
     \/ Retry /\ ~Busy(t) /\ c \in handed
  /\ answers[t] < MaxAnswers
  /\ MaySubmit(t)

Approve(t, c, o) ==
  /\ MayApprove(t, c)
  /\ answers' = [answers EXCEPT ![t] = @ + 1]
  /\ iters' = FreshBudget(t)
  /\ Apply(t, o, <<c>>)
  /\ UNCHANGED <<log, buf, appended, rounds, held, handed,
                 owner, round, asked, ran, shown>>

\* The runtime that resumes the turn has no such agent or tool.
ApproveUnknown(t, c) ==
  /\ "registry" \in Faults
  /\ MayApprove(t, c)
  /\ answers' = [answers EXCEPT ![t] = @ + 1]
  /\ Goto(t, "failed")
  /\ UNCHANGED <<log, queue, buf, appended, fate, iters, rounds, held, handed, callVars>>

-----------------------------------------------------------------------------
(* The steps the runtime takes by itself once a consumer has called it.     *)
RuntimeStep(t) ==
  \/ AppendBlock(t)
  \/ MessageStored(t)
  \/ Assemble(t)
  \/ Exceeded(t)
  \/ \E q \in Batches, hasText \in BOOLEAN : AgentReplies(t, q, hasText)
  \/ AgentFails(t)
  \/ AppendText(t)
  \/ EmitDone(t)
  \/ AnswerUnfit(t)
  \/ DispatchRead(t)
  \/ \E o \in Decisions : PolicyResolves(t, o)
  \/ PolicyAsks(t)
  \/ PolicyFails(t)
  \/ ReportInProgress(t)
  \/ CallTool(t)
  \/ \E status \in {"completed", "failed"} : ReportResult(t, status)
  \/ ReportRefusal(t)
  \/ BatchEnds(t)
  \/ SinkFails(t)
  \/ FlushEntry(t)
  \/ FlushEnds(t)
  \/ AppendFails(t)

ConsumerStep(t) ==
  \/ Handle(t)
  \/ HandleUnknownAgent(t)
  \/ \E c \in Calls :
       \/ \E o \in Decisions : Approve(t, c, o)
       \/ ApproveUnknown(t, c)

\* Every turn is over, or waits for an answer that need not come.
Rest ==
  /\ \A t \in Turns : pc[t] \in {"awaiting", "finished", "failed"}
  /\ UNCHANGED vars

Next == (\E t \in Turns : RuntimeStep(t) \/ ConsumerStep(t)) \/ Rest

Spec == Init /\ [][Next]_vars

-----------------------------------------------------------------------------
(* Properties.                                                             *)

\* Every variable holds a value of its type.
TypeOK ==
  /\ log \in Seq(Entries)
  /\ pc \in [Turns -> Stages]
  /\ queue \in [Turns -> Seq(Calls)]
  /\ buf \in [Turns -> Seq(Calls)]
  /\ appended \in [Turns -> Nat]
  /\ fate \in [Turns -> Fates]
  /\ iters \in [Turns -> 0..MaxToolIters]
  /\ rounds \in [Turns -> Nat]
  /\ held \in [Turns -> Calls \cup {None}]
  /\ handed \subseteq Calls \cup {None}
  /\ answers \in [Turns -> 0..MaxAnswers]
  /\ owner \in [Calls -> Turns \cup {None}]
  /\ round \in [Calls -> Nat]
  /\ asked \subseteq Calls
  /\ dropped \subseteq Calls
  /\ allowed \in [Calls -> Nat]
  /\ ran \in [Calls -> Nat]
  /\ shown \in [Calls -> Statuses]

\* A Draft tool is never called without an allow decision of its own: each
\* invocation uses up one, whoever gave it, however often and by how many calls
\* of approve at once a pending call is submitted (Manch::approve, dispatch::apply).
ConsentBacked ==
  \A c \in Calls : TierOf[c] = "Draft" => ran[c] <= allowed[c]

\* A call no human was asked about runs at most once, whatever the consumer
\* does.  A call that was handed out as pending runs at most once for each time
\* it is allowed: once if it is submitted once.  approve does not remember what it
\* resolved, so a consumer that submits it again, after an error, after success or
\* meanwhile, has it run again (Manch::approve).
AtMostOnce ==
  \A c \in Calls : ran[c] <= IF c \in asked THEN allowed[c] ELSE 1

\* The calls behind a pause or a cancellation are not run, reported or stored
\* later, not even once the human has answered (Batch::Suspended).
PauseHolds ==
  \A c \in dropped : ran[c] = 0 /\ shown[c] = "none" /\ ~Recorded(c)

\* Between two decisions of a human the loop prompts at most MaxToolIters times.
UnattendedBudget ==
  \A t \in Turns : rounds[t] <= MaxToolIters * (1 + answers[t])

\* A stored result always has its call before it, so a provider that reads
\* the history never meets a result it has no call for (Buffer::flush).
ResultAfterCall ==
  \A i \in DOMAIN log : log[i].kind = "result" =>
    \E j \in 1..(i - 1) : log[j].kind = "call" /\ log[j].call = log[i].call

\* The context a model is prompted with is valid history: each call in it is
\* answered, and answered in the user turn that follows the call's own
\* assistant turn once coalesce_turns has merged neighbours of one role.
HistoryValid ==
  \A t \in Turns : pc[t] = "loop" =>
    LET ctx == Context(SessionOf[t])
    IN  \A i \in DOMAIN ctx : ctx[i].kind = "call" =>
          \E j \in DOMAIN ctx :
            /\ j > i /\ ctx[j].kind = "result" /\ ctx[j].call = ctx[i].call
            /\ \A k, l \in i..j :
                 k < l /\ RoleOf(ctx[k]) = "User" => RoleOf(ctx[l]) = "User"

SameBatch(c, d) == Issued(c) /\ owner[c] = owner[d] /\ round[c] = round[d]

\* All-or-nothing, for a consumer that submits each pending call once: as soon
\* as a batch has a stored result, and is not being flushed, every call of the
\* batch that ran is stored too; the one call a human was asked about is stored
\* by the approve that follows, or not at all (Buffer::flush).
BatchAtomic ==
  \A c, d \in Calls :
    /\ SameBatch(c, d) /\ d \notin asked
    /\ Recorded(c) /\ pc[owner[c]] # "flush"
    /\ ran[d] > 0
    => Recorded(d)

\* coalesce_turns folds these calls into one assistant turn.
Folded(c, d) ==
  \A i, j \in DOMAIN log :
    (log[i].kind = "call" /\ log[i].call = c /\ log[j].kind = "call" /\ log[j].call = d)
      => \A k \in i..j : RoleOf(log[k]) = "Assistant"

\* The calls of a batch that no human was asked about stay adjacent, for a
\* consumer that runs one turn at a time and submits each pending call once.
BatchFolds ==
  \A c, d \in Calls : SameBatch(c, d) /\ {c, d} \cap asked = {} => Folded(c, d)

\* dispatch.rs says it of every batch: "the calls of one batch stay adjacent".
EveryBatchFolds ==
  \A c, d \in Calls : SameBatch(c, d) => Folded(c, d)

\* When a turn has finished, what the sink was told and what is stored agree:
\* a call was reported completed or failed exactly if its result is stored,
\* and none is left in progress; for a consumer that submits each pending call
\* once (a later approve of the same call reports on it while its turn is over).
FinishedAgrees ==
  \A t \in Turns : pc[t] = "finished" =>
    \A c \in Calls : owner[c] = t =>
      /\ shown[c] # "in_progress"
      /\ shown[c] \in {"completed", "failed"} <=> Recorded(c)

\* MemoryStore::append: "a session's append-only history".  A model is
\* prompted with the entries of its own session only.
SessionIsolated ==
  \A t \in Turns : pc[t] = "loop" =>
    LET ctx == Context(SessionOf[t])
    IN  \A i \in DOMAIN ctx : SessionOf[ctx[i].turn] = SessionOf[t]

\* A report to the sink never takes back a call's outcome, for a consumer that
\* submits each pending call once: submitting it again has it reported anew, from
\* in_progress on (dispatch::execute).
StatusSettles ==
  [][\A c \in Calls :
       shown[c] \in {"completed", "failed"} => shown'[c] = shown[c]]_shown

-----------------------------------------------------------------------------
(* The log without the entries of a flush that has not ended.               *)

Flushed ==
  LET inFlight == {t \in Turns : pc[t] = "flush"}
  IN  IF inFlight = {} THEN log
      ELSE SubSeq(log, 1, Len(log) - appended[CHOOSE t \in inFlight : TRUE])

Atomic == INSTANCE AtomicHistory WITH history <- Flushed

\* One turn at a time, and each pending call submitted once, the buffer makes a
\* batch one atomic addition.
AtomicBatches == Atomic!Spec

-----------------------------------------------------------------------------
(* The control of the loop, with the calls of a reply only counted.         *)

StageOf(t) ==
  CASE ~Busy(t) -> "rest"
    [] pc[t] \in {"greeting", "loop"} -> "loop"
    [] pc[t] = "prompting" -> "replying"
    [] \/ pc[t] = "closing"
       \/ pc[t] = "text" /\ queue[t] = <<>>
       \/ pc[t] = "flush" /\ fate[t] # "Completed" -> "ending"
    [] OTHER -> "batch"

Loop == INSTANCE PromptLoop
  WITH stage <- [t \in Turns |-> StageOf(t)],
       left <- [t \in Turns |-> Len(queue[t])],
       budget <- iters

\* Whatever overlaps, fails or is submitted again, a turn prompts, answers and
\* goes on only as the loop that the budget bounds (Manch::drive).
BudgetedLoop == Loop!Spec
=============================================================================
