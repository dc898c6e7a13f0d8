----------------------------- MODULE LlmPrompt -----------------------------
(***************************************************************************)
(* One Agent::prompt of a provider agent in manch-llm: the request with its *)
(* retries (Http::send), the parser of the provider's dialect (parse_line), *)
(* the buffer that holds a cut line (drain_sse), the assembly of tool calls *)
(* (ToolAccum) and the events given to the sink (stream_items).             *)
(*                                                                         *)
(* The provider is the environment.  It streams frames, each one line of    *)
(* server-sent events; what a frame says is a record that the parser turns  *)
(* into items.  A call's arguments come as a number of pieces; the text a   *)
(* call has accumulated is the sequence of the calls its pieces belong to,  *)
(* so that arguments mixed up between calls are told from a call's own.     *)
(***************************************************************************)
EXTENDS Integers, Sequences, FiniteSets

CONSTANTS
  Calls,        \* the tool calls the model may issue
  PiecesOf,     \* pieces a call's arguments are streamed in
  NameOf,       \* the tool a call names
  Dialects,     \* the dialects a provider may speak
  Reasons,      \* the stop reasons a provider may give
  None,
  MaxFrames,    \* bound: frames in one reply
  MaxRetries,   \* Http::max_retries
  RetryAfters,  \* seconds a server may put in Retry-After
  Replayable,   \* RequestBuilder::try_clone succeeds
  Faults        \* what may fail

AllDialects == {"anthropic", "openai", "gemini"}

ASSUME ConstantsOK ==
  /\ IsFiniteSet(Calls)
  /\ None \notin Calls
  /\ None \notin Reasons
  /\ None \notin RetryAfters
  /\ PiecesOf \in [Calls -> Nat]
  /\ DOMAIN NameOf = Calls
  /\ Dialects \subseteq AllDialects
  /\ "EndTurn" \in Reasons
  /\ MaxFrames \in Nat
  /\ MaxRetries \in Nat
  /\ RetryAfters \subseteq Nat
  /\ Replayable \in BOOLEAN
  /\ Faults \subseteq {"http", "stream", "error", "sink"}

VARIABLES
  pc,        \* where prompt stands
  attempt,   \* Http::send: retries made
  pause,     \* ... and the sleep it is in, in half seconds
  dialect,   \* provider: the dialect of this agent
  begun,     \* provider: calls begun, in order
  sent,      \* provider: pieces sent of each call
  over,      \* provider: calls it has closed
  frames,    \* provider: frames sent
  partial,   \* stream_items: the line in `buf` that is not complete
  items,     \* what drain_sse returned and the loop has not handled
  open,      \* ToolAccum::open
  stop,      \* stream_items: the stop reason so far
  out,       \* history: the tool calls emitted, in order
  requests,  \* history: requests put on the wire
  slept,     \* history: half seconds slept between them
  spoke,     \* history: some event was emitted
  heard,     \* history: calls whose start was handled
  got,       \* history: pieces of a call that were handled
  closing    \* history: what Done carried

httpVars == <<attempt, pause, requests, slept>>
providerVars == <<dialect, begun, sent, over, frames>>
accumVars == <<open, stop>>
historyVars == <<out, spoke, heard, got, closing>>
vars == <<pc, httpVars, providerVars, partial, items, accumVars, historyVars>>

Stages == {"sending", "pausing", "streaming", "flushing", "done", "failed"}

\* A provider's stream slots; the last one is never a call's.
Slots == 0..Cardinality(Calls)

Begun == {begun[i] : i \in DOMAIN begun}

-----------------------------------------------------------------------------
(* Frames, and the items parse_line makes of them.                         *)

\* One part of a frame: it may open a call, carry a piece of its arguments,
\* and close it, at a slot.
Part(c, slot, opens, args, closes) ==
  [call |-> c, slot |-> slot, opens |-> opens, args |-> args, closes |-> closes]

Frame(text, reason, parts) ==
  [text |-> text, reason |-> reason, parts |-> parts, error |-> FALSE]

ErrorFrame == [text |-> FALSE, reason |-> None, parts |-> <<>>, error |-> TRUE]

Item(kind, c, slot, reason) ==
  [kind |-> kind, call |-> c, slot |-> slot, reason |-> reason]

Some(b, item) == IF b THEN <<item>> ELSE <<>>

\* Slips, as in TurnLoop: plausible mistakes, each in place of the definition
\* below it, that show what the properties notice.
PartItemsUnclosed(p) ==
  Some(p.opens, Item("start", p.call, p.slot, None))
    \o Some(p.args, Item("args", p.call, p.slot, None))

PartItems(p) ==
  Some(p.opens, Item("start", p.call, p.slot, None))
    \o Some(p.args, Item("args", p.call, p.slot, None))
    \o Some(p.closes, Item("end", p.call, p.slot, None))

\* The parts of a frame are parsed one after the other.
PartsItems(parts) ==
  LET upTo[n \in 0..Len(parts)] ==
        IF n = 0 THEN <<>> ELSE upTo[n - 1] \o PartItems(parts[n])
  IN  upTo[Len(parts)]

\* parse_line.  Gemini reports the stop reason before the text, the others
\* behind it; token counts are events like text and count as text here.
Parse(f) ==
  IF f = None THEN <<>>
  ELSE IF f.error THEN <<Item("error", None, 0, None)>>
  ELSE LET text == Some(f.text, Item("text", None, 0, None))
           reason == Some(f.reason # None, Item("stop", None, 0, f.reason))
       IN  (IF dialect = "gemini" THEN reason \o text ELSE text \o reason)
             \o PartsItems(f.parts)

\* The pieces of a call in this dialect: Gemini sends arguments whole.
Pieces(c) == IF dialect = "gemini" THEN 1 ELSE PiecesOf[c]

\* The call's id: the provider's own, or the one parse_line makes for Gemini.
IdOf(c, slot) ==
  IF dialect = "gemini" THEN [name |-> NameOf[c], slot |-> slot]
                        ELSE [name |-> c, slot |-> 0]

-----------------------------------------------------------------------------
(* What a provider may send next.                                          *)

Distinct(q) == \A i, j \in DOMAIN q : q[i] = q[j] => i = j

\* The calls one frame may speak of.
Batches ==
  UNION {{q \in [1..n -> Calls] : Distinct(q)} : n \in 0..2}

\* The elements of a sequence at some of its places, in order.
Picked(q, places) ==
  [n \in 1..Cardinality(places) |->
     q[CHOOSE i \in places : Cardinality({j \in places : j <= i}) = n]]

\* The slot of a call in a dialect that numbers calls as they begin.
SlotOf(c, began) == (CHOOSE i \in DOMAIN began : began[i] = c) - 1

\* content_block_start, content_block_delta and content_block_stop: one part
\* per frame; a block that is no tool call ends at a slot of its own.
AnthropicParts ==
  LET Open == Begun \ over
  IN  {<<>>, <<Part(None, Cardinality(Calls), FALSE, FALSE, TRUE)>>}
      \cup {<<Part(c, Len(begun), TRUE, FALSE, FALSE)>> : c \in Calls \ Begun}
      \cup {<<Part(c, SlotOf(c, begun), FALSE, TRUE, FALSE)>> :
              c \in {d \in Open : sent[d] < Pieces(d)}}
      \cup {<<Part(c, SlotOf(c, begun), FALSE, FALSE, TRUE)>> : c \in Open}

\* delta.tool_calls: a call's first delta carries its id and name, and any
\* delta a piece of its arguments.  No call is ever closed.
OpenAiParts ==
  UNION {
    LET began == begun \o Picked(q, {i \in DOMAIN q : q[i] \notin Begun})
    IN  {[i \in DOMAIN q |->
            Part(q[i], SlotOf(q[i], began), q[i] \notin Begun, args[i], FALSE)] :
           args \in {a \in [DOMAIN q -> BOOLEAN] :
                       \A i \in DOMAIN q :
                         /\ a[i] => sent[q[i]] < Pieces(q[i])
                         /\ a[i] \/ q[i] \notin Begun}} :
    q \in Batches}

\* functionCall parts: each call is whole, its slot is its place in the frame.
GeminiParts ==
  {[i \in DOMAIN q |-> Part(q[i], i - 1, TRUE, TRUE, TRUE)] :
     q \in {p \in Batches : \A i \in DOMAIN p : p[i] \notin Begun}}

Parts ==
  CASE dialect = "anthropic" -> AnthropicParts
    [] dialect = "openai" -> OpenAiParts
    [] dialect = "gemini" -> GeminiParts

\* Anthropic says one thing per frame; the others may say several at once.
Frames ==
  {f \in {Frame(text, reason, parts) :
            text \in BOOLEAN, reason \in Reasons \cup {None}, parts \in Parts} :
     dialect = "anthropic" =>
       Cardinality({k \in {"text", "reason", "parts"} :
                      \/ k = "text" /\ f.text
                      \/ k = "reason" /\ f.reason # None
                      \/ k = "parts" /\ f.parts # <<>>}) = 1}
  \cup (IF "error" \in Faults THEN {ErrorFrame} ELSE {})

Sends(f) ==
  LET opened == Picked(f.parts, {i \in DOMAIN f.parts : f.parts[i].opens})
      parts == {f.parts[i] : i \in DOMAIN f.parts}
  IN  /\ begun' = begun \o [i \in DOMAIN opened |-> opened[i].call]
      /\ sent' = [c \in Calls |->
                    IF \E p \in parts : p.call = c /\ p.args THEN sent[c] + 1 ELSE sent[c]]
      /\ over' = over \cup {c \in Calls : \E p \in parts : p.call = c /\ p.closes}
      /\ frames' = frames + 1
      /\ UNCHANGED dialect

-----------------------------------------------------------------------------
(* Helpers of Http and ToolAccum.                                          *)

RetryAfterUncapped(secs) == 2 * secs

\* retry_after, in half seconds: capped at a minute.
RetryAfter(secs) == 2 * (IF secs < 60 THEN secs ELSE 60)

\* backoff, in half seconds: doubles with each retry up to the sixth.
Doubling == <<1, 2, 4, 8, 16, 32, 64>>
Backoff(n) == Doubling[1 + (IF n < 6 THEN n ELSE 6)]

MayRetryOnceMore == Replayable /\ attempt <= MaxRetries

\* A body that cannot be cloned is sent once.
MayRetry == Replayable /\ attempt < MaxRetries

NoCall == [s \in Slots |-> None]

OpenCall(c, slot) == [call |-> c, id |-> IdOf(c, slot), json |-> <<>>]

\* parse_tool_arguments: nothing accumulated is {}, what does not parse is null.
Arguments(c, json) ==
  IF json = [n \in 1..Pieces(c) |-> c] THEN "whole"
  ELSE IF json = <<>> THEN "empty" ELSE "unreadable"

Completed(slot) ==
  LET e == open[slot]
  IN  [call |-> e.call, id |-> e.id, args |-> Arguments(e.call, e.json)]

-----------------------------------------------------------------------------
Init ==
  /\ pc = "sending"
  /\ attempt = 0
  /\ pause = 0
  /\ dialect \in Dialects
  /\ begun = <<>>
  /\ sent = [c \in Calls |-> 0]
  /\ over = {}
  /\ frames = 0
  /\ partial = None
  /\ items = <<>>
  /\ open = NoCall
  /\ stop = "EndTurn"
  /\ out = <<>>
  /\ requests = 0
  /\ slept = 0
  /\ spoke = FALSE
  /\ heard = {}
  /\ got = [c \in Calls |-> 0]
  /\ closing = None

-----------------------------------------------------------------------------
(* Http::send and the status check of prompt.                              *)

Streams == <<providerVars, partial, items, accumVars, historyVars>>

RetryIn(wait) ==
  /\ pc = "sending"
  /\ MayRetry
  /\ requests' = requests + 1
  /\ pc' = "pausing"
  /\ pause' = wait
  /\ UNCHANGED <<attempt, slept, Streams>>

\* 429 or 5xx, with a Retry-After or without.
Overloaded(asked) ==
  /\ "http" \in Faults
  /\ RetryIn(IF asked = None THEN Backoff(attempt) ELSE RetryAfter(asked))

\* The connection, or the wait for the headers, timed out or failed.
Unreached ==
  /\ "http" \in Faults
  /\ RetryIn(Backoff(attempt))

Resume ==
  /\ pc = "pausing"
  /\ pc' = "sending"
  /\ attempt' = attempt + 1
  /\ slept' = slept + pause
  /\ pause' = 0
  /\ UNCHANGED <<requests, Streams>>

\* A status or a transport error nobody retries, or no retry left: an error.
GivesUp ==
  /\ "http" \in Faults
  /\ pc = "sending"
  /\ requests' = requests + 1
  /\ pc' = "failed"
  /\ UNCHANGED <<attempt, pause, slept, Streams>>

Accepted ==
  /\ pc = "sending"
  /\ requests' = requests + 1
  /\ pc' = "streaming"
  /\ UNCHANGED <<attempt, pause, slept, Streams>>

-----------------------------------------------------------------------------
(* stream_items: read a chunk once every item of the last one is handled.   *)

Reading == pc = "streaming" /\ items = <<>>

\* A chunk that ends the line left over, if any, and brings a frame, cut or
\* whole.  A chunk with more frames is the same items in more chunks.
ChunkArrives(f, cut) ==
  /\ Reading
  /\ frames < MaxFrames
  /\ Sends(f)
  /\ items' = Parse(partial) \o (IF cut THEN <<>> ELSE Parse(f))
  /\ partial' = IF cut THEN f ELSE None
  /\ UNCHANGED <<pc, httpVars, accumVars, historyVars>>

\* A chunk that ends the line left over and brings nothing else.
TailArrives ==
  /\ Reading
  /\ partial # None
  /\ items' = Parse(partial)
  /\ partial' = None
  /\ UNCHANGED <<pc, httpVars, providerVars, accumVars, historyVars>>

\* The body ends; a line left over is never parsed.
StreamEnds ==
  /\ Reading
  /\ pc' = "flushing"
  /\ UNCHANGED <<httpVars, Streams>>

RetryBrokenStream ==
  /\ "stream" \in Faults
  /\ Reading
  /\ pc' = "sending"
  /\ UNCHANGED <<httpVars, Streams>>

\* The connection breaks, or stalls past the read timeout: an error, and the
\* calls still open are dropped.
StreamBreaks ==
  /\ "stream" \in Faults
  /\ Reading
  /\ pc' = "failed"
  /\ UNCHANGED <<httpVars, Streams>>

\* The item at the head of the queue, and its removal.
Handles(kind) ==
  /\ pc = "streaming"
  /\ items # <<>>
  /\ Head(items).kind = kind
  /\ items' = Tail(items)
  /\ UNCHANGED <<httpVars, providerVars, partial>>

Speak ==
  /\ Handles("text")
  /\ spoke' = TRUE
  /\ UNCHANGED <<pc, accumVars, out, heard, got, closing>>

HearStop ==
  /\ Handles("stop")
  /\ stop' = Head(items).reason
  /\ UNCHANGED <<pc, open, out, spoke, heard, got, closing>>

\* An error the provider reports in the stream ends the prompt.
HearError ==
  /\ Handles("error")
  /\ pc' = "failed"
  /\ UNCHANGED <<accumVars, historyVars>>

StartCall ==
  /\ Handles("start")
  /\ LET it == Head(items)
     IN  /\ open' = [open EXCEPT ![it.slot] = OpenCall(it.call, it.slot)]
         /\ heard' = heard \cup {it.call}
  /\ UNCHANGED <<pc, stop, out, spoke, got, closing>>

AddArgsToLatest ==
  /\ Handles("args")
  /\ LET it == Head(items)
         latest == CHOOSE s \in Slots : \A t \in Slots : open[t] # None => t <= s
     IN  /\ open' = IF open[latest] = None THEN open
                    ELSE [open EXCEPT ![latest].json = Append(@, it.call)]
         /\ got' = [got EXCEPT ![it.call] = @ + 1]
  /\ UNCHANGED <<pc, stop, out, spoke, heard, closing>>

\* A piece for a slot where no call is open is ignored.
AddArgs ==
  /\ Handles("args")
  /\ LET it == Head(items)
     IN  /\ open' = IF open[it.slot] = None THEN open
                    ELSE [open EXCEPT ![it.slot].json = Append(@, it.call)]
         /\ got' = [got EXCEPT ![it.call] = @ + 1]
  /\ UNCHANGED <<pc, stop, out, spoke, heard, closing>>

EndCallAndKeepIt ==
  /\ Handles("end")
  /\ open[Head(items).slot] # None
  /\ out' = Append(out, Completed(Head(items).slot))
  /\ spoke' = TRUE
  /\ UNCHANGED <<pc, accumVars, heard, got, closing>>

EndCall ==
  /\ Handles("end")
  /\ open[Head(items).slot] # None
  /\ out' = Append(out, Completed(Head(items).slot))
  /\ open' = [open EXCEPT ![Head(items).slot] = None]
  /\ spoke' = TRUE
  /\ UNCHANGED <<pc, stop, heard, got, closing>>

\* The end of a block that is no tool call.
EndNothing ==
  /\ Handles("end")
  /\ open[Head(items).slot] = None
  /\ UNCHANGED <<pc, accumVars, historyVars>>

\* ToolAccum::flush: the calls still open, in the order of a hash map.
FlushCall(slot) ==
  /\ pc = "flushing"
  /\ open[slot] # None
  /\ out' = Append(out, Completed(slot))
  /\ open' = [open EXCEPT ![slot] = None]
  /\ spoke' = TRUE
  /\ UNCHANGED <<pc, httpVars, providerVars, partial, items, stop,
                 heard, got, closing>>

EmitDoneOnceStopped ==
  /\ pc = "flushing"
  /\ open = NoCall
  /\ stop # "EndTurn"
  /\ closing' = stop
  /\ spoke' = TRUE
  /\ pc' = "done"
  /\ UNCHANGED <<httpVars, providerVars, partial, items, accumVars,
                 out, heard, got>>

EmitDone ==
  /\ pc = "flushing"
  /\ open = NoCall
  /\ closing' = stop
  /\ spoke' = TRUE
  /\ pc' = "done"
  /\ UNCHANGED <<httpVars, providerVars, partial, items, accumVars,
                 out, heard, got>>

\* EventSink::emit returns an error, wherever an event is emitted.
SinkFails ==
  /\ "sink" \in Faults
  /\ \/ pc = "flushing"
     \/ /\ pc = "streaming"
        /\ items # <<>>
        /\ \/ Head(items).kind = "text"
           \/ Head(items).kind = "end" /\ open[Head(items).slot] # None
  /\ pc' = "failed"
  /\ UNCHANGED <<httpVars, Streams>>

-----------------------------------------------------------------------------
Progress ==
  \/ \E asked \in RetryAfters \cup {None} : Overloaded(asked)
  \/ Unreached
  \/ Resume
  \/ GivesUp
  \/ Accepted
  \/ \E f \in Frames, cut \in BOOLEAN : ChunkArrives(f, cut)
  \/ TailArrives
  \/ StreamEnds
  \/ Speak
  \/ HearStop
  \/ HearError
  \/ StartCall
  \/ AddArgs
  \/ EndCall
  \/ EndNothing
  \/ \E slot \in Slots : FlushCall(slot)
  \/ EmitDone

Rest == pc \in {"done", "failed"} /\ UNCHANGED vars

Next == Progress \/ StreamBreaks \/ SinkFails \/ Rest

Spec == Init /\ [][Next]_vars

\* A provider answers and ends its replies, and a sink returns; nothing has to fail.
FairSpec == Spec /\ WF_vars(Progress)

-----------------------------------------------------------------------------
(* Properties.                                                             *)

Ids == [name : Calls \cup {NameOf[c] : c \in Calls}, slot : Slots]

OpenCalls == [call : Calls, id : Ids, json : Seq(Calls)]

\* None, the absence of an Option, is neither an open call nor a frame.
ASSUME NoneApart ==
  /\ None \notin OpenCalls
  /\ None \notin [text : BOOLEAN, reason : Reasons \cup {None},
                 parts : Seq([call : Calls \cup {None}, slot : Slots, opens : BOOLEAN,
                              args : BOOLEAN, closes : BOOLEAN]),
                 error : BOOLEAN]

Items ==
  [kind : {"text", "stop", "error", "start", "args", "end"},
   call : Calls \cup {None}, slot : Slots, reason : Reasons \cup {None}]

\* Every variable holds a value of its type, the retries' budget included.
TypeOK ==
  /\ pc \in Stages
  /\ attempt \in 0..MaxRetries
  /\ pause \in 0..120
  /\ dialect \in Dialects
  /\ begun \in Seq(Calls)
  /\ sent \in [Calls -> Nat]
  /\ over \subseteq Calls
  /\ frames \in 0..MaxFrames
  /\ items \in Seq(Items)
  /\ open \in [Slots -> OpenCalls \cup {None}]
  /\ stop \in Reasons
  /\ requests \in Nat
  /\ slept \in Nat
  /\ spoke \in BOOLEAN
  /\ heard \subseteq Calls
  /\ got \in [Calls -> Nat]
  /\ closing \in Reasons \cup {None}

\* A prompt gives up in bounded time: at most MaxRetries requests replace the
\* first, after at most a minute each whatever Retry-After asks for, and a
\* request that cannot be replayed is sent once (Http::send, retry_after).
PatienceBounded ==
  /\ requests <= 1 + (IF Replayable THEN MaxRetries ELSE 0)
  /\ slept + pause <= 120 * requests

\* No request is sent once the sink was given anything: it would see the same
\* output twice (Http::send: "Retry happens only before any bytes ...").
NothingRepeated == [][requests' # requests => ~spoke]_vars

\* The arguments a call is reported with are its own: whole exactly if all its
\* pieces arrived, {} only if none did, and null for anything between, however
\* the pieces of several calls interleave and wherever the stream stops.
OwnArguments ==
  \A i \in DOMAIN out :
    LET c == out[i].call
    IN  out[i].args = CASE got[c] = Pieces(c) -> "whole"
                        [] got[c] = 0 /\ Pieces(c) # 0 -> "empty"
                        [] OTHER -> "unreadable"

\* README.md says that Manch preserves issue order: of two calls reported, the
\* one the model began first comes first.
IssueOrder ==
  \A i, j \in DOMAIN out : i < j =>
    SlotOf(out[i].call, begun) < SlotOf(out[j].call, begun)

\* A dialect that sends calls whole keeps their order.
WholeCallsInOrder == dialect = "gemini" => IssueOrder

\* gemini.rs: "so a repeat call in the same turn still gets a distinct id".
DistinctIds == \A i, j \in DOMAIN out : out[i].id = out[j].id => i = j

\* Every prompt returns, with Done or with an error.
PromptReturns == <>(pc \in {"done", "failed"})

\* The reply as its sink sees it.
Reply == INSTANCE AgentReply WITH
  issued <- heard,
  reported <- [i \in DOMAIN out |-> out[i].call],
  state <- IF pc \in {"done", "failed"} THEN pc ELSE "open"

\* A call is reported once, after it began; Done comes last, and only once
\* every call that began is reported, whether the dialect closes calls or not.
ReplyKept == Reply!Spec
=============================================================================
