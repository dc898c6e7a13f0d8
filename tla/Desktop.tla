------------------------------ MODULE Desktop ------------------------------
(***************************************************************************)
(* One message sent from the desktop's composer and its reply: useSend, the  *)
(* engine that calls the backend and drains its channel (tauriEngine.ts),    *)
(* the command send_prompt_stream with the agent it resolves, and the events *)
(* folded into the transcript (map_event, applyEvent).                      *)
(*                                                                         *)
(* A CLI provider is AcpBridge; a BYOK provider is what LlmPrompt shows of   *)
(* one: tokens, then Done, or an error.  A step of the frontend is one task  *)
(* or one resumption of the generator; the steps interleave more freely than *)
(* microtasks do.  The channel keeps its messages in order, and the timer    *)
(* set when invoke resolves fires after the messages already sent.           *)
(***************************************************************************)
EXTENDS AcpBridge

CONSTANTS
  Chats,      \* the conversations
  Providers,  \* kinds of provider: "cli", "byok", or "nokey", a BYOK one with no key saved
  MaxSends,   \* bound: messages the user sends
  MaxReloads  \* bound: times the window is reloaded

\* The statuses the screen has for a tool call, and its card, whose title is None
\* when it is blank.  None in the place of a card is no card.
Statuses == {"running", "done", "error"}
Card == [title : Titles \cup {None}, status : Statuses]

ASSUME DesktopConstantsOK ==
  /\ Providers \subseteq {"cli", "byok", "nokey"}
  /\ None \notin Card
  /\ MaxSends \in Nat
  /\ MaxReloads \in Nat

VARIABLES
  invocation,  \* "none", "pending", then "resolved" or "rejected" until the page learns, "settled"
  timer,       \* setTimeout is pending
  queue,       \* queue
  finished,    \* finished
  gen,         \* the generator: "off", "running", "asleep" or "closing"
  live,        \* useSend: the text and the cards so far
  isStreaming, \* isStreamingAtom
  rendered,    \* isStreaming as the last render saw it
  agentStatus,      \* agentStatusAtom
  active,      \* activeIdAtom
  filing,      \* the conversation send was called in
  chats,       \* conversationsAtom: messages and cards of each
  sends,       \* messages sent
  reloads      \* windows reloaded

engineVars == <<invocation, timer, queue, finished, gen>>
screenVars == <<isStreaming, rendered, agentStatus, active, filing, chats, sends, reloads>>
desktopVars == <<bridgeVars, engineVars, live, screenVars>>

NoCards == [c \in ToolCalls |-> None]
EmptyLive == [text |-> <<>>, cards |-> NoCards]
Terminal(e) == e.kind \in {"done", "error"}

\* A message; the agent's answers the question of its number.
Said(role, question, text) == [role |-> role, question |-> question, text |-> text]

-----------------------------------------------------------------------------
(* The backend.                                                             *)

\* tool_status; an update that names no status shows as running.
CardStatus(status) ==
  CASE status = "completed" -> "done" [] status = "failed" -> "error" [] OTHER -> "running"

StageAsIs(e) == e

\* map_event.
StageEvent(e) == IF e.kind = "tool" THEN [e EXCEPT !.status = CardStatus(@)] ELSE e

\* resolve_agent fails: the command returns an error and no event.
ResolveNone ==
  /\ link' = "ended"
  /\ invocation' = "rejected"
  /\ result' = "err"
  /\ Afresh
  /\ UNCHANGED <<style, sentCount>>

\* A BYOK agent is reached without a process: it prompts at once.
ResolveByok ==
  /\ link' = "byok"
  /\ invocation' = "pending"
  /\ result' = "none"
  /\ Afresh
  /\ UNCHANGED <<style, sentCount>>

ResolveCli == PromptAgent /\ invocation' = "pending"

Resolve(provider) ==
  CASE provider = "cli" -> ResolveCli
    [] provider = "byok" -> ResolveByok
    [] provider = "nokey" -> ResolveNone

ByokToken(text) ==
  /\ link = "byok"
  /\ sentCount < MaxMessages
  /\ Len(said) + Len(text) <= MaxText
  /\ sentCount' = sentCount + 1
  /\ said' = said \o text
  /\ out' = Append(out, TextEvent(text))
  /\ UNCHANGED <<link, style, given, buf, names, emitted, result, answer, blurred>>

ByokEnds ==
  /\ link = "byok"
  /\ link' = "ended"
  /\ \/ result' = "ok" /\ out' = Append(out, EndEvent("done"))
     \/ result' = "err" /\ UNCHANGED out
  /\ UNCHANGED <<agentVars, buf, names, emitted, answer, blurred>>

\* send_prompt_stream returns; the error of a prompt is its last event.
CommandReturns ==
  /\ invocation = "pending"
  /\ link = "ended"
  /\ invocation' = "resolved"
  /\ out' = IF result = "err" THEN Append(out, EndEvent("error")) ELSE out
  /\ UNCHANGED <<link, agentVars, buf, names, emitted, result, answer, blurred,
                 timer, queue, finished, gen>>

-----------------------------------------------------------------------------
(* The engine.                                                              *)

Wake == gen' = IF gen = "asleep" THEN "running" ELSE gen

\* channel.onmessage.
Deliver ==
  /\ gen # "off"
  /\ out # <<>>
  /\ LET e == StageEvent(Head(out))
     IN  /\ queue' = Append(queue, e)
         /\ finished' = (finished \/ Terminal(e))
  /\ Wake
  /\ out' = Tail(out)
  /\ UNCHANGED <<link, agentVars, buf, names, emitted, result, answer, blurred,
                 invocation, timer>>

FinishOnResolve ==
  /\ gen # "off"
  /\ invocation = "resolved"
  /\ invocation' = "settled"
  /\ finished' = TRUE
  /\ Wake
  /\ UNCHANGED <<bridgeVars, timer, queue>>

\* invoke(..).then: the fallback is left to a timer.
InvokeResolves ==
  /\ gen # "off"
  /\ invocation = "resolved"
  /\ invocation' = "settled"
  /\ timer' = TRUE
  /\ UNCHANGED <<bridgeVars, queue, finished, gen>>

\* The timer itself asks nothing of the channel: that it comes after every
\* message sent before is the order tauriEngine.ts:44-48 relies on, stated here as
\* an assumption about the webview.
TimerFires ==
  /\ timer
  /\ out = <<>>
  /\ timer' = FALSE
  /\ finished' = TRUE
  /\ IF finished THEN UNCHANGED gen ELSE Wake
  /\ UNCHANGED <<bridgeVars, invocation, queue>>

RejectQuietly ==
  /\ gen # "off"
  /\ invocation = "rejected"
  /\ invocation' = "settled"
  /\ queue' = Append(queue, EndEvent("error"))
  /\ finished' = TRUE
  /\ UNCHANGED <<bridgeVars, timer, gen>>

\* invoke(..).catch.
InvokeRejects ==
  /\ gen # "off"
  /\ invocation = "rejected"
  /\ invocation' = "settled"
  /\ queue' = Append(queue, EndEvent("error"))
  /\ finished' = TRUE
  /\ Wake
  /\ UNCHANGED <<bridgeVars, timer>>

\* Nothing queued: the generator ends its loop, or waits for a notification.
Pause ==
  /\ gen = "running"
  /\ queue = <<>>
  /\ gen' = IF finished THEN "closing" ELSE "asleep"
  /\ UNCHANGED <<bridgeVars, invocation, timer, queue, finished, live, screenVars>>

-----------------------------------------------------------------------------
(* useSend and the screen.                                                  *)

\* applyEvent.
ApplyEvent(e) ==
  CASE e.kind = "token" -> [live EXCEPT !.text = @ \o e.text]
    [] e.kind = "tool" ->
         [live EXCEPT !.cards[e.call] = [title |-> e.title, status |-> e.status]]
    [] OTHER -> live

\* The next event is yielded and applied; after done the generator still has
\* to see invoke settle, after an error nobody asks it for more.
Consume ==
  /\ gen = "running"
  /\ queue # <<>>
  /\ Head(queue).kind # "error"
  /\ queue' = Tail(queue)
  /\ live' = ApplyEvent(Head(queue))
  /\ gen' = IF Head(queue).kind = "done" THEN "closing" ELSE gen
  /\ UNCHANGED <<bridgeVars, invocation, timer, finished, screenVars>>

\* finally
Settle ==
  /\ gen' = "off"
  /\ queue' = <<>>
  /\ live' = EmptyLive
  /\ isStreaming' = FALSE

ErrorIgnored ==
  /\ gen = "running"
  /\ queue # <<>>
  /\ Head(queue).kind = "error"
  /\ queue' = Tail(queue)
  /\ gen' = "closing"
  /\ UNCHANGED <<bridgeVars, invocation, timer, finished, live, screenVars>>

\* An error ends the loop, and the text so far is not stored.
ConsumeError ==
  /\ gen = "running"
  /\ queue # <<>>
  /\ Head(queue).kind = "error"
  /\ agentStatus' = "error"
  /\ Settle
  /\ UNCHANGED <<bridgeVars, invocation, timer, finished,
                 rendered, active, filing, chats, sends, reloads>>

Reply(chat) == Said("agent", sends, live.text)

StoreReplyInActive ==
  /\ gen = "closing"
  /\ invocation = "settled"
  /\ chats' = [chats EXCEPT ![active].messages = Append(@, Reply(active)),
                            ![active].cards = live.cards]
  /\ agentStatus' = "done"
  /\ Settle
  /\ UNCHANGED <<bridgeVars, invocation, timer, finished,
                 rendered, active, filing, sends, reloads>>

\* The generator returned: the reply is stored where it was asked for.
StoreReply ==
  /\ gen = "closing"
  /\ invocation = "settled"
  /\ chats' = [chats EXCEPT ![filing].messages = Append(@, Reply(filing)),
                            ![filing].cards = live.cards]
  /\ agentStatus' = "done"
  /\ Settle
  /\ UNCHANGED <<bridgeVars, invocation, timer, finished,
                 rendered, active, filing, sends, reloads>>

\* The user sends; a click is rendered before the next one.
Send(provider) ==
  /\ ~rendered
  /\ sends < MaxSends
  /\ Resolve(provider)
  /\ timer' = FALSE
  /\ queue' = <<>>
  /\ finished' = FALSE
  /\ gen' = "running"
  /\ live' = EmptyLive
  /\ isStreaming' = TRUE
  /\ rendered' = TRUE
  /\ agentStatus' = "busy"
  /\ filing' = active
  /\ sends' = sends + 1
  /\ chats' = [chats EXCEPT ![active].messages = Append(@, Said("user", sends + 1, <<>>))]
  /\ UNCHANGED <<active, reloads>>

Render ==
  /\ rendered # isStreaming
  /\ rendered' = isStreaming
  /\ UNCHANGED <<bridgeVars, engineVars, live,
                 isStreaming, agentStatus, active, filing, chats, sends, reloads>>

Select(chat) ==
  /\ chat # active
  /\ active' = chat
  /\ rendered' = isStreaming
  /\ UNCHANGED <<bridgeVars, engineVars, live,
                 isStreaming, agentStatus, filing, chats, sends, reloads>>

\* The window is reloaded: the conversations and the selection are kept, and a
\* stream under way goes on with nobody listening.
Reload ==
  /\ reloads < MaxReloads
  /\ reloads' = reloads + 1
  /\ link' = "idle"
  /\ out' = <<>>
  /\ invocation' = "none"
  /\ timer' = FALSE
  /\ finished' = FALSE
  /\ rendered' = FALSE
  /\ agentStatus' = "idle"
  /\ Settle
  /\ UNCHANGED <<agentVars, buf, names, emitted, result, answer, blurred,
                 active, filing, chats, sends>>

-----------------------------------------------------------------------------
DesktopInit ==
  /\ BridgeInit
  /\ invocation = "none"
  /\ timer = FALSE
  /\ queue = <<>>
  /\ finished = FALSE
  /\ gen = "off"
  /\ live = EmptyLive
  /\ isStreaming = FALSE
  /\ rendered = FALSE
  /\ agentStatus = "idle"
  /\ active \in Chats
  /\ filing = active
  /\ chats = [c \in Chats |-> [messages |-> <<>>, cards |-> NoCards]]
  /\ sends = 0
  /\ reloads = 0

Backend ==
  \/ AgentNext /\ UNCHANGED <<engineVars, live, screenVars>>
  \/ (\/ \E text \in Texts : ByokToken(text)
      \/ ByokEnds) /\ UNCHANGED <<engineVars, live, screenVars>>
  \/ CommandReturns /\ UNCHANGED <<live, screenVars>>

Engine ==
  \/ (Deliver \/ InvokeResolves \/ TimerFires \/ InvokeRejects) /\ UNCHANGED <<live, screenVars>>
  \/ Pause
  \/ Consume
  \/ ConsumeError
  \/ StoreReply

DesktopNext ==
  \/ Backend
  \/ Engine
  \/ \E provider \in Providers : Send(provider)
  \/ Render
  \/ \E chat \in Chats : Select(chat)
  \/ Reload

\* The page runs its tasks, the command returns once its agent does, and the
\* agent, which no timeout watches on the CLI path, ends its prompts.
DesktopSpec ==
  /\ DesktopInit /\ [][DesktopNext]_desktopVars
  /\ WF_desktopVars(Engine)
  /\ WF_desktopVars(Render)
  /\ WF_desktopVars(CommandReturns /\ UNCHANGED <<live, screenVars>>)
  /\ WF_desktopVars((Connected \/ Answers \/ ByokEnds) /\ UNCHANGED <<engineVars, live, screenVars>>)

-----------------------------------------------------------------------------
(* Properties.                                                              *)

\* The events on their way, with the statuses a tool call may have there.
Shapes(statuses) ==
  [kind : {"token", "done", "error"}, text : Seq(Letters), call : {None},
   title : {None}, status : {None}]
  \cup [kind : {"tool"}, text : {<<>>}, call : ToolCalls, title : Titles \cup {None}, status : statuses]

Cards == [ToolCalls -> Card \cup {None}]

Notes == [role : {"user", "agent"}, question : 1..MaxSends, text : Seq(Letters)]

\* Types; the statuses of the agent's vocabulary have become the ones the screen
\* knows by the time an event is queued, which tauriEngine.ts:12 only casts.
TypeOK ==
  /\ link \in {"idle", "connecting", "prompting", "byok", "ended"}
  /\ style \in Styles
  /\ sentCount \in 0..MaxMessages
  /\ said \in Seq(Letters)
  /\ Len(said) <= MaxText
  /\ given \in [ToolCalls -> SUBSET (Titles \cup {None})]
  /\ names \in [ToolCalls -> Titles \cup {None}]
  /\ emitted \in BOOLEAN
  /\ blurred \in BOOLEAN
  /\ result \in {"none", "ok", "err"}
  /\ \A i \in DOMAIN out : out[i] \in Shapes({"pending"} \cup UpdateStatuses)
  /\ \A i \in DOMAIN queue : queue[i] \in Shapes(Statuses)
  /\ invocation \in {"none", "pending", "resolved", "rejected", "settled"}
  /\ {timer, finished, isStreaming, rendered} \subseteq BOOLEAN
  /\ gen \in {"off", "running", "asleep", "closing"}
  /\ live \in [text : Seq(Letters), cards : Cards]
  /\ agentStatus \in {"idle", "busy", "done", "error"}
  /\ {active, filing} \subseteq Chats
  /\ \A chat \in Chats :
       /\ \A i \in DOMAIN chats[chat].messages : chats[chat].messages[i] \in Notes
       /\ chats[chat].cards \in Cards
  /\ sends \in 0..MaxSends
  /\ reloads \in 0..MaxReloads

\* A stream has at most one terminal event, and nothing follows it: what
\* tauriEngine.ts:67 relies on when it stops at the first one.
TerminalLast ==
  LET stream == queue \o out
  IN  /\ \A i \in DOMAIN stream : Terminal(stream[i]) => i = Len(stream)
      /\ gen = "closing" => stream = <<>>

\* While a reply streams, no text is lost, doubled or reordered between the
\* agent and the screen, unless its chunks could not be told from repeats.  A
\* card has a title the agent gave that call, or is blank after an update that
\* left the title out; and a call the agent announced has a card with a title,
\* at the latest when the last event about it is applied, whatever updates came
\* before or after the announcement (push_chunk; manch-acp lib.rs:304-311).
ShownAsSaid ==
  gen # "off" =>
    /\ ~blurred => said = live.text \o TextOf(queue) \o TextOf(out)
    /\ \A c \in ToolCalls :
         /\ live.cards[c] # None => live.cards[c].title \in given[c]
         /\ names[c] # None =>
              \/ \E i \in DOMAIN queue : queue[i].call = c
              \/ \E i \in DOMAIN out : out[i].call = c
              \/ live.cards[c] # None /\ live.cards[c].title # None

\* A reply that is stored is everything the agent said, cards included, although
\* the call may resolve before the last events arrive (tauriEngine.ts:49).
ReplyComplete ==
  agentStatus = "done" =>
    LET stored == chats[filing].messages
    IN  /\ ~blurred => stored[Len(stored)] = Said("agent", sends, said)
        /\ \A c \in ToolCalls : chats[filing].cards[c] = None <=> given[c] = {}

\* A reply stands directly below its question, in the conversation it was asked
\* in, whatever the user selected or reloaded meanwhile (useSend.ts:39).
ReplyFiled ==
  \A chat \in Chats :
    LET messages == chats[chat].messages
    IN  \A i \in DOMAIN messages : messages[i].role = "agent" =>
          /\ i > 1
          /\ messages[i - 1].role = "user"
          /\ messages[i - 1].question = messages[i].question

\* The screen says "done" only of a prompt that succeeded and "error" only of
\* one that failed, whose partial reply is not filed (useSend.ts:36-45).
OutcomeAgrees ==
  /\ agentStatus = "done" => result = "ok"
  /\ agentStatus = "error" =>
       /\ result = "err"
       /\ \A chat \in Chats : \A i \in DOMAIN chats[chat].messages :
            LET message == chats[chat].messages[i]
            IN  message.question = sends => message.role = "user"
  /\ agentStatus = "busy" <=> isStreaming

\* What the user sent is answered or fails, and the composer is free again: the
\* generator never sleeps through its last wake-up (tauriEngine.ts:76).
SendSettles == isStreaming ~> ~isStreaming
=============================================================================
