----------------------------- MODULE AcpBridge -----------------------------
(***************************************************************************)
(* AcpCliAgent of manch-acp: one prompt put to an external agent that runs   *)
(* as a subprocess and speaks the Agent Client Protocol.  The agent streams  *)
(* text and tool calls as notifications and asks permission for its own      *)
(* tools; the bridge merges the text (push_chunk), fills in titles, answers  *)
(* the requests (decide_permission) and emits what the sink is given.        *)
(*                                                                         *)
(* The agent is the environment.  The connection dispatches one message at   *)
(* a time and runs its handler to the end, so the arrival of a message and   *)
(* its handler are one action.  Text is a sequence of letters.               *)
(***************************************************************************)
EXTENDS Integers, Sequences

CONSTANTS
  Letters,      \* what text is made of
  Titles,       \* titles an agent may show for a tool call
  ToolCalls,    \* its tool calls
  OptionLists,  \* option lists it may ask permission with
  Policies,     \* what PermissionPolicy::decide may come to
  Styles,       \* how the agent streams text
  None,
  MaxText,      \* bound: letters in one reply
  MaxMessages,  \* bound: messages the agent sends, over all prompts
  UpdateStatuses  \* statuses an update may carry, None for none

AllPolicies == {"ask", "fails", "allow", "reject"}
AllStyles == {"delta", "snapshot", "repeat"}

ASSUME BridgeConstantsOK ==
  /\ None \notin Titles \cup AllPolicies
  /\ UpdateStatuses \subseteq {"in_progress", "completed", "failed", None}
  /\ Policies \subseteq AllPolicies
  /\ Styles \subseteq AllStyles
  /\ MaxText \in Nat
  /\ MaxMessages \in Nat

VARIABLES
  link,       \* where prompt stands: "idle", "connecting", "prompting" or "ended"
  style,      \* agent: how it streams text
  sentCount,  \* messages sent by the agent
  said,       \* agent: the text it has said
  given,      \* agent: the titles it gave each call, None where it left one out
  buf,        \* text_buf
  names,      \* names: the title in each ToolCall
  emitted,    \* emitted
  out,        \* what the sink was given and nobody has taken yet
  result,     \* what prompt returned: "none", "ok" or "err"
  answer,     \* history: the permission request the last message was, and its answer
  blurred     \* history: a delta could be read as a repeat or a snapshot

agentVars == <<style, sentCount, said, given>>
bridgeVars == <<link, agentVars, buf, names, emitted, out, result, answer, blurred>>

-----------------------------------------------------------------------------
(* Text.                                                                    *)

StartsWith(s, t) == Len(t) <= Len(s) /\ SubSeq(s, 1, Len(t)) = t
EndsWith(s, t) == Len(t) <= Len(s) /\ SubSeq(s, Len(s) - Len(t) + 1, Len(s)) = t

\* Slips, as in TurnLoop: plausible mistakes, each in place of the definition
\* below it, that show what the properties notice.
PushWholeChunk(chunk) ==
  IF chunk = <<>> \/ EndsWith(buf, chunk) THEN [buf |-> buf, new |-> <<>>]
  ELSE IF StartsWith(chunk, buf) THEN [buf |-> chunk, new |-> chunk]
  ELSE [buf |-> buf \o chunk, new |-> chunk]

\* push_chunk: the buffer after a chunk, and the text that is new in it.
PushChunk(chunk) ==
  IF chunk = <<>> THEN [buf |-> buf, new |-> <<>>]
  ELSE IF StartsWith(chunk, buf)
  THEN [buf |-> chunk, new |-> SubSeq(chunk, Len(buf) + 1, Len(chunk))]
  ELSE IF EndsWith(buf, chunk) THEN [buf |-> buf, new |-> <<>>]
  ELSE [buf |-> buf \o chunk, new |-> chunk]

-----------------------------------------------------------------------------
(* Permission requests.  An option is a kind and an id.                     *)

Kinds == {"allow_once", "allow_always", "reject_once", "reject_always"}
Rejects == {"reject_once", "reject_always"}

\* kind_of: an id that is the name of a kind reads as that kind.
KindOf(id) == IF id \in Kinds THEN id ELSE None

Denies(options) == {i \in DOMAIN options : options[i].kind \in Rejects}

TrustworthyByKind(options) == Denies(options)

\* The options decide_permission may pick for a human who cannot be asked.
Trustworthy(options) ==
  {i \in Denies(options) :
     /\ KindOf(options[i].id) \in {None, options[i].kind}
     /\ \A j \in DOMAIN options : options[j].id = options[i].id => j = i}

\* The first of them, or a cancellation; a policy that fails cancels as well.
Outcomes(policy, options) ==
  CASE policy = "allow" -> {"allow_once"}
    [] policy = "reject" -> {"reject_once"}
    [] policy = "fails" -> {"cancelled"}
    [] policy = "ask" ->
         IF Trustworthy(options) = {} THEN {"cancelled"}
         ELSE {options[i].id : i \in {j \in Trustworthy(options) :
                                        \A k \in Trustworthy(options) : j <= k}}

NoAnswer == [policy |-> None, options |-> <<>>, outcome |-> None]

-----------------------------------------------------------------------------
(* Events given to the sink.                                                *)

TextEvent(text) == [kind |-> "token", text |-> text, call |-> None, title |-> None, status |-> None]
ToolEvent(c, title, status) ==
  [kind |-> "tool", text |-> <<>>, call |-> c, title |-> title, status |-> status]
EndEvent(kind) == [kind |-> kind, text |-> <<>>, call |-> None, title |-> None, status |-> None]

Idle == link \in {"idle", "ended"}

BridgeInit ==
  /\ link = "idle"
  /\ style \in Styles
  /\ sentCount = 0
  /\ said = <<>>
  /\ given = [c \in ToolCalls |-> {}]
  /\ buf = <<>>
  /\ names = [c \in ToolCalls |-> None]
  /\ emitted = FALSE
  /\ out = <<>>
  /\ result = "none"
  /\ answer = NoAnswer
  /\ blurred = FALSE

\* A prompt keeps nothing of the one before.
Afresh ==
  /\ said' = <<>>
  /\ given' = [c \in ToolCalls |-> {}]
  /\ buf' = <<>>
  /\ names' = [c \in ToolCalls |-> None]
  /\ emitted' = FALSE
  /\ out' = <<>>
  /\ answer' = NoAnswer
  /\ blurred' = FALSE

\* AcpCliAgent::prompt: everything it keeps is new, the process included.
PromptAgent ==
  /\ Idle
  /\ link' = "connecting"
  /\ style' \in Styles
  /\ UNCHANGED sentCount
  /\ result' = "none"
  /\ Afresh

\* initialize, session/new and session/prompt have been sent.
Connected ==
  /\ link = "connecting"
  /\ link' = "prompting"
  /\ UNCHANGED <<agentVars, buf, names, emitted, out, result, answer, blurred>>

\* The agent sends one more message.
Speaks ==
  /\ link = "prompting"
  /\ sentCount < MaxMessages
  /\ sentCount' = sentCount + 1
  /\ UNCHANGED <<link, style, result>>

Emit(e) == emitted' = TRUE /\ out' = Append(out, e)

\* AgentMessageChunk: nothing is emitted for what is not new.
Hears(chunk) ==
  LET merged == PushChunk(chunk)
  IN  /\ buf' = merged.buf
      /\ IF merged.new = <<>> THEN UNCHANGED <<emitted, out>> ELSE Emit(TextEvent(merged.new))
      /\ answer' = NoAnswer
      /\ UNCHANGED <<given, names>>

Texts == UNION {[1..n -> Letters] : n \in 1..2}

\* What comes next, and yet looks like a repeat or a snapshot.
Ambiguous(text) == buf # <<>> /\ (StartsWith(text, buf) \/ EndsWith(buf, text))

\* A chunk that says what comes next.
SayDelta(text) ==
  /\ Speaks
  /\ style \in {"delta", "repeat"}
  /\ Len(said) + Len(text) <= MaxText
  /\ said' = said \o text
  /\ blurred' = (blurred \/ Ambiguous(text))
  /\ Hears(text)

\* A chunk that says everything so far, and what comes next.
SaySnapshot(text) ==
  /\ Speaks
  /\ style = "snapshot"
  /\ Len(said) + Len(text) <= MaxText
  /\ said' = said \o text
  /\ UNCHANGED blurred
  /\ Hears(said \o text)

\* The whole message once more.
SayAgain ==
  /\ Speaks
  /\ style = "repeat"
  /\ said # <<>>
  /\ UNCHANGED <<said, blurred>>
  /\ Hears(said)

Announce(c, title) ==
  /\ Speaks
  /\ given' = [given EXCEPT ![c] = @ \cup {title}]
  /\ names' = [names EXCEPT ![c] = title]
  /\ Emit(ToolEvent(c, title, "pending"))
  /\ answer' = NoAnswer
  /\ UNCHANGED <<said, buf, blurred>>

\* An update with whatever it brings.
UpdateAsIs(c, title, status) ==
  /\ Speaks
  /\ given' = [given EXCEPT ![c] = @ \cup {title}]
  /\ Emit(ToolEvent(c, title, status))
  /\ answer' = NoAnswer
  /\ UNCHANGED <<said, buf, names, blurred>>

\* An update of a call; a title it leaves out is the announced one, and stays
\* out when the call was never announced.
Update(c, title, status) ==
  /\ Speaks
  /\ given' = [given EXCEPT ![c] = @ \cup {title}]
  /\ Emit(ToolEvent(c, IF title = None THEN names[c] ELSE title, status))
  /\ answer' = NoAnswer
  /\ UNCHANGED <<said, buf, names, blurred>>

AskPermission(policy, options) ==
  /\ Speaks
  /\ \E outcome \in Outcomes(policy, options) :
       answer' = [policy |-> policy, options |-> options, outcome |-> outcome]
  /\ UNCHANGED <<said, given, buf, names, emitted, out, blurred>>

\* The agent answers the prompt: Done, unless it gave nothing to show.
Answers ==
  /\ link = "prompting"
  /\ link' = "ended"
  /\ result' = IF emitted THEN "ok" ELSE "err"
  /\ out' = IF emitted THEN Append(out, EndEvent("done")) ELSE out
  /\ UNCHANGED <<agentVars, buf, names, emitted, answer, blurred>>

FailsDone ==
  /\ link \in {"connecting", "prompting"}
  /\ link' = "ended"
  /\ result' = "err"
  /\ out' = IF emitted THEN Append(out, EndEvent("done")) ELSE out
  /\ UNCHANGED <<agentVars, buf, names, emitted, answer, blurred>>

\* The process does not start, the connection breaks, or a request fails.
Fails ==
  /\ link \in {"connecting", "prompting"}
  /\ link' = "ended"
  /\ result' = "err"
  /\ UNCHANGED <<agentVars, buf, names, emitted, out, answer, blurred>>

AgentNext ==
  \/ Connected
  \/ \E text \in Texts : SayDelta(text) \/ SaySnapshot(text)
  \/ SayAgain
  \/ \E c \in ToolCalls :
       \/ \E title \in Titles : Announce(c, title)
       \/ \E title \in Titles \cup {None}, status \in UpdateStatuses : Update(c, title, status)
  \/ \E policy \in Policies, options \in OptionLists : AskPermission(policy, options)
  \/ Answers
  \/ Fails

BridgeNext == PromptAgent \/ AgentNext

BridgeSpec == BridgeInit /\ [][BridgeNext]_bridgeVars

-----------------------------------------------------------------------------
(* Properties.                                                              *)

\* Unless the policy itself resolved the request, the agent is never sent an
\* id it could take for an allow: no option with that id allows, and the id
\* does not read as one.  (decide_permission's doc, lib.rs:144-160)
DeniedStays ==
  answer.policy \in {"ask", "fails"} /\ answer.outcome # "cancelled" =>
    /\ KindOf(answer.outcome) \in Rejects \cup {None}
    /\ \E i \in DOMAIN answer.options : answer.options[i].id = answer.outcome
    /\ \A i \in DOMAIN answer.options :
         answer.options[i].id = answer.outcome => answer.options[i].kind \in Rejects

\* The text of a list of events.
TextOf(events) ==
  LET text[n \in 0..Len(events)] == IF n = 0 THEN <<>> ELSE text[n - 1] \o events[n].text
  IN  text[Len(events)]

\* What is shown is what was said, however it was chunked.  push_chunk says it
\* tolerates pure deltas, snapshots and repeats "so we never double-emit"; with
\* deltas alone nothing has to be tolerated.
DeltasShown == style = "delta" => TextOf(out) = said
=============================================================================
