------------------------------ MODULE Requests ------------------------------
(***************************************************************************)
(* How a stored conversation becomes the request of a provider: the log     *)
(* folded into turns (coalesce_turns), what a provider cannot carry refused *)
(* (unsupported_resource), and the turns encoded in its dialect             *)
(* (request_body of anthropic.rs, gemini.rs and openai.rs).                 *)
(*                                                                         *)
(* An entry is known by its place n in the log; its text, bytes, arguments  *)
(* or result are that number.  A body is what the provider reads: the       *)
(* system slot and the messages, each a role and a sequence of parts.       *)
(***************************************************************************)
EXTENDS Integers, SequencesExt

Absent == "absent"

\* A log item: a role and an entry.  mime is the media type of an image or a
\* blob; id, tool and meta belong to calls, and a result has its call's id.
Block(role, kind, mime) ==
  [role |-> role, kind |-> kind, mime |-> mime,
   id |-> Absent, tool |-> Absent, meta |-> Absent, n |-> 0]
CallEntry(id, tool, meta) ==
  [role |-> "assistant", kind |-> "call", mime |-> Absent,
   id |-> id, tool |-> tool, meta |-> meta, n |-> 0]
ResultEntry(id) ==
  [role |-> "user", kind |-> "result", mime |-> Absent,
   id |-> id, tool |-> Absent, meta |-> Absent, n |-> 0]

\* What a store may hold, with the numbers that Numbered gives.
Words == STRING \cup {Absent}
EntryKinds == {"text", "image", "audio", "blob", "document", "link", "call", "result"}
LogEntries ==
  [role : {"user", "assistant", "system"}, kind : EntryKinds, mime : Words,
   id : Words, tool : Words, meta : Words, n : Nat]

Numbered(log) == [i \in DOMAIN log |-> [log[i] EXCEPT !.n = i]]

\* A part of a message: the entries it carries, and what it says of them.
WirePart(type, entries, e) ==
  [type |-> type, carries |-> [i \in DOMAIN entries |-> entries[i].n],
   mime |-> e.mime, id |-> e.id, name |-> e.tool, meta |-> e.meta]
NoEntry == Block(Absent, Absent, Absent)

Message(role, parts) == [role |-> role, parts |-> parts]

\* Sequences one behind the other, as FlattenSeq has them; the recursion is
\* written out because proofs are about it.
Joined(parts, m) ==
  LET upto[n \in 0..m] == IF n = 0 THEN <<>> ELSE upto[n - 1] \o parts[n]
  IN  upto[m]

Over(seq, Op(_)) == Joined([i \in DOMAIN seq |-> Op(seq[i])], Len(seq))
Those(seq, Test(_)) == Over(seq, LAMBDA e : IF Test(e) THEN <<e>> ELSE <<>>)

-----------------------------------------------------------------------------
(* Turns, and what is common to the dialects.                              *)

\* coalesce_turns: neighbours of one role share a turn.
CoalesceTurns(log) ==
  LET starts == Those([i \in DOMAIN log |-> i],
                      LAMBDA i : i = 1 \/ log[i].role # log[i - 1].role)
      end(k) == IF k = Len(starts) THEN Len(log) ELSE starts[k + 1] - 1
  IN  [k \in DOMAIN starts |->
         [role |-> log[starts[k]].role, entries |-> SubSeq(log, starts[k], end(k))]]

IsBlock(e) == e.kind \notin {"call", "result"}

Texts(turn) == Those(turn.entries, LAMBDA e : e.kind = "text")

\* turn_text: the texts of a turn as one string.
TurnText(turn) == <<WirePart("text", Texts(turn), NoEntry)>>

AllText(turn) == \A i \in DOMAIN turn.entries : turn.entries[i].kind = "text"

\* binary_block: bytes whose media type is known.
BinaryBlock(e) == e.kind \in {"image", "blob"} /\ e.mime # Absent

\* Slips, as in LlmPrompt: plausible mistakes that the properties must notice.
\* Here, one provider's media types taken for everybody's.
AcceptsAlike(dialect, mime) == mime \in {"image", "pdf"}

\* unsupported_content: the media types each provider takes from a blob.
AnthropicAccepts(mime) == mime \in {"image", "pdf", "plain"}
GeminiAccepts(mime) == mime \in {"image", "pdf"}
OpenAiAccepts(mime) == mime = "image"

Accepts(dialect, mime) ==
  \/ dialect = "anthropic" /\ AnthropicAccepts(mime)
  \/ dialect = "gemini" /\ GeminiAccepts(mime)
  \/ dialect = "openai" /\ OpenAiAccepts(mime)

\* unsupported_resource.  Whether a resource holds text is not asked: only a
\* blob is a binary block.
Unsupported(dialect, turns) ==
  \E i \in DOMAIN turns : \E j \in DOMAIN turns[i].entries :
    LET e == turns[i].entries[j]
    IN  /\ e.kind \in {"blob", "document"}
        /\ ~(BinaryBlock(e) /\ Accepts(dialect, e.mime))

IsSystem(turn) == turn.role = "system"

\* A context cut to its last turns.
ConversationalRecent(turns) ==
  LET kept == Those(turns, LAMBDA t : ~IsSystem(t))
  IN  SubSeq(kept, IF Len(kept) > 2 THEN Len(kept) - 1 ELSE 1, Len(kept))

Conversational(turns) == Those(turns, LAMBDA t : ~IsSystem(t))

\* The text of every system turn, in order, wherever it stood.
SystemParts(turns) == Over(Those(turns, IsSystem), TurnText)

-----------------------------------------------------------------------------
(* Anthropic: the system slot ends in the cache mark; a message is a string  *)
(* or one block per entry.                                                  *)

EntryJson(e) ==
  CASE e.kind = "text" -> <<WirePart("text", <<e>>, NoEntry)>>
    [] BinaryBlock(e) ->
         <<WirePart(IF e.mime = "image" THEN "image" ELSE "document", <<e>>, e)>>
    [] e.kind = "call" ->
         <<WirePart("call", <<e>>, [e EXCEPT !.meta = Absent])>>
    [] e.kind = "result" -> <<WirePart("result", <<e>>, e)>>
    [] OTHER -> <<>>

AnthropicContent(turn) ==
  IF AllText(turn) THEN TurnText(turn) ELSE Over(turn.entries, EntryJson)

AnthropicBody(turns, cache) ==
  [system |-> SystemParts(turns),
   cached |-> cache /\ SystemParts(turns) # <<>>,
   messages |-> Over(Conversational(turns),
                     LAMBDA t : <<Message(t.role, AnthropicContent(t))>>)]

-----------------------------------------------------------------------------
(* Gemini: results are keyed by the name of their call, looked up in the     *)
(* turn before, whatever its role.                                          *)

\* resolve_tool_name, and the id where it finds none.
ResolveToolName(turns, i, id) ==
  LET calls == IF i = 1 THEN <<>>
               ELSE Those(turns[i - 1].entries,
                              LAMBDA e : e.kind = "call" /\ e.id = id)
  IN  IF calls = <<>> THEN id ELSE calls[1].tool

EntryPart(e, turns, i) ==
  CASE e.kind = "text" -> <<WirePart("text", <<e>>, NoEntry)>>
    [] BinaryBlock(e) -> <<WirePart("inline", <<e>>, e)>>
    [] e.kind = "call" ->
         <<WirePart("call", <<e>>, [e EXCEPT !.id = Absent])>>
    [] e.kind = "result" ->
         <<WirePart("result", <<e>>,
                    [e EXCEPT !.id = Absent, !.tool = ResolveToolName(turns, i, e.id)])>>
    [] OTHER -> <<>>

GeminiContent(turns, i) ==
  IF AllText(turns[i]) THEN TurnText(turns[i])
  ELSE Over(turns[i].entries, LAMBDA e : EntryPart(e, turns, i))

GeminiBody(turns) ==
  [system |-> SystemParts(turns),
   cached |-> FALSE,
   messages |-> Over([i \in DOMAIN turns |-> i],
                     LAMBDA i : IF IsSystem(turns[i]) THEN <<>>
                                ELSE <<Message(turns[i].role, GeminiContent(turns, i))>>)]

-----------------------------------------------------------------------------
(* OpenAI: system messages lead the list; a turn becomes one message with    *)
(* its calls, one per result, and one for what else it holds.               *)

ContentPart(e) ==
  CASE e.kind = "text" -> <<WirePart("text", <<e>>, NoEntry)>>
    [] BinaryBlock(e) -> <<WirePart("image", <<e>>, e)>>
    [] OTHER -> <<>>

OpenAiContent(turn) ==
  IF \A i \in DOMAIN turn.entries :
       IsBlock(turn.entries[i]) => turn.entries[i].kind = "text"
  THEN TurnText(turn)
  ELSE Over(turn.entries, ContentPart)

ToolCalls(turn) ==
  Over(Those(turn.entries, LAMBDA e : e.kind = "call"),
       LAMBDA e : <<WirePart("call", <<e>>, [e EXCEPT !.meta = Absent])>>)

ToolMessages(turn) ==
  Over(Those(turn.entries, LAMBDA e : e.kind = "result"),
       LAMBDA e : <<Message("tool", <<WirePart("result", <<e>>, e)>>)>>)

HasBlock(turn) == \E i \in DOMAIN turn.entries : IsBlock(turn.entries[i])

\* The narration of calls in a message of its own.
TurnMessagesApart(turn) ==
  LET calls == ToolCalls(turn)
  IN  (IF calls = <<>> THEN <<>> ELSE <<Message("assistant", calls)>>)
        \o ToolMessages(turn)
        \o (IF HasBlock(turn) THEN <<Message(turn.role, OpenAiContent(turn))>> ELSE <<>>)

\* turn_messages: narration rides on the message of the calls it introduces.
TurnMessages(turn) ==
  LET calls == ToolCalls(turn)
      content == IF HasBlock(turn) THEN OpenAiContent(turn) ELSE <<>>
      results == ToolMessages(turn)
  IN  IF calls # <<>> THEN <<Message("assistant", content \o calls)>> \o results
      ELSE IF HasBlock(turn) \/ results = <<>>
           THEN Append(results, Message(turn.role, content))
           ELSE results

\* The messages that lead the list are its system slot.
OpenAiBody(turns) ==
  [system |-> Over(Over(Those(turns, IsSystem), TurnMessages), LAMBDA m : m.parts),
   cached |-> FALSE,
   messages |-> Over(Conversational(turns), TurnMessages)]

=============================================================================
