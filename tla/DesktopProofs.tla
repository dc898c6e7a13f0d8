--------------------------- MODULE DesktopProofs ----------------------------
(***************************************************************************)
(* What the bridge answers an external agent, where a reply is filed, and  *)
(* what becomes of a reply on its way from the agent to the screen: every  *)
(* stream ends with one terminal event, the screen says of a prompt what came*)
(* of it, and the text and the cards that are shown and stored are the     *)
(* agent's, for every list of options, every number of conversations,      *)
(* messages, chunks and reloads, and every text.                           *)
(***************************************************************************)
EXTENDS Desktop, SequenceTheorems, Counting, TLAPS

USE DEF desktopVars, bridgeVars, agentVars, engineVars, screenVars

-----------------------------------------------------------------------------
(* The answer to a permission request.                                      *)

\* Whatever an agent offers, decide_permission picks no option it could take
\* for an allow when no human said so.
LEMMA DenialsDeny ==
  ASSUME NEW policy \in Policies, NEW options, NEW outcome,
         outcome \in Outcomes(policy, options),
         policy \in {"ask", "fails"}, outcome # "cancelled"
  PROVE  /\ KindOf(outcome) \in Rejects \cup {None}
         /\ \E i \in DOMAIN options : options[i].id = outcome
         /\ \A i \in DOMAIN options :
              options[i].id = outcome => options[i].kind \in Rejects
<1>1. policy = "ask" /\ Trustworthy(options) # {}
  BY DEF Outcomes
<1>2. PICK i \in Trustworthy(options) : outcome = options[i].id
  BY <1>1 DEF Outcomes
<1>3. /\ i \in DOMAIN options
      /\ options[i].kind \in Rejects
      /\ KindOf(options[i].id) \in {None, options[i].kind}
      /\ \A j \in DOMAIN options : options[j].id = options[i].id => j = i
  BY <1>2 DEF Trustworthy, Denies
<1> QED BY <1>2, <1>3

\* A request answered: the one action that gives answer a value.
LEMMA AskDenies ==
  ASSUME NEW policy \in Policies, NEW options, AskPermission(policy, options)
  PROVE  DeniedStays'
<1>1. PICK outcome \in Outcomes(policy, options) :
        answer' = [policy |-> policy, options |-> options, outcome |-> outcome]
  BY DEF AskPermission
<1>2. /\ answer'.policy = policy
      /\ answer'.options = options
      /\ answer'.outcome = outcome
  BY <1>1
<1> QED BY <1>2, DenialsDeny DEF DeniedStays

\* Any other step keeps the last answer or forgets it.
LEMMA ForgetDenies ==
  ASSUME DeniedStays, answer' = answer \/ answer' = NoAnswer
  PROVE  DeniedStays'
<1>1. CASE answer' = answer
  BY <1>1 DEF DeniedStays
<1>2. CASE answer' = NoAnswer
  <2>1. answer'.policy \notin {"ask", "fails"}
    BY <1>2, BridgeConstantsOK DEF NoAnswer, AllPolicies
  <2> QED BY <2>1 DEF DeniedStays
<1> QED BY <1>1, <1>2

\* A step of the agent.
LEMMA AgentDenies ==
  ASSUME DeniedStays, AgentNext
  PROVE  DeniedStays'
<1>1. CASE Connected \/ Answers \/ Fails
  BY <1>1, ForgetDenies DEF Connected, Answers, Fails
<1>2. CASE \E text \in Texts : SayDelta(text) \/ SaySnapshot(text)
  BY <1>2, ForgetDenies DEF SayDelta, SaySnapshot, Hears
<1>3. CASE SayAgain
  BY <1>3, ForgetDenies DEF SayAgain, Hears
<1>4. CASE \E c \in ToolCalls :
             \/ \E title \in Titles : Announce(c, title)
             \/ \E title \in Titles \cup {None}, status \in UpdateStatuses :
                  Update(c, title, status)
  BY <1>4, ForgetDenies DEF Announce, Update
<1>5. CASE \E policy \in Policies, options \in OptionLists : AskPermission(policy, options)
  BY <1>5, AskDenies
<1> QED BY <1>1, <1>2, <1>3, <1>4, <1>5 DEF AgentNext

\* Whatever an external agent offers, in whatever conversation and however
\* often, a request that no policy resolved is answered with an option that
\* refuses, or cancelled (manch-acp lib.rs:144-160).
THEOREM DenialHolds == DesktopSpec => []DeniedStays
<1>1. DesktopInit => DeniedStays
  BY BridgeConstantsOK DEF DesktopInit, BridgeInit, DeniedStays, NoAnswer, AllPolicies
<1>2. DeniedStays /\ [DesktopNext]_desktopVars => DeniedStays'
  <2> SUFFICES ASSUME DeniedStays, [DesktopNext]_desktopVars
               PROVE  DeniedStays'
    OBVIOUS
  <2>1. CASE AgentNext
    BY <2>1, AgentDenies
  <2>2. CASE (\E text \in Texts : ByokToken(text)) \/ ByokEnds \/ CommandReturns
    BY <2>2, ForgetDenies DEF ByokToken, ByokEnds, CommandReturns
  <2>3. CASE Deliver \/ InvokeResolves \/ TimerFires \/ InvokeRejects
    BY <2>3, ForgetDenies DEF Deliver, InvokeResolves, TimerFires, InvokeRejects
  <2>4. CASE Pause \/ Consume \/ ConsumeError \/ StoreReply
    BY <2>4, ForgetDenies DEF Pause, Consume, ConsumeError, StoreReply
  <2>5. CASE \E provider \in Providers : Send(provider)
    <3>1. PICK provider \in Providers : Resolve(provider)
      BY <2>5 DEF Send
    <3>2. provider \in {"cli", "byok", "nokey"}
      BY DesktopConstantsOK
    <3>3. answer' = answer \/ answer' = NoAnswer
      BY <3>1, <3>2 DEF Resolve, ResolveCli, ResolveByok, ResolveNone, PromptAgent, Afresh
    <3> QED BY <3>3, ForgetDenies
  <2>6. CASE Render \/ (\E chat \in Chats : Select(chat)) \/ Reload
    BY <2>6, ForgetDenies DEF Render, Select, Reload
  <2>7. CASE UNCHANGED desktopVars
    BY <2>7, ForgetDenies
  <2> QED BY <2>1, <2>2, <2>3, <2>4, <2>5, <2>6, <2>7 DEF DesktopNext, Backend, Engine
<1> QED BY <1>1, <1>2, PTL DEF DesktopSpec

-----------------------------------------------------------------------------
(* Where replies are filed.                                                 *)

\* The statuses a transcript may hold.
Kept == {"pending", "running", "done", "error"} \cup UpdateStatuses \cup {None}

\* The events the backend sends: tokens with texts of any length, and the others.
Events ==
  [kind : {"token"}, text : Seq(Letters), call : {None}, title : {None}, status : {None}]
  \cup [kind : {"done", "error"}, text : {<<>>}, call : {None}, title : {None}, status : {None}]
  \cup [kind : {"tool"}, text : {<<>>}, call : ToolCalls, title : Titles \cup {None}, status : Kept]

\* What the transcript may hold, with texts of any length.
LooseCards == [ToolCalls -> [title : Titles \cup {None}, status : Kept] \cup {None}]
LooseNotes == [role : {"user", "agent"}, question : Nat, text : Seq(Letters)]
LooseChats == [messages : Seq(LooseNotes), cards : LooseCards]

\* The text a reply is made of, from the agent's mouth to the screen.
BridgeTyped ==
  /\ said \in Seq(Letters)
  /\ buf \in Seq(Letters)
  /\ names \in [ToolCalls -> Titles \cup {None}]
  /\ out \in Seq(Events)

\* What the screen shows, and where it will be filed.
ScreenTyped ==
  /\ queue \in Seq(Events)
  /\ live \in [text : Seq(Letters), cards : LooseCards]
  /\ active \in Chats
  /\ filing \in Chats
  /\ sends \in Nat
  /\ chats \in [Chats -> LooseChats]

\* While a reply streams, its question is the last message of the conversation
\* it will be filed in: nothing else may be written there before it.
QuestionLast ==
  gen # "off" =>
    LET messages == chats[filing].messages
    IN  /\ messages # <<>>
        /\ messages[Len(messages)].role = "user"
        /\ messages[Len(messages)].question = sends

\* The inductive strengthening of ReplyFiled.
Filed == BridgeTyped /\ ScreenTyped /\ QuestionLast /\ ReplyFiled

\* push_chunk keeps text text.
LEMMA PushTyped ==
  ASSUME BridgeTyped, NEW chunk \in Seq(Letters)
  PROVE  /\ PushChunk(chunk).buf \in Seq(Letters)
         /\ PushChunk(chunk).new \in Seq(Letters)
<1> USE DEF BridgeTyped
<1>1. CASE chunk = <<>>
  <2>1. PushChunk(chunk) = [buf |-> buf, new |-> <<>>]
    BY <1>1 DEF PushChunk
  <2>2. <<>> \in Seq(Letters)
    OBVIOUS
  <2>3. PushChunk(chunk).buf = buf /\ PushChunk(chunk).new = <<>>
    BY <2>1
  <2> QED BY <2>2, <2>3
<1>2. CASE chunk # <<>> /\ StartsWith(chunk, buf)
  <2>1. SubSeq(chunk, Len(buf) + 1, Len(chunk)) \in Seq(Letters)
    OBVIOUS
  <2> QED BY <1>2, <2>1 DEF PushChunk
<1>3. CASE chunk # <<>> /\ ~StartsWith(chunk, buf)
  <2>1. \/ PushChunk(chunk) = [buf |-> buf, new |-> <<>>]
        \/ PushChunk(chunk) = [buf |-> buf \o chunk, new |-> chunk]
    BY <1>3 DEF PushChunk
  <2>2. <<>> \in Seq(Letters) /\ buf \o chunk \in Seq(Letters)
    OBVIOUS
  <2>3. CASE PushChunk(chunk) = [buf |-> buf, new |-> <<>>]
    <3>1. PushChunk(chunk).buf = buf /\ PushChunk(chunk).new = <<>>
      BY <2>3
    <3> QED BY <2>2, <3>1
  <2>4. CASE PushChunk(chunk) = [buf |-> buf \o chunk, new |-> chunk]
    <3>1. PushChunk(chunk).buf = buf \o chunk /\ PushChunk(chunk).new = chunk
      BY <2>4
    <3> QED BY <2>2, <3>1
  <2> QED BY <2>1, <2>3, <2>4
<1> QED BY <1>1, <1>2, <1>3

\* The events given to the sink.
LEMMA EventsTyped ==
  /\ \A text \in Seq(Letters) : TextEvent(text) \in Events
  /\ \A kind \in {"done", "error"} : EndEvent(kind) \in Events
  /\ \A c \in ToolCalls, title \in Titles \cup {None}, status \in Kept :
       ToolEvent(c, title, status) \in Events
BY DEF TextEvent, EndEvent, ToolEvent, Events, Kept

\* A chunk the bridge hears.
LEMMA HearsTyped ==
  ASSUME BridgeTyped, NEW chunk \in Seq(Letters), Hears(chunk), said' \in Seq(Letters)
  PROVE  BridgeTyped'
<1> DEFINE merged == PushChunk(chunk)
<1>1. /\ buf' = merged.buf
      /\ out' = out \/ out' = Append(out, TextEvent(merged.new))
      /\ names' = names
  BY DEF Hears, Emit
<1>2. merged.buf \in Seq(Letters) /\ merged.new \in Seq(Letters)
  BY PushTyped
<1>3. TextEvent(merged.new) \in Events
  BY <1>2, EventsTyped
<1> HIDE DEF merged
<1>4. out' \in Seq(Events)
  <2>1. CASE out' = out
    BY <2>1 DEF BridgeTyped
  <2>2. CASE out' = Append(out, TextEvent(merged.new))
    BY <1>3, <2>2 DEF BridgeTyped
  <2> QED BY <1>1, <2>1, <2>2
<1> QED BY <1>1, <1>2, <1>4 DEF BridgeTyped

\* The texts an agent says are texts.
LEMMA TextsTyped == Texts \subseteq Seq(Letters)
<1> SUFFICES ASSUME NEW n \in 1..2, NEW text \in [1..n -> Letters]
             PROVE  text \in Seq(Letters)
  BY DEF Texts
<1> QED OBVIOUS

\* A step of the agent.
LEMMA AgentTyped ==
  ASSUME BridgeTyped, AgentNext
  PROVE  BridgeTyped'
<1>1. CASE Connected \/ Answers \/ Fails
  <2>1. UNCHANGED <<said, buf, names>>
    BY <1>1 DEF Connected, Answers, Fails
  <2>2. out' = out \/ out' = Append(out, EndEvent("done"))
    BY <1>1 DEF Connected, Answers, Fails
  <2>3. EndEvent("done") \in Events
    BY EventsTyped
  <2>4. out' \in Seq(Events)
    <3>1. CASE out' = out
      BY <3>1 DEF BridgeTyped
    <3>2. CASE out' = Append(out, EndEvent("done"))
      BY <2>3, <3>2 DEF BridgeTyped
    <3> QED BY <2>2, <3>1, <3>2
  <2> QED BY <2>1, <2>4 DEF BridgeTyped
<1>2. CASE \E text \in Texts : SayDelta(text)
  <2>1. PICK text \in Seq(Letters) : SayDelta(text)
    BY <1>2, TextsTyped
  <2>2. said' \in Seq(Letters)
    BY <2>1 DEF SayDelta, BridgeTyped
  <2> QED BY <2>1, <2>2, HearsTyped DEF SayDelta
<1>3. CASE \E text \in Texts : SaySnapshot(text)
  <2>1. PICK text \in Seq(Letters) : SaySnapshot(text)
    BY <1>3, TextsTyped
  <2>2. said' = said \o text /\ said' \in Seq(Letters) /\ Hears(said \o text)
    BY <2>1 DEF SaySnapshot, BridgeTyped
  <2> QED BY <2>2, HearsTyped
<1>4. CASE SayAgain
  BY <1>4, HearsTyped DEF SayAgain, BridgeTyped
<1>5. CASE \E c \in ToolCalls, title \in Titles : Announce(c, title)
  BY <1>5, EventsTyped DEF Announce, Emit, BridgeTyped, Kept
<1>6. CASE \E c \in ToolCalls, title \in Titles \cup {None}, status \in UpdateStatuses :
             Update(c, title, status)
  <2>1. PICK c \in ToolCalls, title \in Titles \cup {None}, status \in UpdateStatuses :
          Update(c, title, status)
    BY <1>6
  <2> DEFINE shown == IF title = None THEN names[c] ELSE title
  <2>2. shown \in Titles \cup {None} /\ status \in Kept
    BY DEF BridgeTyped, Kept
  <2>3. ToolEvent(c, shown, status) \in Events
    BY <2>2, EventsTyped
  <2>4. out' = Append(out, ToolEvent(c, shown, status)) /\ UNCHANGED <<said, buf, names>>
    BY <2>1 DEF Update, Emit
  <2> HIDE DEF shown
  <2> QED BY <2>3, <2>4 DEF BridgeTyped
<1>7. CASE \E policy \in Policies, options \in OptionLists : AskPermission(policy, options)
  BY <1>7 DEF AskPermission, BridgeTyped
<1> QED BY <1>1, <1>2, <1>3, <1>4, <1>5, <1>6, <1>7 DEF AgentNext

\* The transcript depends on the screen alone: a step that leaves it alone, and
\* starts no stream, leaves every reply where it is.
LEMMA TranscriptKept ==
  ASSUME QuestionLast, ReplyFiled,
         UNCHANGED <<chats, filing, sends>>,
         gen # "off" \/ gen' = "off"
  PROVE  QuestionLast' /\ ReplyFiled'
BY DEF QuestionLast, ReplyFiled

\* An element appended to a sequence is its last.
LEMMA LastAppended ==
  ASSUME NEW S, NEW s \in Seq(S), NEW e \in S
  PROVE  Append(s, e) # <<>> /\ Append(s, e)[Len(Append(s, e))] = e
OBVIOUS

\* A message added at the end of a conversation disturbs no reply above it.
LEMMA AppendFiles ==
  ASSUME ReplyFiled, chats \in [Chats -> LooseChats],
         NEW chat \in Chats, NEW note \in LooseNotes, NEW cards \in LooseCards,
         chats' = [chats EXCEPT ![chat] =
                     [messages |-> Append(chats[chat].messages, note), cards |-> cards]],
         note.role = "agent" =>
           /\ chats[chat].messages # <<>>
           /\ chats[chat].messages[Len(chats[chat].messages)].role = "user"
           /\ chats[chat].messages[Len(chats[chat].messages)].question = note.question
  PROVE  chats' \in [Chats -> LooseChats] /\ ReplyFiled'
<1> DEFINE old == chats[chat].messages
<1>1. chats[chat] \in LooseChats /\ old \in Seq(LooseNotes)
  BY DEF LooseChats
<1>2. Append(old, note) \in Seq(LooseNotes)
  BY <1>1
<1>3. chats' \in [Chats -> LooseChats]
  BY <1>2 DEF LooseChats
<1>4. \A other \in Chats \ {chat} : chats'[other] = chats[other]
  OBVIOUS
<1>5. chats'[chat].messages = Append(old, note)
  OBVIOUS
<1>6. ASSUME NEW i \in DOMAIN Append(old, note), Append(old, note)[i].role = "agent"
      PROVE  /\ i > 1
             /\ Append(old, note)[i - 1].role = "user"
             /\ Append(old, note)[i - 1].question = Append(old, note)[i].question
  <2>1. Len(old) \in Nat /\ DOMAIN old = 1..Len(old) /\ i \in 1..(Len(old) + 1)
    BY <1>1
  <2>2. CASE i = Len(old) + 1
    <3>1. Append(old, note)[i] = note
      BY <1>1, <2>2
    <3>2. old # <<>> /\ Len(old) > 0
      BY <1>1, <1>6, <3>1
    <3>3. Append(old, note)[i - 1] = old[Len(old)]
      BY <1>1, <2>2, <3>2
    <3> QED BY <1>6, <2>2, <3>1, <3>2, <3>3
  <2>3. CASE i \in 1..Len(old)
    <3>1. Append(old, note)[i] = old[i]
      BY <1>1, <2>3
    <3>2. i > 1 /\ old[i - 1].role = "user" /\ old[i - 1].question = old[i].question
      BY <1>6, <2>1, <2>3, <3>1 DEF ReplyFiled
    <3>3. Append(old, note)[i - 1] = old[i - 1]
      BY <1>1, <2>3, <3>2
    <3> QED BY <3>1, <3>2, <3>3
  <2> QED BY <2>1, <2>2, <2>3
<1> HIDE DEF old
<1>7. ReplyFiled'
  BY <1>4, <1>5, <1>6 DEF ReplyFiled
<1> QED BY <1>3, <1>7

\* A step of a BYOK agent, and the command's return.
LEMMA ByokTyped ==
  ASSUME BridgeTyped,
         (\E text \in Texts : ByokToken(text)) \/ ByokEnds \/ CommandReturns
  PROVE  BridgeTyped'
<1>1. CASE \E text \in Texts : ByokToken(text)
  <2>1. PICK text \in Seq(Letters) : ByokToken(text)
    BY <1>1, TextsTyped
  <2>2. TextEvent(text) \in Events
    BY EventsTyped
  <2>3. said' \in Seq(Letters)
    BY <2>1 DEF ByokToken, BridgeTyped
  <2>4. out' = Append(out, TextEvent(text)) /\ UNCHANGED <<buf, names>>
    BY <2>1 DEF ByokToken
  <2> QED BY <2>2, <2>3, <2>4 DEF BridgeTyped
<1>2. CASE ByokEnds \/ CommandReturns
  <2>1. UNCHANGED <<said, buf, names>>
    BY <1>2 DEF ByokEnds, CommandReturns
  <2>2. PICK kind \in {"done", "error"} : out' = out \/ out' = Append(out, EndEvent(kind))
    BY <1>2 DEF ByokEnds, CommandReturns
  <2>3. EndEvent(kind) \in Events
    BY EventsTyped
  <2>4. CASE out' = out
    BY <2>1, <2>4 DEF BridgeTyped
  <2>5. CASE out' = Append(out, EndEvent(kind))
    BY <2>1, <2>3, <2>5 DEF BridgeTyped
  <2> QED BY <2>2, <2>4, <2>5
<1> QED BY <1>1, <1>2

\* map_event and applyEvent.
LEMMA EventHandled ==
  ASSUME NEW e \in Events, live \in [text : Seq(Letters), cards : LooseCards]
  PROVE  /\ StageEvent(e) \in Events
         /\ ApplyEvent(e) \in [text : Seq(Letters), cards : LooseCards]
<1>1. StageEvent(e) \in Events
  BY DEF StageEvent, CardStatus, Events, Kept
<1>2. CASE e.kind = "token"
  <2>1. live.text \in Seq(Letters) /\ e.text \in Seq(Letters)
    BY <1>2 DEF Events
  <2>2. live.text \o e.text \in Seq(Letters)
    BY <2>1
  <2> QED BY <1>1, <1>2, <2>2 DEF ApplyEvent
<1>3. CASE e.kind = "tool"
  <2>1. [title |-> e.title, status |-> e.status] \in [title : Titles \cup {None}, status : Kept]
    <3>1. e.title \in Titles \cup {None} /\ e.status \in Kept
      BY <1>3 DEF Events
    <3> QED BY <3>1
  <2>2. [live.cards EXCEPT ![e.call] = [title |-> e.title, status |-> e.status]] \in LooseCards
    BY <2>1 DEF LooseCards
  <2> QED BY <1>1, <1>3, <2>2 DEF ApplyEvent
<1>4. CASE e.kind \notin {"token", "tool"}
  BY <1>1, <1>4 DEF ApplyEvent
<1> QED BY <1>2, <1>3, <1>4

\* The engine's steps that pass events on.
LEMMA EngineTyped ==
  ASSUME BridgeTyped, queue \in Seq(Events),
         Deliver \/ InvokeResolves \/ TimerFires \/ InvokeRejects
  PROVE  /\ BridgeTyped'
         /\ queue' \in Seq(Events)
         /\ gen # "off" \/ gen' = "off"
<1>1. CASE Deliver
  <2>1. Head(out) \in Events /\ Tail(out) \in Seq(Events)
    BY <1>1 DEF Deliver, BridgeTyped
  <2>2. StageEvent(Head(out)) \in Events
    BY <2>1 DEF StageEvent, CardStatus, Events, Kept
  <2>3. /\ queue' = Append(queue, StageEvent(Head(out)))
        /\ out' = Tail(out)
        /\ gen # "off"
        /\ UNCHANGED <<said, buf, names>>
    BY <1>1 DEF Deliver
  <2> QED BY <2>1, <2>2, <2>3 DEF BridgeTyped
<1>2. CASE InvokeResolves \/ TimerFires
  BY <1>2 DEF InvokeResolves, TimerFires, Wake, BridgeTyped
<1>3. CASE InvokeRejects
  <2>1. EndEvent("error") \in Events
    BY EventsTyped
  <2> QED BY <1>3, <2>1 DEF InvokeRejects, BridgeTyped
<1> QED BY <1>1, <1>2, <1>3

\* A conversation with other cards ...
LEMMA CardsExcept ==
  ASSUME NEW messages, NEW cards, NEW others
  PROVE  [[messages |-> messages, cards |-> cards] EXCEPT !.cards = others]
           = [messages |-> messages, cards |-> others]
OBVIOUS

\* ... and one with other messages.
LEMMA ChatExcept ==
  ASSUME NEW chat \in LooseChats, NEW messages
  PROVE  [chat EXCEPT !.messages = messages] = [messages |-> messages, cards |-> chat.cards]
<1>1. chat = [messages |-> chat.messages, cards |-> chat.cards]
  BY DEF LooseChats
<1> QED BY <1>1

\* What a message sent adds to the conversation.
LEMMA SendAdds ==
  ASSUME ScreenTyped, NEW provider \in Providers, Send(provider)
  PROVE  /\ Said("user", sends + 1, <<>>) \in LooseNotes
         /\ chats[active] \in LooseChats /\ chats[active].cards \in LooseCards /\ active \in Chats
         /\ chats' = [chats EXCEPT ![active] =
                        [messages |-> Append(chats[active].messages, Said("user", sends + 1, <<>>)),
                         cards |-> chats[active].cards]]
<1> DEFINE note == Said("user", sends + 1, <<>>)
<1>1. note \in LooseNotes
  BY DEF ScreenTyped, LooseNotes, Said
<1>2. chats[active] \in LooseChats /\ chats[active].cards \in LooseCards /\ active \in Chats
  BY DEF ScreenTyped, LooseChats
<1>3. chats' = [chats EXCEPT ![active].messages = Append(@, note)]
  BY DEF Send
<1> HIDE DEF note
<1>4. [chats[active] EXCEPT !.messages = Append(@, note)]
        = [messages |-> Append(chats[active].messages, note), cards |-> chats[active].cards]
  BY <1>2, ChatExcept
<1>5. chats' = [chats EXCEPT ![active] =
                  [messages |-> Append(chats[active].messages, note), cards |-> chats[active].cards]]
  BY <1>3, <1>4
<1> QED BY <1>1, <1>2, <1>5 DEF note

\* What a reply stored adds to the conversation it was asked in.
LEMMA StoreAdds ==
  ASSUME ScreenTyped, StoreReply
  PROVE  /\ Said("agent", sends, live.text) \in LooseNotes
         /\ chats[filing] \in LooseChats /\ live.cards \in LooseCards /\ filing \in Chats
         /\ chats' = [chats EXCEPT ![filing] =
                        [messages |-> Append(chats[filing].messages, Said("agent", sends, live.text)),
                         cards |-> live.cards]]
<1> DEFINE note == Said("agent", sends, live.text)
<1>1. note \in LooseNotes
  BY DEF ScreenTyped, LooseNotes, Said
<1>2. chats[filing] \in LooseChats /\ live.cards \in LooseCards /\ filing \in Chats
  BY DEF ScreenTyped
<1>3. chats' = [chats EXCEPT ![filing].messages = Append(@, note),
                             ![filing].cards = live.cards]
  BY DEF StoreReply, Reply
<1> HIDE DEF note
<1> DEFINE asked == [chats[filing] EXCEPT !.messages = Append(@, note)]
           middle == [chats EXCEPT ![filing] = asked]
<1>4. middle[filing] = asked
  BY <1>2 DEF ScreenTyped
<1>5. [asked EXCEPT !.cards = live.cards]
        = [messages |-> Append(chats[filing].messages, note), cards |-> live.cards]
  <2>1. asked = [messages |-> Append(chats[filing].messages, note), cards |-> chats[filing].cards]
    BY <1>2, ChatExcept
  <2> HIDE DEF asked
  <2> QED BY <2>1, CardsExcept, ZenonT(30)
<1>6. chats' = [middle EXCEPT ![filing] = [middle[filing] EXCEPT !.cards = live.cards]]
  BY <1>3
<1>7. chats' = [middle EXCEPT ![filing] =
                  [messages |-> Append(chats[filing].messages, note), cards |-> live.cards]]
  BY <1>4, <1>5, <1>6
<1>8. chats' = [chats EXCEPT ![filing] =
                  [messages |-> Append(chats[filing].messages, note), cards |-> live.cards]]
  BY <1>2, <1>7 DEF ScreenTyped
<1> QED BY <1>1, <1>2, <1>8 DEF note

\* A message sent opens the conversation for one reply.
LEMMA SendFiles ==
  ASSUME Filed, NEW provider \in Providers, Send(provider)
  PROVE  Filed'
<1> USE DEF Filed
<1> DEFINE note == Said("user", sends + 1, <<>>)
           cards == chats[active].cards
<1>1. BridgeTyped'
  <2>1. provider \in {"cli", "byok", "nokey"} /\ Resolve(provider)
    BY DesktopConstantsOK DEF Send
  <2>2. <<>> \in Seq(Letters) /\ <<>> \in Seq(Events)
    OBVIOUS
  <2>3. /\ said' = <<>>
        /\ out' = <<>>
        /\ buf' = buf \/ buf' = <<>>
        /\ names' = names \/ names' = [c \in ToolCalls |-> None]
    BY <2>1 DEF Resolve, ResolveCli, ResolveByok, ResolveNone, PromptAgent, Afresh
  <2> QED BY <2>2, <2>3 DEF BridgeTyped
<1>2. note \in LooseNotes /\ note.role = "user" /\ note.question = sends + 1
  BY SendAdds DEF Said
<1>3. chats[active] \in LooseChats /\ cards \in LooseCards /\ active \in Chats
  BY SendAdds
<1>4. chats' = [chats EXCEPT ![active] =
                  [messages |-> Append(chats[active].messages, note), cards |-> cards]]
  BY SendAdds
<1>5. chats' \in [Chats -> LooseChats] /\ ReplyFiled'
  <2> HIDE DEF note, cards
  <2> QED BY <1>2, <1>3, <1>4, AppendFiles DEF ScreenTyped
<1>6. ScreenTyped'
  <2>1. EmptyLive \in [text : Seq(Letters), cards : LooseCards]
    BY DEF EmptyLive, NoCards, LooseCards
  <2>2. live' = EmptyLive /\ queue' = <<>> /\ active' = active /\ filing' = active
        /\ sends' = sends + 1
    BY DEF Send
  <2> QED BY <1>5, <2>1, <2>2 DEF ScreenTyped
<1>7. QuestionLast'
  <2>1. chats'[active].messages = Append(chats[active].messages, note)
    BY <1>3, <1>4 DEF ScreenTyped
  <2>2. filing' = active /\ sends' = sends + 1
    BY DEF Send
  <2>3. chats[active].messages \in Seq(LooseNotes)
    BY <1>3 DEF LooseChats
  <2> HIDE DEF note, Filed
  <2>4. LET messages == chats'[active].messages
        IN  messages # <<>> /\ messages[Len(messages)] = note
    BY <1>2, <2>1, <2>3, LastAppended
  <2> QED BY <1>2, <2>2, <2>4 DEF QuestionLast
<1> QED BY <1>1, <1>5, <1>6, <1>7

\* The reply is filed below its question.
LEMMA StoreFiles ==
  ASSUME Filed, StoreReply
  PROVE  Filed'
<1> USE DEF Filed
<1> DEFINE note == Said("agent", sends, live.text)
<1>1. BridgeTyped'
  BY DEF StoreReply, BridgeTyped
<1>2. note \in LooseNotes /\ note.role = "agent" /\ note.question = sends
  BY StoreAdds DEF Said
<1>3. chats[filing] \in LooseChats /\ live.cards \in LooseCards /\ filing \in Chats
  BY StoreAdds
<1>4. chats' = [chats EXCEPT ![filing] =
                  [messages |-> Append(chats[filing].messages, note), cards |-> live.cards]]
  BY StoreAdds
<1>5. /\ chats[filing].messages # <<>>
      /\ chats[filing].messages[Len(chats[filing].messages)].role = "user"
      /\ chats[filing].messages[Len(chats[filing].messages)].question = note.question
  BY <1>2 DEF StoreReply, QuestionLast
<1>6. chats' \in [Chats -> LooseChats] /\ ReplyFiled'
  <2> HIDE DEF note
  <2> QED BY <1>2, <1>3, <1>4, <1>5, AppendFiles DEF ScreenTyped
<1>7. ScreenTyped'
  <2>1. EmptyLive \in [text : Seq(Letters), cards : LooseCards]
    BY DEF EmptyLive, NoCards, LooseCards
  <2>2. live' = EmptyLive /\ queue' = <<>> /\ UNCHANGED <<active, filing, sends>>
    BY DEF StoreReply, Settle
  <2> QED BY <1>6, <2>1, <2>2 DEF ScreenTyped
<1>8. QuestionLast'
  BY DEF StoreReply, Settle, QuestionLast
<1> QED BY <1>1, <1>6, <1>7, <1>8

\* The application starts with nothing filed ...
LEMMA FiledInit == DesktopInit => Filed
<1> SUFFICES ASSUME DesktopInit PROVE Filed
  OBVIOUS
<1>1. BridgeTyped
  BY DEF DesktopInit, BridgeInit, BridgeTyped
<1>2. EmptyLive \in [text : Seq(Letters), cards : LooseCards] /\ NoCards \in LooseCards
  BY DEF EmptyLive, NoCards, LooseCards
<1>3. ScreenTyped
  BY <1>2 DEF DesktopInit, ScreenTyped, LooseChats
<1>4. QuestionLast /\ ReplyFiled
  BY DEF DesktopInit, QuestionLast, ReplyFiled
<1> QED BY <1>1, <1>3, <1>4 DEF Filed

\* ... and every step keeps what is filed where it belongs.
LEMMA FiledStep == Filed /\ [DesktopNext]_desktopVars => Filed'
<1> SUFFICES ASSUME Filed, [DesktopNext]_desktopVars
             PROVE  Filed'
  OBVIOUS
<1> USE DEF Filed
<1>1. CASE AgentNext /\ UNCHANGED <<engineVars, live, screenVars>>
  BY <1>1, AgentTyped, TranscriptKept DEF ScreenTyped
<1>2. CASE ((\E text \in Texts : ByokToken(text)) \/ ByokEnds)
             /\ UNCHANGED <<engineVars, live, screenVars>>
  BY <1>2, ByokTyped, TranscriptKept DEF ScreenTyped
<1>3. CASE CommandReturns /\ UNCHANGED <<live, screenVars>>
  <2>1. UNCHANGED <<queue, gen>>
    BY <1>3 DEF CommandReturns
  <2> QED BY <1>3, <2>1, ByokTyped, TranscriptKept DEF ScreenTyped
<1>4. CASE (Deliver \/ InvokeResolves \/ TimerFires \/ InvokeRejects)
             /\ UNCHANGED <<live, screenVars>>
  <2>1. BridgeTyped' /\ queue' \in Seq(Events) /\ (gen # "off" \/ gen' = "off")
    BY <1>4, EngineTyped DEF ScreenTyped
  <2> QED BY <1>4, <2>1, TranscriptKept DEF ScreenTyped
<1>5. CASE Pause
  BY <1>5, TranscriptKept DEF Pause, BridgeTyped, ScreenTyped
<1>6. CASE Consume
  <2>1. Head(queue) \in Events /\ Tail(queue) \in Seq(Events)
    BY <1>6 DEF Consume, ScreenTyped
  <2>2. live' \in [text : Seq(Letters), cards : LooseCards]
    BY <1>6, <2>1, EventHandled DEF Consume, ScreenTyped
  <2>3. UNCHANGED <<bridgeVars, screenVars>> /\ queue' = Tail(queue) /\ gen # "off"
    BY <1>6 DEF Consume
  <2> QED BY <2>1, <2>2, <2>3, TranscriptKept DEF BridgeTyped, ScreenTyped
<1>7. CASE ConsumeError \/ Reload
  <2>1. EmptyLive \in [text : Seq(Letters), cards : LooseCards]
    BY DEF EmptyLive, NoCards, LooseCards
  <2>2. /\ live' = EmptyLive
        /\ queue' = <<>>
        /\ gen' = "off"
        /\ UNCHANGED <<said, buf, names, active, filing, chats, sends>>
    BY <1>7 DEF ConsumeError, Reload, Settle
  <2>3. out' \in Seq(Events)
    <3>1. out' = out \/ out' = <<>>
      BY <1>7 DEF ConsumeError, Reload
    <3>2. CASE out' = out
      BY <3>2 DEF BridgeTyped
    <3>3. CASE out' = <<>>
      BY <3>3
    <3> QED BY <3>1, <3>2, <3>3
  <2> QED BY <2>1, <2>2, <2>3, TranscriptKept DEF BridgeTyped, ScreenTyped
<1>8. CASE StoreReply
  BY <1>8, StoreFiles
<1>9. CASE \E provider \in Providers : Send(provider)
  BY <1>9, SendFiles
<1>10. CASE Render \/ UNCHANGED desktopVars
  BY <1>10, TranscriptKept DEF Render, BridgeTyped, ScreenTyped
<1>11. CASE \E chat \in Chats : Select(chat)
  BY <1>11, TranscriptKept DEF Select, BridgeTyped, ScreenTyped
<1> QED BY <1>1, <1>2, <1>3, <1>4, <1>5, <1>6, <1>7, <1>8, <1>9, <1>10, <1>11
        DEF DesktopNext, Backend, Engine

\* Every reply in every conversation stands directly below the question it
\* answers, however the user switches conversations, sends again or reloads
\* while it streams, and whatever the agent streams (useSend.ts:31-41).
THEOREM ReplyFiledHolds == DesktopSpec => []ReplyFiled
<1>1. Filed => ReplyFiled
  BY DEF Filed
<1> QED BY FiledInit, FiledStep, <1>1, PTL DEF DesktopSpec

-----------------------------------------------------------------------------
(* Streams.                                                                 *)

\* The events between the agent and the screen.
Stream == queue \o out

\* No event of a sequence ends it, or exactly the last does, in this way.
Unended(s) == \A i \in DOMAIN s : ~Terminal(s[i])

ClosedBy(s, kind) ==
  /\ s # <<>>
  /\ s[Len(s)].kind = kind
  /\ \A i \in DOMAIN s : Terminal(s[i]) => i = Len(s)

\* Nothing ends nothing.
LEMMA EmptyUnended == Unended(<<>>)
BY DEF Unended

\* An event at the end.
LEMMA AppendedEvent ==
  ASSUME NEW s \in Seq(Events), NEW e \in Events, Unended(s)
  PROVE  /\ ~Terminal(e) => Unended(Append(s, e))
         /\ Terminal(e) => ClosedBy(Append(s, e), e.kind)
<1>1. /\ Len(Append(s, e)) = Len(s) + 1 /\ Append(s, e)[Len(s) + 1] = e
      /\ \A i \in 1..Len(s) : Append(s, e)[i] = s[i]
      /\ DOMAIN Append(s, e) = 1..(Len(s) + 1)
      /\ DOMAIN s = 1..Len(s) /\ Len(s) \in Nat
  OBVIOUS
<1>2. Append(s, e) # <<>>
  BY LastAppended
<1> QED BY <1>1, <1>2 DEF Unended, ClosedBy, Terminal

\* The first event taken.
LEMMA TakenEvent ==
  ASSUME NEW s \in Seq(Events), s # <<>>
  PROVE  /\ Unended(s) => Unended(Tail(s)) /\ ~Terminal(Head(s))
         /\ \A kind \in {"done", "error"} : ClosedBy(s, kind) =>
              /\ ~Terminal(Head(s)) => ClosedBy(Tail(s), kind)
              /\ Terminal(Head(s)) => Tail(s) = <<>> /\ Head(s).kind = kind
<1>1. /\ Len(s) \in Nat /\ Len(s) > 0 /\ DOMAIN s = 1..Len(s) /\ Head(s) = s[1]
      /\ Len(Tail(s)) = Len(s) - 1 /\ DOMAIN Tail(s) = 1..(Len(s) - 1)
      /\ \A i \in 1..(Len(s) - 1) : Tail(s)[i] = s[i + 1]
  OBVIOUS
<1>0. Tail(s) \in Seq(Events) /\ (Len(s) = 1 <=> Tail(s) = <<>>)
  <2>1. Tail(s) \in Seq(Events)
    OBVIOUS
  <2>2. Tail(s) = <<>> <=> Len(Tail(s)) = 0
    BY <2>1, EmptySeq
  <2> QED BY <1>1, <2>1, <2>2
<1>2. Unended(s) => Unended(Tail(s)) /\ ~Terminal(Head(s))
  BY <1>1 DEF Unended
<1>3. ASSUME NEW kind \in {"done", "error"}, ClosedBy(s, kind)
      PROVE  /\ ~Terminal(Head(s)) => ClosedBy(Tail(s), kind)
             /\ Terminal(Head(s)) => Tail(s) = <<>> /\ Head(s).kind = kind
  <2>1. CASE Terminal(Head(s))
    <3>1. 1 \in DOMAIN s /\ s[1] = Head(s)
      BY <1>1
    <3>2. Len(s) = 1
      BY <1>3, <2>1, <3>1 DEF ClosedBy
    <3> QED BY <1>0, <1>1, <1>3, <2>1, <3>2 DEF ClosedBy
  <2>2. CASE ~Terminal(Head(s))
    <3>1. Terminal(s[Len(s)]) /\ Len(s) # 1
      BY <1>1, <1>3, <2>2 DEF ClosedBy, Terminal
    <3>2. Tail(s) # <<>> /\ Len(Tail(s)) = Len(s) - 1 /\ Tail(s)[Len(s) - 1] = s[Len(s)]
      BY <1>0, <1>1, <3>1
    <3>3. \A i \in DOMAIN Tail(s) : Terminal(Tail(s)[i]) => i = Len(Tail(s))
      <4> SUFFICES ASSUME NEW i \in DOMAIN Tail(s), Terminal(Tail(s)[i]) PROVE i = Len(Tail(s))
        OBVIOUS
      <4>1. i + 1 \in DOMAIN s /\ Tail(s)[i] = s[i + 1]
        BY <1>1
      <4>2. i + 1 = Len(s)
        BY <1>3, <4>1 DEF ClosedBy
      <4> QED BY <1>1, <4>2
    <3> QED BY <1>3, <2>2, <3>2, <3>3 DEF ClosedBy
  <2> QED BY <2>1, <2>2
<1> QED BY <1>2, <1>3

\* Sequences alike in the kinds of their events.
Alike(s, t) == Len(s) = Len(t) /\ \A i \in 1..Len(s) : s[i].kind = t[i].kind

\* They end alike.
LEMMA AlikeEnd ==
  ASSUME NEW s \in Seq(Events), NEW t \in Seq(Events), Alike(s, t)
  PROVE  /\ Unended(s) => Unended(t)
         /\ \A kind : ClosedBy(s, kind) => ClosedBy(t, kind)
<1>1. /\ Len(s) = Len(t) /\ Len(s) \in Nat /\ DOMAIN s = 1..Len(s) /\ DOMAIN t = 1..Len(s)
      /\ \A i \in 1..Len(s) : s[i].kind = t[i].kind
  BY DEF Alike
<1>2. s # <<>> => t # <<>> /\ Len(s) \in 1..Len(s)
  BY <1>1
<1>3. \A i \in 1..Len(s) : Terminal(s[i]) <=> Terminal(t[i])
  BY <1>1 DEF Terminal
<1>4. Unended(s) => Unended(t)
  BY <1>1, <1>3 DEF Unended
<1>5. ASSUME NEW kind, ClosedBy(s, kind) PROVE ClosedBy(t, kind)
  <2>1. t # <<>> /\ t[Len(t)].kind = kind
    BY <1>1, <1>2, <1>5 DEF ClosedBy
  <2>2. \A i \in DOMAIN t : Terminal(t[i]) => i = Len(t)
    BY <1>1, <1>3, <1>5 DEF ClosedBy
  <2> QED BY <2>1, <2>2 DEF ClosedBy
<1> QED BY <1>4, <1>5

-----------------------------------------------------------------------------
(* What the steps make of the stream.                                       *)

\* The stream is a sequence of events, the queue first.
LEMMA StreamIs ==
  ASSUME queue \in Seq(Events), out \in Seq(Events)
  PROVE  /\ Stream \in Seq(Events)
         /\ Len(Stream) = Len(queue) + Len(out)
         /\ \A i \in 1..Len(queue) : Stream[i] = queue[i]
         /\ \A i \in 1..Len(out) : Stream[Len(queue) + i] = out[i]
         /\ Stream = <<>> <=> queue = <<>> /\ out = <<>>
<1>1. /\ Stream \in Seq(Events)
      /\ Len(Stream) = Len(queue) + Len(out)
      /\ \A i \in 1..Len(queue) : Stream[i] = queue[i]
      /\ \A i \in 1..Len(out) : Stream[Len(queue) + i] = out[i]
      /\ Len(queue) \in Nat /\ Len(out) \in Nat
  BY DEF Stream
<1>2. /\ Stream = <<>> <=> Len(Stream) = 0
      /\ queue = <<>> <=> Len(queue) = 0
      /\ out = <<>> <=> Len(out) = 0
  BY <1>1, EmptySeq
<1> QED BY <1>1, <1>2

\* An event given to the sink is the last of the stream.
LEMMA StreamAppended ==
  ASSUME queue \in Seq(Events), out \in Seq(Events), NEW e \in Events,
         queue' = queue, out' = Append(out, e)
  PROVE  Stream' = Append(Stream, e)
<1>1. queue \o Append(out, e) = Append(queue \o out, e)
  OBVIOUS
<1> QED BY <1>1 DEF Stream

\* An event delivered stays where it is, but for its status.
LEMMA StreamDelivered ==
  ASSUME queue \in Seq(Events), out \in Seq(Events), out # <<>>,
         queue' = Append(queue, StageEvent(Head(out))), out' = Tail(out)
  PROVE  /\ Stream' \in Seq(Events) /\ Len(Stream') = Len(Stream)
         /\ \A i \in 1..Len(Stream) :
              /\ Stream'[i].kind = Stream[i].kind /\ Stream'[i].call = Stream[i].call
              /\ Stream'[i].title = Stream[i].title /\ Stream'[i].text = Stream[i].text
         /\ Alike(Stream, Stream')
<1> DEFINE e == Head(out)
           d == StageEvent(e)
<1>1. /\ e \in Events /\ Tail(out) \in Seq(Events) /\ Len(Tail(out)) = Len(out) - 1
      /\ Len(out) \in Nat /\ Len(out) > 0 /\ Len(queue) \in Nat /\ out[1] = e
      /\ \A i \in 1..(Len(out) - 1) : Tail(out)[i] = out[i + 1]
  OBVIOUS
<1>2. /\ d \in Events /\ d.kind = e.kind /\ d.call = e.call /\ d.title = e.title
      /\ d.text = e.text
  <2>1. d \in Events
    BY <1>1 DEF StageEvent, CardStatus, Events, Kept
  <2> QED BY <1>1, <2>1 DEF StageEvent, Events
<1> HIDE DEF d, e
<1>3. /\ queue' = Append(queue, d) /\ out' = Tail(out)
      /\ queue' \in Seq(Events) /\ out' \in Seq(Events)
  BY <1>1, <1>2 DEF d, e
<1>4. /\ Stream' \in Seq(Events)
      /\ Len(Stream') = Len(queue') + Len(out')
      /\ \A i \in 1..Len(queue') : Stream'[i] = queue'[i]
      /\ \A i \in 1..Len(out') : Stream'[Len(queue') + i] = out'[i]
  BY <1>3 DEF Stream
<1>5. /\ Len(queue') = Len(queue) + 1 /\ Len(out') = Len(out) - 1
      /\ \A i \in 1..Len(queue) : queue'[i] = queue[i]
      /\ queue'[Len(queue) + 1] = d
  BY <1>1, <1>2, <1>3
<1>6. Len(Stream') = Len(Stream)
  BY <1>1, <1>4, <1>5, StreamIs
<1>7. ASSUME NEW i \in 1..Len(Stream)
      PROVE  \/ Stream'[i] = Stream[i]
             \/ Stream'[i] = d /\ Stream[i] = e
  <2>0. Len(Stream) \in Nat /\ i \in Int
    BY <1>1, StreamIs
  <2>1. CASE i <= Len(queue)
    <3>1. i \in 1..Len(queue) /\ i \in 1..Len(queue')
      BY <1>1, <1>5, <2>0, <2>1
    <3>2. Stream[i] = queue[i]
      BY <3>1, StreamIs
    <3>3. Stream'[i] = queue'[i] /\ queue'[i] = queue[i]
      BY <1>4, <1>5, <3>1
    <3> QED BY <3>2, <3>3
  <2>2. CASE i = Len(queue) + 1
    <3>1. Stream'[i] = d
      <4>1. i \in 1..Len(queue')
        BY <1>1, <1>5, <2>2
      <4> QED BY <1>4, <1>5, <2>2, <4>1
    <3>2. Stream[Len(queue) + 1] = out[1]
      BY <1>1, StreamIs
    <3> QED BY <1>1, <2>2, <3>1, <3>2
  <2>3. CASE i > Len(queue) + 1
    <3> DEFINE k == i - Len(queue) - 1
    <3>1. k \in 1..(Len(out) - 1) /\ i = Len(queue') + k /\ i = Len(queue) + (k + 1)
          /\ k + 1 \in 1..Len(out)
      BY <1>1, <1>5, <2>3, StreamIs
    <3> HIDE DEF k
    <3>2. /\ k \in 1..Len(out') /\ Stream'[Len(queue') + k] = out'[k]
          /\ Stream[Len(queue) + (k + 1)] = out[k + 1]
      BY <1>1, <1>4, <1>5, <3>1, StreamIs
    <3>3. out'[k] = out[k + 1]
      BY <1>1, <1>3, <3>1
    <3> QED BY <3>1, <3>2, <3>3
  <2> QED BY <1>1, <2>0, <2>1, <2>2, <2>3
<1>8. \A i \in 1..Len(Stream) :
        /\ Stream'[i].kind = Stream[i].kind /\ Stream'[i].call = Stream[i].call
        /\ Stream'[i].title = Stream[i].title /\ Stream'[i].text = Stream[i].text
  BY <1>2, <1>7
<1> QED BY <1>4, <1>6, <1>8 DEF Alike

\* The event at the head of the queue is the first of the stream.
LEMMA StreamTaken ==
  ASSUME queue \in Seq(Events), out \in Seq(Events), queue # <<>>,
         queue' = Tail(queue), out' = out
  PROVE  Stream # <<>> /\ Head(Stream) = Head(queue) /\ Stream' = Tail(Stream)
<1>1. Tail(queue \o out) = Tail(queue) \o out /\ Head(queue \o out) = Head(queue)
  OBVIOUS
<1>2. Stream # <<>>
  BY StreamIs
<1> QED BY <1>1, <1>2 DEF Stream

-----------------------------------------------------------------------------
(* How a stream ends.                                                       *)

\* The terminal event of a stream was sent: by an agent that answered, by the
\* command whose agent failed, or by the page whose command was rejected.
Over == link = "ended" /\ (result = "ok" \/ invocation \in {"resolved", "settled"})

\* The kind it has.
Closing == IF result = "ok" THEN "done" ELSE "error"

\* Where the parts of a prompt stand together: until its terminal event was sent
\* nothing in the stream ends it and nobody takes it for finished, and from then
\* on the stream ends with that event, until the screen has taken it.
Ended ==
  /\ isStreaming <=> gen # "off"
  /\ isStreaming => rendered
  /\ gen = "off" => Stream = <<>> /\ Idle /\ invocation # "pending"
  /\ gen # "off" =>
       /\ link # "idle"
       /\ link # "ended" => invocation = "pending"
       /\ link = "ended" => result \in {"ok", "err"} /\ invocation # "none"
       /\ invocation = "rejected" => result = "err" /\ Stream = <<>>
       /\ ~Over => Unended(Stream) /\ ~finished /\ ~timer /\ gen # "closing"
       /\ Over => /\ finished => out = <<>>
                  /\ \/ gen = "closing" /\ Stream = <<>> /\ result = "ok"
                     \/ gen # "closing" /\ ClosedBy(Stream, Closing)

\* An agent at work keeps its stream open.
LEMMA GoesOn ==
  ASSUME Filed, Ended, link \notin {"idle", "ended"}, link' \notin {"idle", "ended"},
         UNCHANGED <<result, engineVars, isStreaming, rendered>>,
         NEW e \in Events, ~Terminal(e), out' = out \/ out' = Append(out, e)
  PROVE  Ended'
<1>1. /\ gen # "off" /\ ~Over /\ ~Over' /\ invocation = "pending"
      /\ Unended(Stream) /\ ~finished /\ ~timer /\ gen # "closing"
      /\ isStreaming /\ rendered
  BY DEF Ended, Over, Idle
<1>2. queue \in Seq(Events) /\ out \in Seq(Events)
  BY DEF Filed, ScreenTyped, BridgeTyped
<1>3. Unended(Stream')
  <2>1. CASE out' = out
    BY <1>1, <2>1 DEF Stream
  <2>2. CASE out' = Append(out, e)
    <3>1. Stream' = Append(Stream, e) /\ Stream \in Seq(Events)
      BY <1>2, <2>2, StreamAppended, StreamIs
    <3> QED BY <1>1, <3>1, AppendedEvent
  <2> QED BY <2>1, <2>2
<1> QED BY <1>1, <1>3 DEF Ended

\* An agent ends its prompt: with Done, or with an error nobody was told yet.
LEMMA AgentEnds ==
  ASSUME Filed, Ended, link \notin {"idle", "ended"}, link' = "ended",
         UNCHANGED <<engineVars, isStreaming, rendered>>,
         \/ result' = "ok" /\ out' = Append(out, EndEvent("done"))
         \/ result' = "err" /\ out' = out
  PROVE  Ended'
<1>1. /\ gen # "off" /\ ~Over /\ invocation = "pending"
      /\ Unended(Stream) /\ ~finished /\ ~timer /\ gen # "closing"
      /\ isStreaming /\ rendered
  BY DEF Ended, Over, Idle
<1>2. queue \in Seq(Events) /\ out \in Seq(Events)
  BY DEF Filed, ScreenTyped, BridgeTyped
<1>3. CASE result' = "ok" /\ out' = Append(out, EndEvent("done"))
  <2>1. EndEvent("done") \in Events /\ Terminal(EndEvent("done")) /\ EndEvent("done").kind = "done"
    BY EventsTyped DEF Terminal, EndEvent
  <2>2. Stream' = Append(Stream, EndEvent("done")) /\ Stream \in Seq(Events)
    BY <1>2, <1>3, <2>1, StreamAppended, StreamIs
  <2>3. ClosedBy(Stream', "done")
    BY <1>1, <2>1, <2>2, AppendedEvent
  <2>4. Over' /\ Closing' = "done"
    BY <1>3 DEF Over, Closing
  <2> QED BY <1>1, <1>3, <2>3, <2>4 DEF Ended
<1>4. CASE result' = "err" /\ out' = out
  <2>1. Stream' = Stream /\ ~Over'
    BY <1>1, <1>4 DEF Stream, Over
  <2> QED BY <1>1, <1>4, <2>1 DEF Ended
<1> QED BY <1>3, <1>4

\* What an agent does while it works.
LEMMA AgentActs ==
  ASSUME Filed, AgentNext
  PROVE  \/ /\ link \notin {"idle", "ended"} /\ link' \notin {"idle", "ended"}
            /\ result' = result
            /\ \E e \in Events : ~Terminal(e) /\ (out' = out \/ out' = Append(out, e))
         \/ /\ link \notin {"idle", "ended"} /\ link' = "ended"
            /\ \/ result' = "ok" /\ out' = Append(out, EndEvent("done"))
               \/ result' = "err" /\ out' = out
<1> USE DEF Filed
<1>0. /\ \A text \in Seq(Letters) : TextEvent(text) \in Events /\ ~Terminal(TextEvent(text))
      /\ \A c \in ToolCalls, title \in Titles \cup {None}, status \in Kept :
           ToolEvent(c, title, status) \in Events /\ ~Terminal(ToolEvent(c, title, status))
  BY EventsTyped DEF TextEvent, ToolEvent, Terminal
<1>1. CASE Connected \/ Answers \/ Fails
  <2>1. <<>> \in Seq(Letters)
    OBVIOUS
  <2>2. TextEvent(<<>>) \in Events /\ ~Terminal(TextEvent(<<>>))
    BY <1>0, <2>1
  <2> QED BY <1>1, <2>2 DEF Connected, Answers, Fails
<1>2. ASSUME NEW chunk \in Seq(Letters), Speaks, Hears(chunk)
      PROVE  /\ link \notin {"idle", "ended"} /\ link' \notin {"idle", "ended"}
             /\ result' = result
             /\ \E e \in Events : ~Terminal(e) /\ (out' = out \/ out' = Append(out, e))
  <2>1. PushChunk(chunk).new \in Seq(Letters)
    BY PushTyped
  <2>2. out' = out \/ out' = Append(out, TextEvent(PushChunk(chunk).new))
    BY <1>2 DEF Hears, Emit
  <2>3. link = "prompting" /\ link' = link /\ result' = result
    BY <1>2 DEF Speaks
  <2> QED BY <1>0, <2>1, <2>2, <2>3
<1>3. CASE \E text \in Texts : SayDelta(text) \/ SaySnapshot(text)
  <2>1. PICK text \in Seq(Letters) : SayDelta(text) \/ SaySnapshot(text)
    BY <1>3, TextsTyped
  <2>2. said \o text \in Seq(Letters)
    BY <2>1 DEF BridgeTyped
  <2> QED BY <1>2, <2>1, <2>2 DEF SayDelta, SaySnapshot
<1>4. CASE SayAgain
  BY <1>2, <1>4 DEF SayAgain, BridgeTyped
<1>5. CASE \E c \in ToolCalls, title \in Titles : Announce(c, title)
  <2>1. PICK c \in ToolCalls, title \in Titles : Announce(c, title)
    BY <1>5
  <2>2. /\ link = "prompting" /\ link' = link /\ result' = result
        /\ out' = Append(out, ToolEvent(c, title, "pending"))
    BY <2>1 DEF Announce, Speaks, Emit
  <2>3. "pending" \in Kept
    BY DEF Kept
  <2> QED BY <1>0, <2>2, <2>3
<1>6. CASE \E c \in ToolCalls, title \in Titles \cup {None}, status \in UpdateStatuses :
             Update(c, title, status)
  <2>1. PICK c \in ToolCalls, title \in Titles \cup {None}, status \in UpdateStatuses :
          Update(c, title, status)
    BY <1>6
  <2> DEFINE shown == IF title = None THEN names[c] ELSE title
  <2>2. shown \in Titles \cup {None} /\ status \in Kept
    BY DEF BridgeTyped, Kept
  <2>3. /\ link = "prompting" /\ link' = link /\ result' = result
        /\ out' = Append(out, ToolEvent(c, shown, status))
    BY <2>1 DEF Update, Speaks, Emit
  <2> HIDE DEF shown
  <2> QED BY <1>0, <2>2, <2>3
<1>7. CASE \E policy \in Policies, options \in OptionLists : AskPermission(policy, options)
  <2>1. <<>> \in Seq(Letters)
    OBVIOUS
  <2>2. TextEvent(<<>>) \in Events /\ ~Terminal(TextEvent(<<>>))
    BY <1>0, <2>1
  <2> QED BY <1>7, <2>2 DEF AskPermission, Speaks
<1> QED BY <1>1, <1>3, <1>4, <1>5, <1>6, <1>7 DEF AgentNext

\* A step of the agent, of a provider's or of its command.
LEMMA BackendEnds ==
  ASSUME Filed, Ended, Backend
  PROVE  Ended'
<1>1. CASE AgentNext /\ UNCHANGED <<engineVars, live, screenVars>>
  <2>1. \/ /\ link \notin {"idle", "ended"} /\ link' \notin {"idle", "ended"}
           /\ result' = result
           /\ \E e \in Events : ~Terminal(e) /\ (out' = out \/ out' = Append(out, e))
        \/ /\ link \notin {"idle", "ended"} /\ link' = "ended"
           /\ \/ result' = "ok" /\ out' = Append(out, EndEvent("done"))
              \/ result' = "err" /\ out' = out
    BY <1>1, AgentActs
  <2>2. CASE /\ link \notin {"idle", "ended"} /\ link' \notin {"idle", "ended"}
             /\ result' = result
             /\ \E e \in Events : ~Terminal(e) /\ (out' = out \/ out' = Append(out, e))
    <3>1. PICK e \in Events : ~Terminal(e) /\ (out' = out \/ out' = Append(out, e))
      BY <2>2
    <3> QED BY <1>1, <2>2, <3>1, GoesOn
  <2>3. CASE /\ link \notin {"idle", "ended"} /\ link' = "ended"
             /\ \/ result' = "ok" /\ out' = Append(out, EndEvent("done"))
                \/ result' = "err" /\ out' = out
    BY <1>1, <2>3, AgentEnds
  <2> QED BY <2>1, <2>2, <2>3
<1>2. CASE (\E text \in Texts : ByokToken(text)) /\ UNCHANGED <<engineVars, live, screenVars>>
  <2>1. PICK text \in Seq(Letters) : ByokToken(text)
    BY <1>2, TextsTyped
  <2>2. TextEvent(text) \in Events /\ ~Terminal(TextEvent(text))
    BY EventsTyped DEF TextEvent, Terminal
  <2>3. /\ link \notin {"idle", "ended"} /\ link' \notin {"idle", "ended"} /\ result' = result
        /\ out' = Append(out, TextEvent(text))
    BY <2>1 DEF ByokToken
  <2> QED BY <1>2, <2>2, <2>3, GoesOn
<1>3. CASE ByokEnds /\ UNCHANGED <<engineVars, live, screenVars>>
  BY <1>3, AgentEnds DEF ByokEnds
<1>4. CASE CommandReturns /\ UNCHANGED <<live, screenVars>>
  <2>1. /\ link = "ended" /\ link' = "ended" /\ invocation = "pending" /\ invocation' = "resolved"
        /\ result' = result /\ UNCHANGED <<timer, queue, finished, gen, isStreaming, rendered>>
        /\ out' = IF result = "err" THEN Append(out, EndEvent("error")) ELSE out
    BY <1>4 DEF CommandReturns
  <2>2. gen # "off" /\ isStreaming /\ rendered /\ result \in {"ok", "err"} /\ Over'
    BY <2>1 DEF Ended, Over
  <2>3. queue \in Seq(Events) /\ out \in Seq(Events)
    BY DEF Filed, ScreenTyped, BridgeTyped
  <2>4. CASE result = "ok"
    <3>1. Over /\ Closing' = Closing /\ Stream' = Stream
      BY <2>1, <2>4 DEF Over, Closing, Stream
    <3>2. /\ finished' => out' = <<>>
          /\ \/ gen' = "closing" /\ Stream' = <<>> /\ result' = "ok"
             \/ gen' # "closing" /\ ClosedBy(Stream', Closing')
      BY <2>1, <2>2, <2>4, <3>1 DEF Ended
    <3> QED BY <2>1, <2>2, <3>2 DEF Ended
  <2>5. CASE result = "err"
    <3>1. ~Over /\ Closing' = "error"
      BY <2>1, <2>5 DEF Over, Closing
    <3>2. Unended(Stream) /\ ~finished /\ gen # "closing"
      BY <2>2, <3>1 DEF Ended
    <3>3. EndEvent("error") \in Events /\ Terminal(EndEvent("error")) /\ EndEvent("error").kind = "error"
      BY EventsTyped DEF Terminal, EndEvent
    <3>4. Stream' = Append(Stream, EndEvent("error")) /\ Stream \in Seq(Events)
      BY <2>1, <2>3, <2>5, <3>3, StreamAppended, StreamIs
    <3>5. ClosedBy(Stream', Closing')
      BY <3>1, <3>2, <3>3, <3>4, AppendedEvent
    <3> QED BY <2>1, <2>2, <3>2, <3>5 DEF Ended
  <2> QED BY <2>2, <2>4, <2>5
<1> QED BY <1>1, <1>2, <1>3, <1>4 DEF Backend

\* An event is delivered.
LEMMA DeliverEnds ==
  ASSUME Filed, Ended, Deliver, UNCHANGED <<isStreaming, rendered>>
  PROVE  Ended'
<1> DEFINE e == StageEvent(Head(out))
<1>1. /\ gen # "off" /\ gen' # "off" /\ out # <<>>
      /\ queue' = Append(queue, e) /\ finished' = (finished \/ Terminal(e))
      /\ out' = Tail(out) /\ UNCHANGED <<link, result, invocation, timer>>
      /\ gen' = "closing" <=> gen = "closing"
  BY DEF Deliver, Wake
<1>2. queue \in Seq(Events) /\ out \in Seq(Events)
  BY DEF Filed, ScreenTyped, BridgeTyped
<1>3. Stream' \in Seq(Events) /\ Stream \in Seq(Events) /\ Alike(Stream, Stream') /\ Stream # <<>>
  BY <1>1, <1>2, StreamDelivered, StreamIs
<1>4. /\ Unended(Stream) => Unended(Stream')
      /\ \A kind : ClosedBy(Stream, kind) => ClosedBy(Stream', kind)
  BY <1>3, AlikeEnd
<1>5. Terminal(e) <=> Terminal(Head(out))
  <2>1. Head(out) \in Events
    BY <1>1, <1>2
  <2> QED BY <2>1 DEF StageEvent, Terminal, Events
<1>6. /\ Head(out) = Stream[Len(queue) + 1] /\ Len(queue) + 1 \in DOMAIN Stream
      /\ Len(Stream) = Len(queue) + Len(out) /\ Len(queue) \in Nat
      /\ Len(out) \in Nat /\ (Tail(out) = <<>> <=> Len(out) = 1)
  <2>1. Len(out) \in Nat /\ Len(out) > 0 /\ Head(out) = out[1] /\ Len(queue) \in Nat
    BY <1>1, <1>2
  <2>2. Stream[Len(queue) + 1] = out[1] /\ Len(Stream) = Len(queue) + Len(out)
    BY <1>2, <2>1, StreamIs
  <2>3. Tail(out) \in Seq(Events) /\ Len(Tail(out)) = Len(out) - 1
    BY <1>1, <1>2
  <2>4. Tail(out) = <<>> <=> Len(Tail(out)) = 0
    BY <2>3, EmptySeq
  <2>5. DOMAIN Stream = 1..Len(Stream)
    BY <1>3
  <2> QED BY <2>1, <2>2, <2>3, <2>4, <2>5
<1> HIDE DEF e
<1>7. Over' <=> Over
  BY <1>1 DEF Over
<1>8. CASE ~Over
  <2>1. Unended(Stream) /\ ~finished /\ ~timer /\ gen # "closing"
    BY <1>1, <1>8 DEF Ended
  <2>2. ~Terminal(e)
    BY <1>5, <1>6, <2>1 DEF Unended
  <2>3. ~finished' /\ ~timer' /\ gen' # "closing" /\ Unended(Stream')
    BY <1>1, <1>4, <2>1, <2>2
  <2>4. invocation # "rejected"
    BY <1>1, <1>3 DEF Ended
  <2> QED BY <1>1, <1>7, <1>8, <2>3, <2>4 DEF Ended
<1>9. CASE Over
  <2>1. gen # "closing" /\ ClosedBy(Stream, Closing) /\ ~finished
    BY <1>1, <1>3, <1>9 DEF Ended
  <2>2. ASSUME Terminal(e) PROVE out' = <<>>
    <3>1. Terminal(Stream[Len(queue) + 1])
      BY <1>5, <1>6, <2>2
    <3>2. Len(queue) + 1 = Len(Stream)
      BY <1>6, <2>1, <3>1 DEF ClosedBy
    <3> QED BY <1>1, <1>6, <3>2
  <2>3. finished' => out' = <<>>
    BY <1>1, <2>1, <2>2
  <2>4. Closing' = Closing
    BY <1>1 DEF Closing
  <2>5. ClosedBy(Stream', Closing') /\ gen' # "closing"
    BY <1>1, <1>4, <2>1, <2>4
  <2>6. invocation # "rejected"
    BY <1>1, <1>3 DEF Ended
  <2> QED BY <1>1, <1>7, <1>9, <2>3, <2>5, <2>6 DEF Ended
<1> QED BY <1>8, <1>9

\* The command's return reaches the page.
LEMMA ReturnEnds ==
  ASSUME Filed, Ended, InvokeResolves \/ TimerFires \/ InvokeRejects,
         UNCHANGED <<isStreaming, rendered>>
  PROVE  Ended'
<1>1. queue \in Seq(Events) /\ out \in Seq(Events)
  BY DEF Filed, ScreenTyped, BridgeTyped
<1>2. CASE InvokeResolves
  <2>1. /\ gen # "off" /\ invocation = "resolved" /\ invocation' = "settled"
        /\ UNCHANGED <<bridgeVars, queue, finished, gen>>
    BY <1>2 DEF InvokeResolves
  <2>2. Over /\ Over' /\ Stream' = Stream /\ Closing' = Closing
    BY <2>1 DEF Ended, Over, Stream, Closing
  <2> QED BY <2>1, <2>2 DEF Ended
<1>3. CASE TimerFires
  <2>1. /\ timer /\ out = <<>> /\ UNCHANGED <<bridgeVars, invocation, queue>>
        /\ gen' = "off" <=> gen = "off"
        /\ gen' = "closing" <=> gen = "closing"
    BY <1>3 DEF TimerFires, Wake
  <2>2. Stream' = Stream /\ (Over' <=> Over) /\ Closing' = Closing
    BY <2>1 DEF Over, Stream, Closing
  <2>3. gen # "off" => Over
    BY <2>1 DEF Ended
  <2> QED BY <2>1, <2>2, <2>3 DEF Ended, Idle
<1>4. CASE InvokeRejects
  <2>1. /\ gen # "off" /\ gen' # "off" /\ invocation = "rejected" /\ invocation' = "settled"
        /\ queue' = Append(queue, EndEvent("error"))
        /\ UNCHANGED <<bridgeVars, timer>>
        /\ gen' = "closing" <=> gen = "closing"
    BY <1>4 DEF InvokeRejects, Wake
  <2>2. result = "err" /\ Stream = <<>> /\ ~Over /\ link = "ended" /\ gen # "closing"
    BY <2>1 DEF Ended, Over
  <2>3. queue = <<>> /\ out = <<>>
    BY <1>1, <2>2, StreamIs
  <2>4. Over' /\ Closing' = "error"
    BY <2>1, <2>2 DEF Over, Closing
  <2>5. EndEvent("error") \in Events /\ Terminal(EndEvent("error")) /\ EndEvent("error").kind = "error"
    BY EventsTyped DEF Terminal, EndEvent
  <2>6. Stream' = Append(<<>>, EndEvent("error"))
    <3>1. Append(<<>>, EndEvent("error")) \o <<>> = Append(<<>>, EndEvent("error"))
      BY <2>5, ConcatEmptySeq, AppendProperties
    <3> QED BY <2>1, <2>3, <3>1 DEF Stream
  <2>7. <<>> \in Seq(Events)
    OBVIOUS
  <2>8. ClosedBy(Stream', Closing')
    BY <2>4, <2>5, <2>6, <2>7, EmptyUnended, AppendedEvent
  <2> QED BY <2>1, <2>2, <2>3, <2>4, <2>8 DEF Ended
<1> QED BY <1>2, <1>3, <1>4

\* The generator goes on, or the screen takes an event.
LEMMA ConsumeEnds ==
  ASSUME Filed, Ended, Pause \/ Consume \/ ConsumeError \/ StoreReply
  PROVE  Ended'
<1>1. queue \in Seq(Events) /\ out \in Seq(Events)
  BY DEF Filed, ScreenTyped, BridgeTyped
<1>2. CASE Pause
  <2>1. /\ gen = "running" /\ queue = <<>> /\ gen' = IF finished THEN "closing" ELSE "asleep"
        /\ UNCHANGED <<bridgeVars, invocation, timer, queue, finished, live, screenVars>>
    BY <1>2 DEF Pause
  <2>2. ~finished
    <3>1. finished => Over /\ out = <<>> /\ ClosedBy(Stream, Closing)
      BY <2>1 DEF Ended
    <3>2. ClosedBy(Stream, Closing) => Stream # <<>>
      BY DEF ClosedBy
    <3> QED BY <1>1, <2>1, <3>1, <3>2, StreamIs
  <2>3. Stream' = Stream /\ (Over' <=> Over) /\ Closing' = Closing
    BY <2>1 DEF Over, Stream, Closing
  <2> QED BY <2>1, <2>2, <2>3 DEF Ended
<1>3. ASSUME Consume PROVE Ended'
  <2>1. /\ gen = "running" /\ queue # <<>> /\ queue' = Tail(queue)
        /\ Head(queue).kind # "error"
        /\ gen' = IF Head(queue).kind = "done" THEN "closing" ELSE gen
        /\ UNCHANGED <<bridgeVars, invocation, timer, finished, screenVars>>
    BY <1>3 DEF Consume
  <2>2. Stream \in Seq(Events) /\ Stream # <<>> /\ Head(Stream) = Head(queue) /\ Stream' = Tail(Stream)
    BY <1>1, <2>1, StreamTaken, StreamIs
  <2>3. (Over' <=> Over) /\ Closing' = Closing
    BY <2>1 DEF Over, Closing
  <2>4. invocation # "rejected"
    BY <2>1, <2>2 DEF Ended
  <2>5. CASE ~Over
    <3>1. Unended(Stream) /\ ~finished /\ ~timer
      BY <2>1, <2>5 DEF Ended
    <3>2. Unended(Stream') /\ ~Terminal(Head(queue))
      BY <2>2, <3>1, TakenEvent
    <3>3. gen' = gen
      BY <2>1, <3>2 DEF Terminal
    <3> QED BY <2>1, <2>3, <2>4, <2>5, <3>1, <3>2, <3>3 DEF Ended
  <2>6. CASE Over
    <3>1. ClosedBy(Stream, Closing) /\ (finished => out = <<>>)
      BY <2>1, <2>6 DEF Ended
    <3>2. Closing \in {"done", "error"}
      BY DEF Closing
    <3>3. CASE Terminal(Head(queue))
      <4>1. Stream' = <<>> /\ Head(queue).kind = Closing
        BY <2>2, <3>1, <3>2, <3>3, TakenEvent
      <4>2. gen' = "closing" /\ result = "ok"
        BY <2>1, <3>3, <4>1 DEF Terminal, Closing
      <4> QED BY <2>1, <2>3, <2>4, <2>6, <3>1, <4>1, <4>2 DEF Ended
    <3>4. CASE ~Terminal(Head(queue))
      <4>1. ClosedBy(Stream', Closing)
        BY <2>2, <3>1, <3>2, <3>4, TakenEvent
      <4>2. gen' = gen
        BY <2>1, <3>4 DEF Terminal
      <4> QED BY <2>1, <2>3, <2>4, <2>6, <3>1, <4>1, <4>2 DEF Ended
    <3> QED BY <3>3, <3>4
  <2> QED BY <2>5, <2>6
<1>4. ASSUME ConsumeError PROVE Ended'
  <2>1. /\ gen = "running" /\ queue # <<>> /\ Head(queue).kind = "error"
        /\ gen' = "off" /\ queue' = <<>> /\ ~isStreaming'
        /\ UNCHANGED <<bridgeVars, invocation, timer, finished, rendered>>
    BY <1>4 DEF ConsumeError, Settle
  <2>2. Stream \in Seq(Events) /\ Stream # <<>> /\ Head(Stream) = Head(queue)
    <3>1. Head(queue \o out) = Head(queue)
      BY <1>1, <2>1
    <3> QED BY <1>1, <2>1, <3>1, StreamIs DEF Stream
  <2>3. Terminal(Head(Stream))
    BY <2>1, <2>2 DEF Terminal
  <2>4. Over
    BY <2>1, <2>2, <2>3, TakenEvent DEF Ended
  <2>5. ClosedBy(Stream, Closing) /\ Closing \in {"done", "error"}
    BY <2>1, <2>4 DEF Ended, Closing
  <2>6. Tail(Stream) = <<>>
    BY <2>2, <2>3, <2>5, TakenEvent
  <2>7. out = <<>> /\ Stream' = <<>>
    <3>1. Tail(Stream) = Tail(queue) \o out
      BY <1>1, <2>1 DEF Stream
    <3>2. Tail(queue) \in Seq(Events)
      BY <1>1, <2>1
    <3>3. out = <<>>
      <4>1. Len(Tail(queue) \o out) = Len(Tail(queue)) + Len(out)
        BY <1>1, <3>2
      <4>2. Len(Tail(queue) \o out) = 0
        <5>1. Tail(queue) \o out = <<>>
          BY <2>6, <3>1
        <5>2. Len(<<>>) = 0
          OBVIOUS
        <5> QED BY <5>1, <5>2
      <4>3. Len(Tail(queue)) \in Nat /\ Len(out) \in Nat
        BY <1>1, <3>2
      <4>4. Len(out) = 0
        BY <4>1, <4>2, <4>3
      <4> QED BY <1>1, <4>4, EmptySeq
    <3>4. <<>> \o <<>> = <<>>
      OBVIOUS
    <3> QED BY <2>1, <3>3, <3>4 DEF Stream
  <2>8. link = "ended" /\ invocation # "pending"
    <3>1. Closing = "error"
      BY <2>1, <2>2, <2>3, <2>5, TakenEvent
    <3>2. result # "ok"
      BY <3>1 DEF Closing
    <3> QED BY <2>4, <3>2 DEF Over
  <2> QED BY <2>1, <2>7, <2>8 DEF Ended, Idle
<1>5. ASSUME StoreReply PROVE Ended'
  <2>1. /\ gen = "closing" /\ invocation = "settled"
        /\ gen' = "off" /\ queue' = <<>> /\ ~isStreaming'
        /\ UNCHANGED <<bridgeVars, invocation, timer, finished, rendered>>
    BY <1>5 DEF StoreReply, Settle
  <2>2. Over /\ Stream = <<>>
    BY <2>1 DEF Ended
  <2>3. Stream' = <<>>
    BY <1>1, <2>1, <2>2, StreamIs DEF Stream
  <2> QED BY <2>1, <2>2, <2>3 DEF Ended, Over, Idle
<1> QED BY <1>2, <1>3, <1>4, <1>5

\* The user sends, looks elsewhere or reloads, and the screen is rendered.
LEMMA UserEnds ==
  ASSUME Filed, Ended,
         (\E provider \in Providers : Send(provider)) \/ Render
           \/ (\E chat \in Chats : Select(chat)) \/ Reload \/ UNCHANGED desktopVars
  PROVE  Ended'
<1>0. <<>> \o <<>> = <<>> /\ Unended(<<>>)
  BY EmptyUnended
<1>1. CASE \E provider \in Providers : Send(provider)
  <2>1. PICK provider \in Providers : Send(provider)
    BY <1>1
  <2>2. provider \in {"cli", "byok", "nokey"} /\ Resolve(provider)
    BY <2>1, DesktopConstantsOK DEF Send
  <2>3. /\ ~timer' /\ queue' = <<>> /\ ~finished' /\ gen' = "running" /\ isStreaming' /\ rendered'
    BY <2>1 DEF Send
  <2>4. /\ out' = <<>>
        /\ \/ link' \in {"connecting", "byok"} /\ invocation' = "pending" /\ result' = "none"
           \/ link' = "ended" /\ invocation' = "rejected" /\ result' = "err"
    BY <2>2 DEF Resolve, ResolveCli, ResolveByok, ResolveNone, PromptAgent, Afresh
  <2>5. Stream' = <<>> /\ ~Over'
    BY <1>0, <2>3, <2>4 DEF Stream, Over
  <2> QED BY <1>0, <2>3, <2>4, <2>5 DEF Ended
<1>2. CASE Render \/ UNCHANGED desktopVars
  <2>1. /\ UNCHANGED <<bridgeVars, engineVars, isStreaming>>
        /\ rendered' = isStreaming \/ rendered' = rendered
    BY <1>2 DEF Render
  <2>2. Stream' = Stream /\ (Over' <=> Over) /\ Closing' = Closing
    BY <2>1 DEF Over, Stream, Closing
  <2> QED BY <2>1, <2>2 DEF Ended, Idle
<1>3. CASE \E chat \in Chats : Select(chat)
  <2>1. UNCHANGED <<bridgeVars, engineVars, isStreaming>> /\ rendered' = isStreaming
    BY <1>3 DEF Select
  <2>2. Stream' = Stream /\ (Over' <=> Over) /\ Closing' = Closing
    BY <2>1 DEF Over, Stream, Closing
  <2> QED BY <2>1, <2>2 DEF Ended, Idle
<1>4. CASE Reload
  <2>1. /\ link' = "idle" /\ out' = <<>> /\ invocation' = "none" /\ gen' = "off"
        /\ queue' = <<>> /\ ~isStreaming'
    BY <1>4 DEF Reload, Settle
  <2>2. Stream' = <<>>
    BY <1>0, <2>1 DEF Stream
  <2> QED BY <2>1, <2>2 DEF Ended, Idle
<1> QED BY <1>1, <1>2, <1>3, <1>4

\* Ended holds together with Filed ...
LEMMA EndedStep == Filed /\ Ended /\ [DesktopNext]_desktopVars => Ended'
<1> SUFFICES ASSUME Filed, Ended, [DesktopNext]_desktopVars PROVE Ended'
  OBVIOUS
<1>1. CASE Backend
  BY <1>1, BackendEnds
<1>2. CASE (Deliver \/ InvokeResolves \/ TimerFires \/ InvokeRejects) /\ UNCHANGED <<live, screenVars>>
  BY <1>2, DeliverEnds, ReturnEnds
<1>3. CASE Pause \/ Consume \/ ConsumeError \/ StoreReply
  BY <1>3, ConsumeEnds
<1>4. CASE (\E provider \in Providers : Send(provider)) \/ Render
             \/ (\E chat \in Chats : Select(chat)) \/ Reload \/ UNCHANGED desktopVars
  BY <1>4, UserEnds
<1> QED BY <1>1, <1>2, <1>3, <1>4 DEF DesktopNext, Engine

\* ... and from the start.
LEMMA EndedInit == DesktopInit => Ended
<1>1. <<>> \o <<>> = <<>>
  OBVIOUS
<1> QED BY <1>1 DEF DesktopInit, BridgeInit, Ended, Stream, Idle

\* Of every prompt the screen is sent one terminal event, nothing behind it, and
\* nothing is left when the generator has seen it, so that it may stop at the
\* first one (tauriEngine.ts:97), however the command's return, its timer and the
\* messages of its channel arrive.
THEOREM StreamsEnd == DesktopSpec => []TerminalLast
<1>1. ASSUME Filed, Ended PROVE TerminalLast
  <2>1. queue \in Seq(Events) /\ out \in Seq(Events)
    BY <1>1 DEF Filed, ScreenTyped, BridgeTyped
  <2>2. CASE gen = "off"
    <3>1. Stream = <<>> /\ DOMAIN Stream = {}
      BY <1>1, <2>2 DEF Ended
    <3> QED BY <2>2, <3>1 DEF TerminalLast, Stream
  <2>3. CASE gen # "off" /\ ~Over
    BY <1>1, <2>3 DEF TerminalLast, Ended, Unended, Stream
  <2>4. CASE gen # "off" /\ Over
    <3>1. \/ gen = "closing" /\ Stream = <<>>
          \/ gen # "closing" /\ ClosedBy(Stream, Closing)
      BY <1>1, <2>4 DEF Ended
    <3>2. CASE gen = "closing" /\ Stream = <<>>
      <4>1. DOMAIN Stream = {}
        BY <3>2
      <4> QED BY <3>2, <4>1 DEF TerminalLast, Stream
    <3>3. CASE gen # "closing" /\ ClosedBy(Stream, Closing)
      BY <3>3 DEF TerminalLast, ClosedBy, Stream
    <3> QED BY <3>1, <3>2, <3>3
  <2> QED BY <2>2, <2>3, <2>4
<1>2. Filed /\ Ended => TerminalLast
  BY <1>1
<1> QED BY FiledInit, FiledStep, EndedInit, EndedStep, <1>2, PTL DEF DesktopSpec

-----------------------------------------------------------------------------
(* What the screen says of a prompt.                                        *)

\* Every message carries the number of a question that was asked.
Numbered ==
  \A chat \in Chats : \A i \in DOMAIN chats[chat].messages :
    chats[chat].messages[i].question <= sends

\* No reply to the last question is filed.
Unanswered ==
  \A chat \in Chats : \A i \in DOMAIN chats[chat].messages :
    chats[chat].messages[i].question = sends => chats[chat].messages[i].role = "user"

\* The status on the screen and the outcome of the prompt; inductive with Ended.
Asked ==
  /\ Numbered
  /\ gen # "off" \/ agentStatus = "error" => Unanswered
  /\ agentStatus = "busy" <=> isStreaming
  /\ agentStatus = "done" => result = "ok"
  /\ agentStatus = "error" => result = "err"

\* A message added to a conversation is the only new one.
LEMMA AddedOnly ==
  ASSUME chats \in [Chats -> LooseChats],
         NEW chat \in Chats, NEW note \in LooseNotes, NEW cards \in LooseCards,
         chats' = [chats EXCEPT ![chat] =
                     [messages |-> Append(chats[chat].messages, note), cards |-> cards]]
  PROVE  \A other \in Chats : \A i \in DOMAIN chats'[other].messages :
           \/ chats'[other].messages[i] = note
           \/ \E j \in DOMAIN chats[other].messages :
                chats'[other].messages[i] = chats[other].messages[j]
<1> SUFFICES ASSUME NEW other \in Chats, NEW i \in DOMAIN chats'[other].messages
             PROVE  \/ chats'[other].messages[i] = note
                    \/ \E j \in DOMAIN chats[other].messages :
                         chats'[other].messages[i] = chats[other].messages[j]
  OBVIOUS
<1>1. CASE other # chat
  BY <1>1
<1>2. CASE other = chat
  <2> DEFINE old == chats[chat].messages
  <2>1. old \in Seq(LooseNotes)
    BY DEF LooseChats
  <2>2. chats'[chat].messages = Append(old, note)
    OBVIOUS
  <2> HIDE DEF old
  <2>3. i \in DOMAIN Append(old, note)
    BY <1>2, <2>2
  <2>4. /\ DOMAIN Append(old, note) = 1..(Len(old) + 1) /\ DOMAIN old = 1..Len(old)
        /\ Len(old) \in Nat /\ Append(old, note)[Len(old) + 1] = note
        /\ \A j \in 1..Len(old) : Append(old, note)[j] = old[j]
    BY <2>1
  <2>5. i = Len(old) + 1 \/ i \in DOMAIN old
    BY <2>3, <2>4
  <2>6. Append(old, note)[i] = note \/ (i \in DOMAIN old /\ Append(old, note)[i] = old[i])
    BY <2>4, <2>5
  <2> QED BY <1>2, <2>2, <2>6 DEF old
<1> QED BY <1>1, <1>2

\* The numbers of questions are numbers.
LEMMA QuestionsTyped ==
  ASSUME ScreenTyped, NEW chat \in Chats, NEW i \in DOMAIN chats[chat].messages
  PROVE  chats[chat].messages[i].question \in Nat
<1>1. chats[chat].messages \in Seq(LooseNotes)
  BY DEF ScreenTyped, LooseChats
<1>2. chats[chat].messages[i] \in LooseNotes
  BY <1>1
<1> QED BY <1>2 DEF LooseNotes

\* A step that files nothing and shows no outcome.
LEMMA AskedKept ==
  ASSUME Asked, UNCHANGED <<chats, sends, result>>,
         gen' # "off" => gen # "off",
         \/ UNCHANGED <<agentStatus, isStreaming>>
         \/ agentStatus' = "idle" /\ isStreaming' = FALSE
  PROVE  Asked'
<1>1. Numbered' /\ (gen' # "off" \/ agentStatus' = "error" => Unanswered')
  BY DEF Asked, Numbered, Unanswered
<1>2. /\ agentStatus' = "busy" <=> isStreaming'
      /\ agentStatus' = "done" => result' = "ok"
      /\ agentStatus' = "error" => result' = "err"
  BY DEF Asked
<1> QED BY <1>1, <1>2 DEF Asked

\* The backend works for a prompt the screen is busy with.
LEMMA BackendAsked ==
  ASSUME Ended, Asked, Backend
  PROVE  Asked'
<1>1. ~Idle \/ invocation = "pending"
  BY DEF Backend, AgentNext, Connected, SayDelta, SaySnapshot, SayAgain, Announce, Update,
         AskPermission, Answers, Fails, Speaks, ByokToken, ByokEnds, CommandReturns, Idle
<1>2. gen # "off" /\ isStreaming /\ agentStatus = "busy"
  BY <1>1 DEF Ended, Asked
<1>3. UNCHANGED <<gen, chats, sends, agentStatus, isStreaming>>
  BY DEF Backend, CommandReturns
<1>4. Numbered' /\ Unanswered'
  BY <1>2, <1>3 DEF Asked, Numbered, Unanswered
<1> QED BY <1>2, <1>3, <1>4 DEF Asked

\* The error the screen shows is the prompt's.
LEMMA ErrorMeant ==
  ASSUME Filed, Ended, ConsumeError
  PROVE  result = "err"
<1>1. queue \in Seq(Events) /\ out \in Seq(Events)
  BY DEF Filed, ScreenTyped, BridgeTyped
<1>2. gen = "running" /\ queue # <<>> /\ Head(queue).kind = "error"
  BY DEF ConsumeError
<1>3. Stream \in Seq(Events) /\ Stream # <<>> /\ Head(Stream) = Head(queue)
  <2>1. Head(queue \o out) = Head(queue)
    BY <1>1, <1>2
  <2> QED BY <1>1, <1>2, <2>1, StreamIs DEF Stream
<1>4. Terminal(Head(Stream))
  BY <1>2, <1>3 DEF Terminal
<1>5. Over
  BY <1>2, <1>3, <1>4, TakenEvent DEF Ended
<1>6. ClosedBy(Stream, Closing) /\ Closing \in {"done", "error"}
  BY <1>2, <1>5 DEF Ended, Closing
<1>7. Closing = "error"
  BY <1>2, <1>3, <1>4, <1>6, TakenEvent
<1> QED BY <1>2, <1>5, <1>7 DEF Over, Closing, Ended

\* The engine and the screen.
LEMMA EngineAsked ==
  ASSUME Filed, Ended, Asked, Engine
  PROVE  Asked'
<1>1. CASE (Deliver \/ InvokeResolves \/ TimerFires \/ InvokeRejects) /\ UNCHANGED <<live, screenVars>>
  <2>1. gen' # "off" => gen # "off"
    BY <1>1 DEF Deliver, InvokeResolves, TimerFires, InvokeRejects, Wake
  <2>2. UNCHANGED result
    BY <1>1 DEF Deliver, InvokeResolves, TimerFires, InvokeRejects
  <2> QED BY <1>1, <2>1, <2>2, AskedKept
<1>2. CASE Pause \/ Consume
  <2>1. gen # "off" /\ UNCHANGED <<bridgeVars, screenVars>>
    BY <1>2 DEF Pause, Consume
  <2> QED BY <2>1, AskedKept
<1>3. CASE ConsumeError
  <2>1. result = "err" /\ UNCHANGED <<chats, sends, result>>
    BY <1>3, ErrorMeant DEF ConsumeError
  <2>2. gen # "off" /\ agentStatus' = "error" /\ isStreaming' = FALSE
    BY <1>3 DEF ConsumeError, Settle
  <2>3. Numbered' /\ Unanswered'
    BY <2>1, <2>2 DEF Asked, Numbered, Unanswered
  <2> QED BY <2>1, <2>2, <2>3 DEF Asked
<1>4. CASE StoreReply
  <2> DEFINE note == Said("agent", sends, live.text)
  <2>0. ScreenTyped
    BY DEF Filed
  <2>1. note \in LooseNotes /\ note.question = sends /\ sends \in Nat
    BY <1>4, <2>0, StoreAdds DEF Said, ScreenTyped
  <2>2. /\ gen = "closing" /\ agentStatus' = "done" /\ isStreaming' = FALSE /\ gen' = "off"
        /\ UNCHANGED <<result, sends>>
    BY <1>4 DEF StoreReply, Settle
  <2>3. result = "ok"
    BY <2>2 DEF Ended
  <2>4. \A other \in Chats : \A i \in DOMAIN chats'[other].messages :
           \/ chats'[other].messages[i] = note
           \/ \E j \in DOMAIN chats[other].messages :
                chats'[other].messages[i] = chats[other].messages[j]
    <3>1. chats \in [Chats -> LooseChats] /\ live.cards \in LooseCards /\ filing \in Chats
          /\ chats' = [chats EXCEPT ![filing] =
                         [messages |-> Append(chats[filing].messages, note), cards |-> live.cards]]
      BY <1>4, <2>0, StoreAdds DEF ScreenTyped
    <3> HIDE DEF note
    <3> QED BY <2>1, <3>1, AddedOnly
  <2> HIDE DEF note
  <2>5. Numbered'
    BY <2>1, <2>2, <2>4 DEF Asked, Numbered
  <2> QED BY <2>2, <2>3, <2>5 DEF Asked
<1> QED BY <1>1, <1>2, <1>3, <1>4 DEF Engine

\* The user.
LEMMA UserAsked ==
  ASSUME Filed, Ended, Asked,
         (\E provider \in Providers : Send(provider)) \/ Render
           \/ (\E chat \in Chats : Select(chat)) \/ Reload \/ UNCHANGED desktopVars
  PROVE  Asked'
<1>1. CASE \E provider \in Providers : Send(provider)
  <2>1. PICK provider \in Providers : Send(provider)
    BY <1>1
  <2> DEFINE note == Said("user", sends + 1, <<>>)
  <2>0. ScreenTyped
    BY DEF Filed
  <2>2. note \in LooseNotes /\ note.question = sends + 1 /\ note.role = "user" /\ sends \in Nat
    BY <2>0, <2>1, SendAdds DEF Said, ScreenTyped
  <2>3. agentStatus' = "busy" /\ isStreaming' = TRUE /\ sends' = sends + 1
    BY <2>1 DEF Send
  <2>4. \A other \in Chats : \A i \in DOMAIN chats'[other].messages :
           \/ chats'[other].messages[i] = note
           \/ \E j \in DOMAIN chats[other].messages :
                chats'[other].messages[i] = chats[other].messages[j]
    <3>1. chats \in [Chats -> LooseChats] /\ chats[active].cards \in LooseCards /\ active \in Chats
          /\ chats' = [chats EXCEPT ![active] =
                         [messages |-> Append(chats[active].messages, note),
                          cards |-> chats[active].cards]]
      BY <2>0, <2>1, SendAdds DEF ScreenTyped
    <3> HIDE DEF note
    <3> QED BY <2>2, <3>1, AddedOnly
  <2> HIDE DEF note
  <2>5. ASSUME NEW other \in Chats, NEW i \in DOMAIN chats'[other].messages
        PROVE  /\ chats'[other].messages[i].question <= sends'
               /\ chats'[other].messages[i].question = sends' =>
                    chats'[other].messages[i].role = "user"
    <3>1. CASE chats'[other].messages[i] = note
      BY <2>2, <2>3, <3>1
    <3>2. CASE \E j \in DOMAIN chats[other].messages :
                 chats'[other].messages[i] = chats[other].messages[j]
      <4>1. PICK j \in DOMAIN chats[other].messages :
              chats'[other].messages[i] = chats[other].messages[j]
        BY <3>2
      <4>2. chats[other].messages[j].question \in Nat /\ chats[other].messages[j].question <= sends
        BY <2>0, QuestionsTyped DEF Asked, Numbered
      <4> QED BY <2>2, <2>3, <4>1, <4>2
    <3> QED BY <2>4, <3>1, <3>2
  <2>6. Numbered' /\ Unanswered'
    BY <2>5 DEF Numbered, Unanswered
  <2> QED BY <2>3, <2>6 DEF Asked
<1>2. CASE Render \/ (\E chat \in Chats : Select(chat)) \/ Reload \/ UNCHANGED desktopVars
  <2>1. UNCHANGED <<chats, sends, result>>
    BY <1>2 DEF Render, Select, Reload
  <2>2. \/ UNCHANGED <<gen, agentStatus, isStreaming>>
        \/ gen' = "off" /\ agentStatus' = "idle" /\ isStreaming' = FALSE
    BY <1>2 DEF Render, Select, Reload, Settle
  <2> QED BY <2>1, <2>2, AskedKept
<1> QED BY <1>1, <1>2

\* Asked holds together with Filed and Ended ...
LEMMA AskedStep == Filed /\ Ended /\ Asked /\ [DesktopNext]_desktopVars => Asked'
BY BackendAsked, EngineAsked, UserAsked DEF DesktopNext

\* ... and from the start.
LEMMA AskedInit == DesktopInit => Asked
BY DEF DesktopInit, BridgeInit, Asked, Numbered

\* The screen says "done" only of a prompt that succeeded and "error" only of one
\* that failed, of which it files nothing, and it is busy exactly while a reply
\* streams, whatever the user does meanwhile (useSend.ts:36-45).
THEOREM OutcomeHolds == DesktopSpec => []OutcomeAgrees
<1>1. Asked => OutcomeAgrees
  BY DEF Asked, OutcomeAgrees, Unanswered
<1> QED BY FiledInit, FiledStep, EndedInit, EndedStep, AskedInit, AskedStep, <1>1,
           PTL DEF DesktopSpec

-----------------------------------------------------------------------------
(* The text of a list of events: TextOf is a recursive function, and what it  *)
(* computes is proved by taking the least prefix where a claim would fail.   *)

\* The texts of the prefixes of a list, as TextOf computes them.
Prefixes(s, m, text) ==
  text = [n \in 0..m |-> IF n = 0 THEN <<>> ELSE text[n - 1] \o s[n].text]

\* They are what the recursion says.
LEMMA PrefixIs ==
  ASSUME NEW s, NEW m \in Nat, NEW text, Prefixes(s, m, text)
  PROVE  /\ text[0] = <<>>
         /\ \A n \in 1..m : text[n] = text[n - 1] \o s[n].text
<1>1. \A n \in 0..m : text[n] = IF n = 0 THEN <<>> ELSE text[n - 1] \o s[n].text
  BY DEF Prefixes
<1>2. 0 \in 0..m /\ \A n \in 1..m : n \in 0..m /\ n # 0
  OBVIOUS
<1> QED BY <1>1, <1>2

\* There are such texts.
LEMMA PrefixesExist ==
  ASSUME NEW s, NEW m \in Nat
  PROVE  \E text : Prefixes(s, m, text)
<1> DEFINE S == {n \in 0..m : \E text : Prefixes(s, n, text)}
<1>1. 0 \in S
  <2>1. Prefixes(s, 0, [n \in 0..0 |-> <<>>])
    BY DEF Prefixes
  <2> QED BY <2>1
<1>2. ASSUME NEW n \in 0..m, n \in S, n < m PROVE n + 1 \in S
  <2>1. PICK text : Prefixes(s, n, text)
    BY <1>2
  <2> DEFINE longer == [k \in 0..(n + 1) |-> IF k = n + 1 THEN text[n] \o s[n + 1].text ELSE text[k]]
  <2>2. text = [k \in 0..n |-> IF k = 0 THEN <<>> ELSE text[k - 1] \o s[k].text]
    BY <2>1 DEF Prefixes
  <2>3. \A k \in 0..(n + 1) : longer[k] = IF k = 0 THEN <<>> ELSE longer[k - 1] \o s[k].text
    <3> SUFFICES ASSUME NEW k \in 0..(n + 1)
                 PROVE  longer[k] = IF k = 0 THEN <<>> ELSE longer[k - 1] \o s[k].text
      OBVIOUS
    <3>1. CASE k = n + 1
      <4>1. longer[k] = text[n] \o s[k].text
        BY <3>1
      <4>2. k # 0 /\ k - 1 \in 0..(n + 1) /\ k - 1 = n /\ k - 1 # n + 1
        BY <3>1
      <4>3. longer[k - 1] = text[n]
        BY <4>2
      <4> QED BY <4>1, <4>2, <4>3
    <3>2. CASE k # n + 1
      <4>1. k \in 0..n /\ longer[k] = text[k]
        BY <3>2
      <4>2. k # 0 => k - 1 \in 0..(n + 1) /\ k - 1 # n + 1
        BY <4>1
      <4>3. k # 0 => longer[k - 1] = text[k - 1]
        BY <4>2
      <4>4. text[k] = IF k = 0 THEN <<>> ELSE text[k - 1] \o s[k].text
        BY <2>2, <4>1
      <4> QED BY <4>1, <4>3, <4>4
    <3> QED BY <3>1, <3>2
  <2>4. DOMAIN longer = 0..(n + 1) /\ longer = [k \in 0..(n + 1) |-> longer[k]]
    OBVIOUS
  <2> HIDE DEF longer
  <2>5. longer = [k \in 0..(n + 1) |-> IF k = 0 THEN <<>> ELSE longer[k - 1] \o s[k].text]
    BY <2>3, <2>4
  <2>6. Prefixes(s, n + 1, longer)
    BY <2>5 DEF Prefixes
  <2>7. n + 1 \in 0..m
    BY <1>2
  <2> QED BY <2>6, <2>7
<1> HIDE DEF S
<1>3. 0..m \subseteq S
  BY <1>1, <1>2, Reached
<1>4. m \in S
  BY <1>3
<1> QED BY <1>4 DEF S

\* TextOf is the last of them.
LEMMA TextIs ==
  ASSUME NEW s \in Seq(Events)
  PROVE  \E text : Prefixes(s, Len(s), text) /\ TextOf(s) = text[Len(s)]
<1> DEFINE text == CHOOSE f : f = [n \in 0..Len(s) |-> IF n = 0 THEN <<>> ELSE f[n - 1] \o s[n].text]
<1>1. Len(s) \in Nat
  OBVIOUS
<1>2. \E f : f = [n \in 0..Len(s) |-> IF n = 0 THEN <<>> ELSE f[n - 1] \o s[n].text]
  BY <1>1, PrefixesExist DEF Prefixes
<1>3. text = [n \in 0..Len(s) |-> IF n = 0 THEN <<>> ELSE text[n - 1] \o s[n].text]
  BY <1>2
<1>4. TextOf(s) = text[Len(s)]
  BY DEF TextOf
<1> HIDE DEF text
<1>5. Prefixes(s, Len(s), text)
  BY <1>3 DEF Prefixes
<1> QED BY <1>4, <1>5

\* Lists that begin alike have the same texts that far.
LEMMA PrefixesAgree ==
  ASSUME NEW s, NEW t, NEW k \in Nat, NEW m \in Nat, NEW n \in Nat, n <= k, n <= m,
         NEW f, Prefixes(s, k, f), NEW g, Prefixes(t, m, g),
         \A i \in 1..n : s[i] = t[i]
  PROVE  f[n] = g[n]
<1> DEFINE S == {i \in 0..n : f[i] = g[i]}
<1>1. /\ f[0] = <<>> /\ g[0] = <<>>
      /\ \A i \in 1..k : f[i] = f[i - 1] \o s[i].text
      /\ \A i \in 1..m : g[i] = g[i - 1] \o t[i].text
  BY PrefixIs
<1>2. 0 \in S
  BY <1>1
<1>3. ASSUME NEW i \in 0..n, i \in S, i < n PROVE i + 1 \in S
  <2>1. i + 1 \in 1..k /\ i + 1 \in 1..m /\ i + 1 \in 1..n /\ (i + 1) - 1 = i /\ i + 1 \in 0..n
    BY <1>3
  <2>2. f[i + 1] = f[i] \o s[i + 1].text /\ g[i + 1] = g[i] \o t[i + 1].text
    BY <1>1, <2>1
  <2> QED BY <1>3, <2>1, <2>2
<1> HIDE DEF S
<1>4. n \in S
  BY <1>2, <1>3, Reached
<1> QED BY <1>4 DEF S

\* The text of an event is text.
LEMMA EventText == \A e \in Events : e.text \in Seq(Letters)
<1>1. <<>> \in Seq(Letters)
  OBVIOUS
<1> QED BY <1>1 DEF Events

\* Every prefix's text is text.
LEMMA PrefixTyped ==
  ASSUME NEW s \in Seq(Events), NEW f, Prefixes(s, Len(s), f), NEW n \in 0..Len(s)
  PROVE  f[n] \in Seq(Letters)
<1> DEFINE S == {i \in 0..Len(s) : f[i] \in Seq(Letters)}
<1>0. Len(s) \in Nat
  OBVIOUS
<1>1. f[0] = <<>> /\ \A i \in 1..Len(s) : f[i] = f[i - 1] \o s[i].text
  BY <1>0, PrefixIs
<1>2. 0 \in S
  <2>1. <<>> \in Seq(Letters) /\ 0 \in 0..Len(s)
    BY <1>0
  <2> QED BY <1>1, <2>1
<1>3. ASSUME NEW i \in 0..Len(s), i \in S, i < Len(s) PROVE i + 1 \in S
  <2>1. i + 1 \in 1..Len(s) /\ (i + 1) - 1 = i /\ i + 1 \in 0..Len(s)
    BY <1>0, <1>3
  <2>2. f[i + 1] = f[i] \o s[i + 1].text
    BY <1>1, <2>1
  <2>3. s[i + 1] \in Events
    BY <2>1
  <2>4. s[i + 1].text \in Seq(Letters)
    BY <2>3, EventText
  <2>5. f[i] \in Seq(Letters)
    BY <1>3
  <2>6. f[i] \o s[i + 1].text \in Seq(Letters)
    BY <2>4, <2>5
  <2> QED BY <2>1, <2>2, <2>6
<1> HIDE DEF S
<1>4. n \in S
  BY <1>0, <1>2, <1>3, Reached
<1> QED BY <1>4 DEF S

\* The text of a list of events is text, and nothing has none.
LEMMA TextTyped ==
  /\ \A s \in Seq(Events) : TextOf(s) \in Seq(Letters)
  /\ TextOf(<<>>) = <<>>
<1>1. ASSUME NEW s \in Seq(Events) PROVE TextOf(s) \in Seq(Letters)
  <2>1. PICK f : Prefixes(s, Len(s), f) /\ TextOf(s) = f[Len(s)]
    BY TextIs
  <2>2. Len(s) \in 0..Len(s)
    OBVIOUS
  <2> QED BY <2>1, <2>2, PrefixTyped
<1>2. <<>> \in Seq(Events) /\ Len(<<>>) = 0
  OBVIOUS
<1>3. PICK f : Prefixes(<<>>, 0, f) /\ TextOf(<<>>) = f[0]
  BY <1>2, TextIs
<1>4. f[0] = <<>>
  BY <1>3, PrefixIs
<1> QED BY <1>1, <1>3, <1>4

\* An event at the end adds its text.
LEMMA TextAppended ==
  ASSUME NEW s \in Seq(Events), NEW e \in Events
  PROVE  TextOf(Append(s, e)) = TextOf(s) \o e.text
<1> DEFINE t == Append(s, e)
<1>1. /\ t \in Seq(Events) /\ Len(t) = Len(s) + 1 /\ t[Len(s) + 1] = e
      /\ \A i \in 1..Len(s) : t[i] = s[i]
      /\ Len(s) \in Nat /\ Len(t) \in Nat
  OBVIOUS
<1> HIDE DEF t
<1>2. PICK f : Prefixes(s, Len(s), f) /\ TextOf(s) = f[Len(s)]
  BY TextIs
<1>3. PICK g : Prefixes(t, Len(t), g) /\ TextOf(t) = g[Len(t)]
  BY <1>1, TextIs
<1>4. f[Len(s)] = g[Len(s)]
  <2>1. \A i \in 1..Len(s) : s[i] = t[i]
    BY <1>1
  <2>2. Len(s) <= Len(s) /\ Len(s) <= Len(t) /\ Len(s) \in Nat /\ Len(t) \in Nat
    BY <1>1
  <2> QED BY <1>2, <1>3, <2>1, <2>2, PrefixesAgree
<1>5. g[Len(t)] = g[Len(t) - 1] \o t[Len(t)].text
  <2>1. Len(t) \in 1..Len(t)
    BY <1>1
  <2>2. \A i \in 1..Len(t) : g[i] = g[i - 1] \o t[i].text
    BY <1>1, <1>3, PrefixIs
  <2> QED BY <2>1, <2>2
<1>6. Len(t) - 1 = Len(s) /\ t[Len(t)] = e
  BY <1>1
<1>7. TextOf(t) = TextOf(s) \o e.text
  BY <1>2, <1>3, <1>4, <1>5, <1>6
<1> QED BY <1>7 DEF t

\* What is said in three parts is said in two.
LEMMA Parts ==
  ASSUME NEW a \in Seq(Letters), NEW b \in Seq(Letters), NEW c \in Seq(Letters)
  PROVE  /\ (a \o b) \o c = a \o (b \o c)
         /\ a \o b \in Seq(Letters)
         /\ a \o <<>> = a /\ <<>> \o a = a
BY ConcatAssociative, ConcatEmptySeq, ConcatProperties

\* The same, without the rest.
LEMMA Regrouped ==
  ASSUME NEW a \in Seq(Letters), NEW b \in Seq(Letters), NEW c \in Seq(Letters)
  PROVE  (a \o b) \o c = a \o (b \o c)
BY ConcatAssociative

\* The first event of a list goes before the text of the others.
LEMMA TextTaken ==
  ASSUME NEW s \in Seq(Events), s # <<>>
  PROVE  TextOf(s) = Head(s).text \o TextOf(Tail(s))
<1> DEFINE t == Tail(s)
           first == s[1].text
<1>1. /\ t \in Seq(Events) /\ Len(t) = Len(s) - 1 /\ Len(s) \in Nat /\ Len(s) > 0
      /\ \A i \in 1..Len(t) : t[i] = s[i + 1]
      /\ Head(s) = s[1] /\ s[1] \in Events
  OBVIOUS
<1> HIDE DEF t
<1>2. first \in Seq(Letters)
  BY <1>1, EventText
<1> HIDE DEF first
<1>3. PICK f : Prefixes(s, Len(s), f) /\ TextOf(s) = f[Len(s)]
  BY TextIs
<1>4. PICK g : Prefixes(t, Len(t), g) /\ TextOf(t) = g[Len(t)]
  BY <1>1, TextIs
<1>5. /\ f[0] = <<>> /\ g[0] = <<>>
      /\ \A i \in 1..Len(s) : f[i] = f[i - 1] \o s[i].text
      /\ \A i \in 1..Len(t) : g[i] = g[i - 1] \o t[i].text
  <2>1. Len(t) \in Nat
    BY <1>1
  <2> QED BY <1>1, <1>3, <1>4, <2>1, PrefixIs
<1> DEFINE S == {i \in 0..Len(t) : f[i + 1] = first \o g[i]}
<1>6. 0 \in S
  <2>1. 1 \in 1..Len(s)
    BY <1>1
  <2>2. f[1] = f[1 - 1] \o s[1].text
    BY <1>5, <2>1
  <2>3. f[0] \o first = first /\ first \o g[0] = first
    BY <1>2, <1>5, Parts
  <2>4. f[0 + 1] = first \o g[0]
    <3>1. 1 - 1 = 0 /\ 0 + 1 = 1 /\ s[1].text = first
      BY DEF first
    <3> QED BY <2>2, <2>3, <3>1
  <2>5. 0 \in 0..Len(t)
    BY <1>1
  <2> QED BY <2>4, <2>5
<1>7. ASSUME NEW i \in 0..Len(t), i \in S, i < Len(t) PROVE i + 1 \in S
  <2>0. i + 1 \in 1..Len(t) /\ (i + 1) + 1 \in 1..Len(s) /\ ((i + 1) + 1) - 1 = i + 1
        /\ (i + 1) - 1 = i /\ i + 1 \in 0..Len(t)
    BY <1>1, <1>7
  <2>1. f[(i + 1) + 1] = f[i + 1] \o s[(i + 1) + 1].text
    BY <1>5, <2>0
  <2>2. g[i + 1] = g[i] \o t[i + 1].text
    BY <1>5, <2>0
  <2>3. t[i + 1] = s[(i + 1) + 1] /\ t[i + 1] \in Events
    BY <1>1, <2>0
  <2>4. f[i + 1] = first \o g[i]
    BY <1>7
  <2>5. g[i] \in Seq(Letters)
    BY <1>1, <1>4, PrefixTyped
  <2>6. t[i + 1].text \in Seq(Letters)
    BY <2>3, EventText
  <2>7. (first \o g[i]) \o t[i + 1].text = first \o (g[i] \o t[i + 1].text)
    <3> DEFINE b == g[i]
               c == t[i + 1].text
    <3>1. b \in Seq(Letters) /\ c \in Seq(Letters)
      BY <2>5, <2>6
    <3> HIDE DEF b, c
    <3>2. (first \o b) \o c = first \o (b \o c)
      BY <1>2, <3>1, Regrouped
    <3> QED BY <3>2 DEF b, c
  <2>8. f[(i + 1) + 1] = first \o g[i + 1]
    BY <2>1, <2>2, <2>3, <2>4, <2>7
  <2> QED BY <2>0, <2>8
<1> HIDE DEF S
<1>8. Len(t) \in Nat /\ Len(t) \in 0..Len(t)
  BY <1>1
<1>9. Len(t) \in S
  BY <1>6, <1>7, <1>8, Reached
<1>10. f[Len(t) + 1] = first \o g[Len(t)] /\ Len(t) + 1 = Len(s)
  BY <1>1, <1>9 DEF S
<1> QED BY <1>1, <1>3, <1>4, <1>10 DEF first, t

-----------------------------------------------------------------------------
(* What is said is shown.                                                   *)

\* The text the screen has or will have, when all that was sent has arrived.
Told == live.text \o TextOf(queue) \o TextOf(out)

\* The bridge's buffer holds what the agent said ...
Buffered == link \in {"connecting", "prompting"} /\ ~blurred => buf = said

\* ... and what it said is on the screen or on its way there.
Arriving == gen # "off" /\ ~blurred => said = Told

\* The texts it is made of.
LEMMA ToldTyped ==
  ASSUME Filed
  PROVE  /\ queue \in Seq(Events) /\ out \in Seq(Events)
         /\ live.text \in Seq(Letters) /\ said \in Seq(Letters) /\ buf \in Seq(Letters)
         /\ TextOf(queue) \in Seq(Letters) /\ TextOf(out) \in Seq(Letters)
<1>1. /\ queue \in Seq(Events) /\ out \in Seq(Events)
      /\ said \in Seq(Letters) /\ buf \in Seq(Letters)
      /\ live \in [text : Seq(Letters), cards : LooseCards]
  BY DEF Filed, BridgeTyped, ScreenTyped
<1>2. live.text \in Seq(Letters)
  BY <1>1
<1> QED BY <1>1, <1>2, TextTyped

\* A chunk with everything so far, and what is new.
LEMMA PushSnapshot ==
  ASSUME NEW text \in Seq(Letters), text # <<>>, buf \in Seq(Letters)
  PROVE  PushChunk(buf \o text) = [buf |-> buf \o text, new |-> text]
<1> DEFINE chunk == buf \o text
<1>1. /\ chunk \in Seq(Letters) /\ Len(chunk) = Len(buf) + Len(text)
      /\ Len(buf) \in Nat /\ Len(text) \in Nat /\ Len(text) > 0
      /\ \A i \in 1..Len(buf) : chunk[i] = buf[i]
      /\ \A i \in 1..Len(text) : chunk[Len(buf) + i] = text[i]
  <2>1. Len(text) # 0
    BY EmptySeq
  <2> QED BY <2>1
<1> HIDE DEF chunk
<1>2. chunk # <<>>
  BY <1>1, EmptySeq
<1>3. SubSeq(chunk, 1, Len(buf)) = buf
  BY <1>1
<1>4. SubSeq(chunk, Len(buf) + 1, Len(chunk)) = text
  <2> DEFINE new == SubSeq(chunk, Len(buf) + 1, Len(chunk))
  <2>1. /\ new \in Seq(Letters) /\ Len(new) = Len(text)
        /\ \A i \in 1..Len(text) : new[i] = chunk[Len(buf) + i]
    BY <1>1
  <2> HIDE DEF new
  <2>2. new = text
    BY <1>1, <2>1, SeqEqual
  <2> QED BY <2>2 DEF new
<1>5. StartsWith(chunk, buf)
  BY <1>1, <1>3 DEF StartsWith
<1>6. PushChunk(chunk) = [buf |-> chunk, new |-> text]
  BY <1>2, <1>4, <1>5 DEF PushChunk
<1> QED BY <1>6 DEF chunk

\* The same once more.
LEMMA PushAgain ==
  ASSUME buf \in Seq(Letters)
  PROVE  PushChunk(buf).buf = buf /\ PushChunk(buf).new = <<>>
<1>1. CASE buf = <<>>
  <2>1. PushChunk(buf) = [buf |-> buf, new |-> <<>>]
    BY <1>1 DEF PushChunk
  <2> QED BY <2>1
<1>2. CASE buf # <<>>
  <2>1. SubSeq(buf, 1, Len(buf)) = buf
    OBVIOUS
  <2>2. SubSeq(buf, Len(buf) + 1, Len(buf)) = <<>>
    <3>1. Len(buf) \in Nat
      OBVIOUS
    <3>2. Len(SubSeq(buf, Len(buf) + 1, Len(buf))) = 0 /\ SubSeq(buf, Len(buf) + 1, Len(buf)) \in Seq(Letters)
      BY <3>1
    <3> QED BY <3>2, EmptySeq
  <2>3. StartsWith(buf, buf)
    BY <2>1 DEF StartsWith
  <2>4. PushChunk(buf) = [buf |-> buf, new |-> <<>>]
    BY <1>2, <2>2, <2>3 DEF PushChunk
  <2> QED BY <2>4
<1> QED BY <1>1, <1>2

\* A delta nobody could take for more than it is.
LEMMA PushDelta ==
  ASSUME NEW text \in Seq(Letters), text # <<>>, buf \in Seq(Letters), ~Ambiguous(text)
  PROVE  PushChunk(text) = [buf |-> buf \o text, new |-> text]
<1>1. CASE buf = <<>>
  <2>1. buf \o text = text
    BY <1>1, Parts
  <2> QED BY <2>1, PushSnapshot
<1>2. CASE buf # <<>>
  <2>1. ~StartsWith(text, buf) /\ ~EndsWith(buf, text)
    BY <1>2 DEF Ambiguous
  <2> QED BY <2>1 DEF PushChunk
<1> QED BY <1>1, <1>2

\* An event given to the sink brings its text to the end.
LEMMA ToldMore ==
  ASSUME Filed, Arriving, NEW e \in Events, out' = Append(out, e), said' = said \o e.text,
         UNCHANGED <<queue, live, gen>>, blurred => blurred'
  PROVE  Arriving'
<1> SUFFICES ASSUME gen # "off", ~blurred PROVE said' = Told'
  BY DEF Arriving
<1> DEFINE l == live.text
           q == TextOf(queue)
           o == TextOf(out)
           n == e.text
<1>1. l \in Seq(Letters) /\ q \in Seq(Letters) /\ o \in Seq(Letters) /\ n \in Seq(Letters)
  BY ToldTyped, EventText
<1>2. TextOf(out') = o \o n
  BY ToldTyped, TextAppended
<1>3. said = l \o q \o o /\ said' = said \o n
  BY DEF Arriving, Told
<1> HIDE DEF l, q, o, n
<1>4. (l \o q \o o) \o n = l \o q \o (o \o n)
  <2>1. l \o q \in Seq(Letters)
    BY <1>1, Parts
  <2> QED BY <1>1, <2>1, Regrouped
<1> QED BY <1>2, <1>3, <1>4 DEF Told, l, q, o, n

\* The events without a text.
LEMMA SilentEvents ==
  /\ \A kind \in {"done", "error"} : EndEvent(kind) \in Events /\ EndEvent(kind).text = <<>>
  /\ \A c \in ToolCalls, title \in Titles \cup {None}, status \in Kept :
       ToolEvent(c, title, status) \in Events /\ ToolEvent(c, title, status).text = <<>>
  /\ \A text \in Seq(Letters) : TextEvent(text) \in Events /\ TextEvent(text).text = text
BY EventsTyped DEF EndEvent, ToolEvent, TextEvent

\* A step that says nothing, and gives the sink at most an event without a text.
LEMMA SilentStep ==
  ASSUME Filed, Arriving, UNCHANGED <<said, queue, live, gen, blurred>>,
         \/ out' = out
         \/ \E e \in Events : e.text = <<>> /\ out' = Append(out, e)
  PROVE  Arriving'
<1>1. CASE out' = out
  BY <1>1 DEF Arriving, Told
<1>2. CASE \E e \in Events : e.text = <<>> /\ out' = Append(out, e)
  <2>1. PICK e \in Events : e.text = <<>> /\ out' = Append(out, e)
    BY <1>2
  <2>2. said' = said \o e.text
    <3>1. said \o <<>> = said
      BY ToldTyped, Parts
    <3> QED BY <2>1, <3>1
  <2> QED BY <2>1, <2>2, ToldMore
<1> QED BY <1>1, <1>2

\* The agent says what comes next, and the bridge finds just that to be new.
LEMMA SaidNext ==
  ASSUME Filed, Buffered, Arriving, NEW chunk, NEW text \in Seq(Letters), text # <<>>,
         Hears(chunk), said' = said \o text, blurred => blurred',
         UNCHANGED <<link, queue, live, gen>>, link = "prompting",
         ~blurred' => PushChunk(chunk) = [buf |-> buf \o text, new |-> text]
  PROVE  Buffered' /\ Arriving'
<1>1. CASE blurred'
  BY <1>1 DEF Buffered, Arriving
<1>2. CASE ~blurred'
  <2>1. buf = said /\ PushChunk(chunk).buf = said \o text /\ PushChunk(chunk).new = text
    BY <1>2 DEF Buffered
  <2>2. buf' = said' /\ out' = Append(out, TextEvent(text))
    BY <2>1 DEF Hears, Emit
  <2>3. Arriving'
    BY <2>2, SilentEvents, ToldMore
  <2> QED BY <2>2, <2>3 DEF Buffered
<1> QED BY <1>1, <1>2

\* The texts of the agent's chunks are not empty.
LEMMA TextsSay == \A text \in Texts : text \in Seq(Letters) /\ text # <<>>
<1> SUFFICES ASSUME NEW n \in 1..2, NEW text \in [1..n -> Letters]
             PROVE  text # <<>>
  BY TextsTyped DEF Texts
<1>1. Len(text) = n
  OBVIOUS
<1>2. Len(<<>>) = 0
  OBVIOUS
<1> QED BY <1>1, <1>2

\* The two together; inductive with Filed.
Spoken == Buffered /\ Arriving

\* A step that ends or starts nothing and moves no text.
LEMMA SpokenKept ==
  ASSUME Spoken, UNCHANGED <<said, buf, blurred, live, queue, out>>,
         link' \in {"connecting", "prompting"} => link \in {"connecting", "prompting"},
         gen' # "off" => gen # "off"
  PROVE  Spoken'
BY DEF Spoken, Buffered, Arriving, Told

\* A step of the agent.
LEMMA AgentSpeaks ==
  ASSUME Filed, Spoken, AgentNext, UNCHANGED <<queue, live, gen>>
  PROVE  Spoken'
<1> USE DEF Spoken
<1>1. CASE Connected \/ Fails
  <2>1. /\ UNCHANGED <<said, buf, blurred, out>>
        /\ link' \in {"connecting", "prompting"} => link \in {"connecting", "prompting"}
    BY <1>1 DEF Connected, Fails
  <2> QED BY <2>1, SpokenKept
<1>2. CASE Answers
  <2>1. EndEvent("done") \in Events /\ EndEvent("done").text = <<>>
    BY SilentEvents
  <2>2. /\ out' = out \/ out' = Append(out, EndEvent("done"))
        /\ UNCHANGED <<said, blurred>> /\ link' = "ended"
    BY <1>2 DEF Answers
  <2> QED BY <2>1, <2>2, SilentStep DEF Buffered
<1>3. CASE \E text \in Texts : SayDelta(text)
  <2>1. PICK text \in Texts : SayDelta(text)
    BY <1>3
  <2>2. text \in Seq(Letters) /\ text # <<>> /\ buf \in Seq(Letters)
    BY TextsSay, ToldTyped
  <2>3. /\ Hears(text) /\ said' = said \o text /\ blurred' = (blurred \/ Ambiguous(text))
        /\ link = "prompting" /\ UNCHANGED link
    BY <2>1 DEF SayDelta, Speaks
  <2>4. ~blurred' => PushChunk(text) = [buf |-> buf \o text, new |-> text]
    BY <2>2, <2>3, PushDelta
  <2>5. blurred => blurred'
    BY <2>3
  <2> QED BY <2>2, <2>3, <2>4, <2>5, SaidNext
<1>4. CASE \E text \in Texts : SaySnapshot(text)
  <2>1. PICK text \in Texts : SaySnapshot(text)
    BY <1>4
  <2>2. text \in Seq(Letters) /\ text # <<>> /\ buf \in Seq(Letters)
    BY TextsSay, ToldTyped
  <2>3. /\ Hears(said \o text) /\ said' = said \o text /\ UNCHANGED blurred
        /\ link = "prompting" /\ UNCHANGED link
    BY <2>1 DEF SaySnapshot, Speaks
  <2>4. ~blurred => buf = said
    BY <2>3 DEF Buffered
  <2>5. ~blurred' => PushChunk(said \o text) = [buf |-> buf \o text, new |-> text]
    BY <2>2, <2>3, <2>4, PushSnapshot
  <2> QED BY <2>2, <2>3, <2>5, SaidNext
<1>5. CASE SayAgain
  <2>1. Hears(said) /\ UNCHANGED <<said, blurred, link>> /\ link = "prompting"
    BY <1>5 DEF SayAgain, Speaks
  <2>2. CASE blurred
    BY <2>1, <2>2 DEF Buffered, Arriving
  <2>3. CASE ~blurred
    <3>1. buf = said /\ buf \in Seq(Letters)
      BY <2>1, <2>3, ToldTyped DEF Buffered
    <3>2. PushChunk(said).buf = said /\ PushChunk(said).new = <<>>
      BY <3>1, PushAgain
    <3>3. buf' = said /\ out' = out
      BY <2>1, <3>2 DEF Hears
    <3> QED BY <2>1, <3>1, <3>3, SpokenKept
  <2> QED BY <2>2, <2>3
<1>6. CASE \E c \in ToolCalls, title \in Titles : Announce(c, title)
  <2>1. PICK c \in ToolCalls, title \in Titles : Announce(c, title)
    BY <1>6
  <2>2. ToolEvent(c, title, "pending") \in Events /\ ToolEvent(c, title, "pending").text = <<>>
    <3>1. "pending" \in Kept
      BY DEF Kept
    <3> QED BY <3>1, SilentEvents
  <2>3. out' = Append(out, ToolEvent(c, title, "pending")) /\ UNCHANGED <<said, buf, blurred, link>>
    BY <2>1 DEF Announce, Emit, Speaks
  <2> QED BY <2>2, <2>3, SilentStep DEF Buffered
<1>7. CASE \E c \in ToolCalls, title \in Titles \cup {None}, status \in UpdateStatuses :
             Update(c, title, status)
  <2>1. PICK c \in ToolCalls, title \in Titles \cup {None}, status \in UpdateStatuses :
          Update(c, title, status)
    BY <1>7
  <2> DEFINE shown == IF title = None THEN names[c] ELSE title
  <2>2. shown \in Titles \cup {None} /\ status \in Kept
    BY DEF Filed, BridgeTyped, Kept
  <2>3. out' = Append(out, ToolEvent(c, shown, status)) /\ UNCHANGED <<said, buf, blurred, link>>
    BY <2>1 DEF Update, Emit, Speaks
  <2> HIDE DEF shown
  <2>4. ToolEvent(c, shown, status) \in Events /\ ToolEvent(c, shown, status).text = <<>>
    BY <2>2, SilentEvents
  <2> QED BY <2>3, <2>4, SilentStep DEF Buffered
<1>8. CASE \E policy \in Policies, options \in OptionLists : AskPermission(policy, options)
  <2>1. UNCHANGED <<said, buf, blurred, out, link>>
    BY <1>8 DEF AskPermission, Speaks
  <2> QED BY <2>1, SpokenKept
<1> QED BY <1>1, <1>2, <1>3, <1>4, <1>5, <1>6, <1>7, <1>8 DEF AgentNext

\* A step of the backend.
LEMMA BackendSpeaks ==
  ASSUME Filed, Spoken, Backend
  PROVE  Spoken'
<1>1. CASE AgentNext /\ UNCHANGED <<engineVars, live, screenVars>>
  BY <1>1, AgentSpeaks
<1>2. CASE (\E text \in Texts : ByokToken(text)) /\ UNCHANGED <<engineVars, live, screenVars>>
  <2>1. PICK text \in Texts : ByokToken(text)
    BY <1>2
  <2>2. TextEvent(text) \in Events /\ TextEvent(text).text = text
    BY SilentEvents, TextsTyped
  <2>3. /\ out' = Append(out, TextEvent(text)) /\ said' = said \o TextEvent(text).text
        /\ UNCHANGED <<blurred, link>> /\ link = "byok"
    BY <2>1, <2>2 DEF ByokToken
  <2> QED BY <1>2, <2>2, <2>3, ToldMore DEF Spoken, Buffered
<1>3. CASE ByokEnds /\ UNCHANGED <<engineVars, live, screenVars>>
  <2>1. EndEvent("done") \in Events /\ EndEvent("done").text = <<>>
    BY SilentEvents
  <2>2. /\ out' = out \/ out' = Append(out, EndEvent("done"))
        /\ UNCHANGED <<said, blurred>> /\ link' = "ended"
    BY <1>3 DEF ByokEnds
  <2> QED BY <1>3, <2>1, <2>2, SilentStep DEF Spoken, Buffered
<1>4. CASE CommandReturns /\ UNCHANGED <<live, screenVars>>
  <2>1. EndEvent("error") \in Events /\ EndEvent("error").text = <<>>
    BY SilentEvents
  <2>2. /\ out' = out \/ out' = Append(out, EndEvent("error"))
        /\ UNCHANGED <<said, buf, blurred, link, queue, gen>>
    BY <1>4 DEF CommandReturns
  <2> QED BY <1>4, <2>1, <2>2, SilentStep DEF Spoken, Buffered
<1> QED BY <1>1, <1>2, <1>3, <1>4 DEF Backend

\* An event delivered, or yielded to the screen, takes its text along.
LEMMA EventSpeaks ==
  ASSUME Filed, Spoken,
         \/ Deliver /\ UNCHANGED live
         \/ Consume
  PROVE  Spoken'
<1> DEFINE l == live.text
           q == TextOf(queue)
           o == TextOf(out)
<1>1. /\ l \in Seq(Letters) /\ q \in Seq(Letters) /\ o \in Seq(Letters)
      /\ queue \in Seq(Events) /\ out \in Seq(Events)
  BY ToldTyped
<1>2. gen # "off" /\ ~blurred => said = l \o q \o o
  BY DEF Spoken, Arriving, Told
<1>3. CASE Deliver /\ UNCHANGED live
  <2> DEFINE e == StageEvent(Head(out))
             t == TextOf(Tail(out))
  <2>1. /\ gen # "off" /\ out # <<>> /\ queue' = Append(queue, e) /\ out' = Tail(out)
        /\ UNCHANGED <<link, said, buf, blurred, live>>
    BY <1>3 DEF Deliver
  <2>2. Head(out) \in Events /\ Tail(out) \in Seq(Events)
    BY <1>1, <2>1
  <2>3. e \in Events /\ e.text = Head(out).text
    <3>1. e \in Events
      BY <2>2 DEF StageEvent, CardStatus, Events, Kept
    <3> QED BY <2>2, <3>1 DEF StageEvent, Events
  <2>4. TextOf(queue') = q \o e.text /\ o = e.text \o t
    BY <1>1, <2>1, <2>3, TextAppended, TextTaken
  <2>5. e.text \in Seq(Letters) /\ t \in Seq(Letters)
    BY <2>2, <2>3, EventText, TextTyped
  <2>6. TextOf(out') = t
    BY <2>1
  <2> DEFINE n == e.text
  <2> HIDE DEF l, q, o, e, t, n
  <2>7. l \o q \o (n \o t) = l \o (q \o n) \o t
    <3>1. n \in Seq(Letters) /\ t \in Seq(Letters)
      BY <2>5 DEF n
    <3>2. l \o q \in Seq(Letters)
      BY <1>1, Parts
    <3>3. (l \o q) \o (n \o t) = ((l \o q) \o n) \o t
      BY <3>1, <3>2, Regrouped
    <3>4. (l \o q) \o n = l \o (q \o n)
      BY <1>1, <3>1, Regrouped, SMTT(30)
    <3> QED BY <3>3, <3>4
  <2>8. gen # "off" /\ ~blurred => said = l \o (q \o n) \o t
    BY <1>2, <2>4, <2>7 DEF n
  <2>9. Arriving'
    BY <2>1, <2>4, <2>6, <2>8 DEF Arriving, Told, l, n
  <2> QED BY <2>1, <2>9 DEF Spoken, Buffered
<1>4. CASE Consume
  <2> DEFINE e == Head(queue)
             t == TextOf(Tail(queue))
  <2>1. /\ gen # "off" /\ queue # <<>> /\ queue' = Tail(queue) /\ live' = ApplyEvent(e)
        /\ UNCHANGED bridgeVars
    BY <1>4 DEF Consume
  <2>2. e \in Events /\ Tail(queue) \in Seq(Events)
    BY <1>1, <2>1
  <2>3. q = e.text \o t
    BY <1>1, <2>1, TextTaken
  <2>4. e.text \in Seq(Letters) /\ t \in Seq(Letters)
    BY <2>2, EventText, TextTyped
  <2>5. live'.text = l \o e.text
    <3>0. live \in [text : Seq(Letters), cards : LooseCards]
      BY DEF Filed, ScreenTyped
    <3>1. CASE e.kind = "token"
      BY <2>1, <3>0, <3>1 DEF ApplyEvent
    <3>2. CASE e.kind # "token"
      <4>1. e.text = <<>>
        BY <2>2, <3>2 DEF Events
      <4>2. live'.text = l
        BY <2>1, <3>0, <3>2 DEF ApplyEvent
      <4>3. l \o <<>> = l
        BY <1>1, Parts
      <4> QED BY <4>1, <4>2, <4>3
    <3> QED BY <3>1, <3>2
  <2> DEFINE n == e.text
  <2>6. TextOf(queue') = t /\ TextOf(out') = o
    BY <2>1
  <2> HIDE DEF l, q, o, e, t, n
  <2>7. l \o (n \o t) \o o = l \o n \o t \o o
    <3>1. l \in Seq(Letters) /\ n \in Seq(Letters) /\ t \in Seq(Letters)
      BY <1>1, <2>4 DEF n
    <3>2. (l \o n) \o t = l \o (n \o t)
      BY <3>1, Regrouped
    <3> QED BY <3>2
  <2>8. gen # "off" /\ ~blurred => said = l \o n \o t \o o
    BY <1>2, <2>3, <2>7 DEF n
  <2>9. live'.text = l \o n
    BY <2>5 DEF n
  <2>10. Arriving'
    BY <2>1, <2>6, <2>8, <2>9 DEF Arriving, Told
  <2> QED BY <2>1, <2>10 DEF Spoken, Buffered
<1> QED BY <1>3, <1>4

\* The rest of the engine, and the user.
LEMMA ScreenSpeaks ==
  ASSUME Filed, Spoken,
         \/ (InvokeResolves \/ TimerFires \/ InvokeRejects) /\ UNCHANGED live
         \/ Pause \/ ConsumeError \/ StoreReply
         \/ (\E provider \in Providers : Send(provider)) \/ Render
         \/ (\E chat \in Chats : Select(chat)) \/ Reload \/ UNCHANGED desktopVars
  PROVE  Spoken'
<1>1. CASE (InvokeResolves \/ TimerFires) /\ UNCHANGED live
  <2>1. UNCHANGED <<bridgeVars, queue>> /\ (gen' # "off" => gen # "off")
    BY <1>1 DEF InvokeResolves, TimerFires, Wake
  <2> QED BY <1>1, <2>1, SpokenKept
<1>2. CASE InvokeRejects /\ UNCHANGED live
  <2>1. /\ UNCHANGED bridgeVars /\ gen # "off"
        /\ queue' = Append(queue, EndEvent("error"))
    BY <1>2 DEF InvokeRejects
  <2>2. TextOf(queue') = TextOf(queue) \o <<>>
    BY <2>1, ToldTyped, SilentEvents, TextAppended
  <2>3. TextOf(queue') = TextOf(queue)
    BY <2>2, ToldTyped, Parts
  <2>4. Told' = Told
    BY <1>2, <2>1, <2>3 DEF Told
  <2> QED BY <2>1, <2>4 DEF Spoken, Buffered, Arriving
<1>3. CASE Pause
  <2>1. UNCHANGED <<bridgeVars, queue, live>> /\ (gen' # "off" => gen # "off")
    BY <1>3 DEF Pause
  <2> QED BY <2>1, SpokenKept
<1>4. CASE ConsumeError \/ StoreReply
  <2>1. UNCHANGED bridgeVars /\ gen' = "off"
    BY <1>4 DEF ConsumeError, StoreReply, Settle
  <2> QED BY <2>1 DEF Spoken, Buffered, Arriving
<1>5. CASE \E provider \in Providers : Send(provider)
  <2>1. PICK provider \in Providers : Send(provider)
    BY <1>5
  <2>2. provider \in {"cli", "byok", "nokey"} /\ Resolve(provider)
    BY <2>1, DesktopConstantsOK DEF Send
  <2>3. /\ said' = <<>> /\ out' = <<>>
        /\ link' \in {"connecting", "prompting"} => buf' = <<>>
    BY <2>2 DEF Resolve, ResolveCli, ResolveByok, ResolveNone, PromptAgent, Afresh
  <2>4. live' = EmptyLive /\ queue' = <<>>
    BY <2>1 DEF Send
  <2>5. Told' = <<>>
    <3>1. live'.text = <<>>
      BY <2>4 DEF EmptyLive
    <3>2. <<>> \o <<>> = <<>>
      OBVIOUS
    <3> QED BY <2>3, <2>4, <3>1, <3>2, TextTyped DEF Told
  <2> QED BY <2>3, <2>5 DEF Spoken, Buffered, Arriving
<1>6. CASE Render \/ (\E chat \in Chats : Select(chat)) \/ UNCHANGED desktopVars
  <2>1. UNCHANGED <<bridgeVars, queue, live, gen>>
    BY <1>6 DEF Render, Select
  <2> QED BY <2>1, SpokenKept
<1>7. CASE Reload
  <2>1. link' = "idle" /\ gen' = "off"
    BY <1>7 DEF Reload, Settle
  <2> QED BY <2>1 DEF Spoken, Buffered, Arriving
<1> QED BY <1>1, <1>2, <1>3, <1>4, <1>5, <1>6, <1>7

\* Spoken holds together with Filed ...
LEMMA SpokenStep == Filed /\ Spoken /\ [DesktopNext]_desktopVars => Spoken'
<1> SUFFICES ASSUME Filed, Spoken, [DesktopNext]_desktopVars PROVE Spoken'
  OBVIOUS
<1> QED BY BackendSpeaks, EventSpeaks, ScreenSpeaks DEF DesktopNext, Engine

\* ... and from the start.
LEMMA SpokenInit == DesktopInit => Spoken
BY DEF DesktopInit, BridgeInit, Spoken, Buffered, Arriving

-----------------------------------------------------------------------------
(* The cards of the tool calls.                                             *)

\* The call and the title of an event about a tool call, and of every such event
\* of a list.
ToolOf(e) == IF e.kind = "tool" THEN {<<e.call, e.title>>} ELSE {}
ToolsOf(s) == UNION {ToolOf(s[i]) : i \in DOMAIN s}

\* Those on their way to the screen.
Coming == ToolsOf(queue) \cup ToolsOf(out)

\* Events as the bridge gives them and as they are queued, by their statuses.
WithStatus(statuses) == {e \in Events : e.kind = "tool" => e.status \in statuses}
RawStatuses == {"pending"} \cup UpdateStatuses

\* Every title on the screen or on its way there is one the agent gave the call,
\* and a call it spoke of has a card, or one on its way.
Carded ==
  /\ given \in [ToolCalls -> SUBSET (Titles \cup {None})]
  /\ \A c \in ToolCalls : names[c] # None => names[c] \in given[c]
  /\ out \in Seq(WithStatus(RawStatuses))
  /\ queue \in Seq(WithStatus(Statuses))
  /\ \A tool \in Coming : tool[2] \in given[tool[1]]
  /\ live.cards \in [ToolCalls -> Card \cup {None}]
  /\ \A c \in ToolCalls : live.cards[c] # None => live.cards[c].title \in given[c]
  /\ gen # "off" =>
       \A c \in ToolCalls :
         given[c] # {} => live.cards[c] # None \/ \E tool \in Coming : tool[1] = c

\* The tools of a list, an event added at its end or taken from its head.
LEMMA ToolsAppended ==
  ASSUME NEW s \in Seq(Events), NEW e \in Events
  PROVE  ToolsOf(Append(s, e)) = ToolsOf(s) \cup ToolOf(e)
<1> DEFINE t == Append(s, e)
<1>1. /\ DOMAIN t = DOMAIN s \cup {Len(s) + 1} /\ t[Len(s) + 1] = e
      /\ \A i \in DOMAIN s : t[i] = s[i]
  OBVIOUS
<1> HIDE DEF t
<1>2. ToolsOf(t) = ToolsOf(s) \cup ToolOf(e)
  <2>1. ToolsOf(t) \subseteq ToolsOf(s) \cup ToolOf(e)
    BY <1>1 DEF ToolsOf
  <2>2. ToolsOf(s) \subseteq ToolsOf(t)
    BY <1>1 DEF ToolsOf
  <2>3. ToolOf(e) \subseteq ToolsOf(t)
    BY <1>1 DEF ToolsOf
  <2> QED BY <2>1, <2>2, <2>3
<1> QED BY <1>2 DEF t

\* The tools of a list are those of its first event and of the others.
LEMMA ToolsTaken ==
  ASSUME NEW s \in Seq(Events), s # <<>>
  PROVE  ToolsOf(s) = ToolOf(Head(s)) \cup ToolsOf(Tail(s))
<1> DEFINE t == Tail(s)
<1>1. /\ DOMAIN s = 1..Len(s) /\ DOMAIN t = 1..(Len(s) - 1) /\ Len(s) \in Nat /\ Len(s) > 0
      /\ Head(s) = s[1]
      /\ \A i \in 1..(Len(s) - 1) : t[i] = s[i + 1]
  OBVIOUS
<1> HIDE DEF t
<1>2. ToolOf(s[1]) \cup ToolsOf(t) \subseteq ToolsOf(s)
  <2>1. 1 \in DOMAIN s /\ \A i \in DOMAIN t : i + 1 \in DOMAIN s /\ t[i] = s[i + 1]
    BY <1>1
  <2>2. ToolOf(s[1]) \subseteq ToolsOf(s)
    BY <2>1 DEF ToolsOf
  <2>3. ToolsOf(t) \subseteq ToolsOf(s)
    BY <2>1 DEF ToolsOf
  <2> QED BY <2>2, <2>3
<1>3. ToolsOf(s) \subseteq ToolOf(s[1]) \cup ToolsOf(t)
  <2> SUFFICES ASSUME NEW i \in DOMAIN s PROVE ToolOf(s[i]) \subseteq ToolOf(s[1]) \cup ToolsOf(t)
    BY DEF ToolsOf
  <2>1. CASE i = 1
    BY <2>1
  <2>2. CASE i # 1
    <3>1. i - 1 \in DOMAIN t /\ t[i - 1] = s[(i - 1) + 1] /\ (i - 1) + 1 = i
      BY <1>1, <2>2
    <3>2. ToolOf(t[i - 1]) \subseteq ToolsOf(t)
      BY <3>1 DEF ToolsOf
    <3> QED BY <3>1, <3>2
  <2> QED BY <2>1, <2>2
<1> QED BY <1>1, <1>2, <1>3 DEF t

\* Nothing is about no call.
LEMMA NoTools == ToolsOf(<<>>) = {}
BY DEF ToolsOf

\* The tools on their way are calls and titles.
LEMMA ComingTyped ==
  ASSUME Filed
  PROVE  \A tool \in Coming : tool[1] \in ToolCalls /\ tool = <<tool[1], tool[2]>>
<1>1. \A e \in Events : \A tool \in ToolOf(e) : tool[1] \in ToolCalls /\ tool = <<tool[1], tool[2]>>
  BY DEF Events, ToolOf
<1>2. \A s \in Seq(Events) : \A tool \in ToolsOf(s) :
        tool[1] \in ToolCalls /\ tool = <<tool[1], tool[2]>>
  <2> SUFFICES ASSUME NEW s \in Seq(Events), NEW i \in DOMAIN s, NEW tool \in ToolOf(s[i])
               PROVE  tool[1] \in ToolCalls /\ tool = <<tool[1], tool[2]>>
    BY DEF ToolsOf
  <2>1. s[i] \in Events
    OBVIOUS
  <2> QED BY <1>1, <2>1
<1>3. queue \in Seq(Events) /\ out \in Seq(Events)
  BY ToldTyped
<1> QED BY <1>2, <1>3 DEF Coming

\* A step that sends, takes and names nothing.
LEMMA CardedKept ==
  ASSUME Carded, UNCHANGED <<given, names, live, queue, out>>,
         gen' # "off" => gen # "off"
  PROVE  Carded'
BY DEF Carded, Coming

\* An event that is about no tool call.
LEMMA CardedSilent ==
  ASSUME Filed, Carded, UNCHANGED <<given, names, live>>,
         gen' # "off" => gen # "off",
         NEW e \in Events, e.kind # "tool",
         \/ out' = Append(out, e) /\ queue' = queue
         \/ queue' = Append(queue, e) /\ out' = out
  PROVE  Carded'
<1>1. queue \in Seq(Events) /\ out \in Seq(Events)
  BY ToldTyped
<1>2. ToolOf(e) = {} /\ \A statuses : e \in WithStatus(statuses)
  BY DEF ToolOf, WithStatus
<1>3. Coming' = Coming
  BY <1>1, <1>2, ToolsAppended DEF Coming
<1>4. out' \in Seq(WithStatus(RawStatuses)) /\ queue' \in Seq(WithStatus(Statuses))
  <2>1. out \in Seq(WithStatus(RawStatuses)) /\ queue \in Seq(WithStatus(Statuses))
    BY DEF Carded
  <2>2. e \in WithStatus(RawStatuses) /\ e \in WithStatus(Statuses)
    BY <1>2
  <2>3. CASE out' = Append(out, e) /\ queue' = queue
    BY <2>1, <2>2, <2>3
  <2>4. CASE queue' = Append(queue, e) /\ out' = out
    BY <2>1, <2>2, <2>4
  <2> QED BY <2>3, <2>4
<1> QED BY <1>3, <1>4 DEF Carded

\* An event about a call, with a title the agent gave it.
LEMMA CardedTool ==
  ASSUME Filed, Carded, UNCHANGED <<live, queue, gen>>,
         NEW c \in ToolCalls, NEW title \in Titles \cup {None}, NEW status \in RawStatuses,
         NEW more \in SUBSET (Titles \cup {None}), given' = [given EXCEPT ![c] = @ \cup more],
         title \in given'[c],
         \A d \in ToolCalls : names'[d] # None => names'[d] \in given'[d],
         out' = Append(out, ToolEvent(c, title, status))
  PROVE  Carded'
<1> DEFINE e == ToolEvent(c, title, status)
<1>1. queue \in Seq(Events) /\ out \in Seq(Events)
  BY ToldTyped
<1>2. /\ e \in Events /\ e \in WithStatus(RawStatuses)
      /\ ToolOf(e) = {<<c, title>>}
  <2>1. status \in Kept
    BY DEF RawStatuses, Kept
  <2>2. e \in Events
    BY <2>1, SilentEvents
  <2>3. e.kind = "tool" /\ e.call = c /\ e.title = title /\ e.status = status
    BY DEF ToolEvent
  <2> QED BY <2>2, <2>3 DEF ToolOf, WithStatus
<1> HIDE DEF e
<1>3. Coming' = Coming \cup {<<c, title>>}
  BY <1>1, <1>2, ToolsAppended DEF Coming, e
<1>4. given \in [ToolCalls -> SUBSET (Titles \cup {None})]
  BY DEF Carded
<1>5. given' \in [ToolCalls -> SUBSET (Titles \cup {None})] /\ \A d \in ToolCalls : given[d] \subseteq given'[d]
  BY <1>4
<1>5a. \A d \in ToolCalls : d # c => given'[d] = given[d]
  BY <1>4
<1>6. out' \in Seq(WithStatus(RawStatuses))
  <2>1. out \in Seq(WithStatus(RawStatuses))
    BY DEF Carded
  <2>2. out' = Append(out, e)
    BY DEF e
  <2> QED BY <1>2, <2>1, <2>2
<1>7. \A tool \in Coming' : tool[2] \in given'[tool[1]]
  <2> SUFFICES ASSUME NEW tool \in Coming' PROVE tool[2] \in given'[tool[1]]
    OBVIOUS
  <2>1. CASE tool \in Coming
    <3>1. tool[1] \in ToolCalls /\ tool[2] \in given[tool[1]]
      BY <2>1, ComingTyped DEF Carded
    <3> QED BY <1>5, <3>1
  <2>2. CASE tool = <<c, title>>
    BY <2>2
  <2> QED BY <1>3, <2>1, <2>2
<1>8. \A d \in ToolCalls : live.cards[d] # None => live.cards[d].title \in given'[d]
  BY <1>5 DEF Carded
<1>9. gen # "off" =>
        \A d \in ToolCalls :
          given'[d] # {} => live.cards[d] # None \/ \E tool \in Coming' : tool[1] = d
  <2> SUFFICES ASSUME gen # "off", NEW d \in ToolCalls, given'[d] # {}
               PROVE  live.cards[d] # None \/ \E tool \in Coming' : tool[1] = d
    OBVIOUS
  <2>1. CASE d = c
    <3>1. <<c, title>> \in Coming' /\ <<c, title>>[1] = d
      BY <1>3, <2>1
    <3> QED BY <3>1
  <2>2. CASE d # c
    <3>1. live.cards[d] # None \/ \E tool \in Coming : tool[1] = d
      BY <1>5a, <2>2 DEF Carded
    <3> QED BY <1>3, <3>1
  <2> QED BY <2>1, <2>2
<1> QED BY <1>5, <1>6, <1>7, <1>8, <1>9 DEF Carded

\* A tool call is announced or updated.
Tells ==
  \E c \in ToolCalls :
    \/ \E title \in Titles : Announce(c, title)
    \/ \E title \in Titles \cup {None}, status \in UpdateStatuses : Update(c, title, status)

\* Whatever else the backend does says nothing about a tool call.
LEMMA QuietEvents ==
  ASSUME Filed, Backend, ~Tells
  PROVE  /\ UNCHANGED <<given, names, live, queue, gen>>
         /\ out' = out \/ \E e \in Events : e.kind # "tool" /\ out' = Append(out, e)
<1>1. UNCHANGED <<live, queue, gen>>
  BY DEF Backend, CommandReturns
<1>2. ASSUME NEW chunk \in Seq(Letters), Hears(chunk)
      PROVE  /\ UNCHANGED <<given, names>>
             /\ out' = out \/ \E e \in Events : e.kind # "tool" /\ out' = Append(out, e)
  <2> DEFINE new == PushChunk(chunk).new
  <2>1. new \in Seq(Letters)
    BY PushTyped DEF Filed
  <2>2. UNCHANGED <<given, names>> /\ (out' = out \/ out' = Append(out, TextEvent(new)))
    BY <1>2 DEF Hears, Emit
  <2>3. TextEvent(new) \in Events /\ TextEvent(new).kind # "tool"
    BY <2>1, SilentEvents DEF TextEvent
  <2> HIDE DEF new
  <2> QED BY <2>2, <2>3
<1>3. CASE AgentNext
  <2>1. CASE \E text \in Texts : SayDelta(text)
    BY <1>1, <1>2, <2>1, TextsTyped DEF SayDelta
  <2>2. CASE \E text \in Texts : SaySnapshot(text)
    <3>1. PICK text \in Texts : SaySnapshot(text)
      BY <2>2
    <3>2. said \o text \in Seq(Letters)
      BY ToldTyped, TextsTyped
    <3> QED BY <1>1, <1>2, <3>1, <3>2 DEF SaySnapshot
  <2>3. CASE SayAgain
    BY <1>1, <1>2, <2>3, ToldTyped DEF SayAgain
  <2>4. CASE \/ Connected \/ Fails
             \/ \E policy \in Policies, options \in OptionLists : AskPermission(policy, options)
    BY <1>1, <2>4 DEF Connected, Fails, AskPermission
  <2>5. CASE Answers
    <3>1. EndEvent("done") \in Events /\ EndEvent("done").kind # "tool"
      BY SilentEvents DEF EndEvent
    <3> QED BY <1>1, <2>5, <3>1 DEF Answers
  <2> QED BY <1>1, <1>3, <2>1, <2>2, <2>3, <2>4, <2>5 DEF AgentNext, Tells
<1>4. CASE (\E text \in Texts : ByokToken(text)) \/ ByokEnds \/ CommandReturns
  <2>1. \A text \in Texts : TextEvent(text) \in Events /\ TextEvent(text).kind # "tool"
    BY SilentEvents, TextsTyped DEF TextEvent
  <2>2. \A kind \in {"done", "error"} : EndEvent(kind) \in Events /\ EndEvent(kind).kind # "tool"
    BY SilentEvents DEF EndEvent
  <2> QED BY <1>1, <1>4, <2>1, <2>2 DEF ByokToken, ByokEnds, CommandReturns
<1> QED BY <1>3, <1>4 DEF Backend

\* A step of the backend.
LEMMA BackendCards ==
  ASSUME Filed, Carded, Backend
  PROVE  Carded'
<1>1. CASE ~Tells
  BY <1>1, QuietEvents, CardedKept, CardedSilent
<1>2. UNCHANGED <<queue, live, gen>>
  BY DEF Backend, CommandReturns
<1>3. CASE \E c \in ToolCalls, title \in Titles : Announce(c, title)
  <2>1. PICK c \in ToolCalls, title \in Titles : Announce(c, title)
    BY <1>3
  <2>2. /\ given' = [given EXCEPT ![c] = @ \cup {title}] /\ names' = [names EXCEPT ![c] = title]
        /\ out' = Append(out, ToolEvent(c, title, "pending"))
    BY <2>1 DEF Announce, Emit, Speaks
  <2>3. /\ given \in [ToolCalls -> SUBSET (Titles \cup {None})] /\ names \in [ToolCalls -> Titles \cup {None}]
        /\ \A d \in ToolCalls : names[d] # None => names[d] \in given[d]
    BY <2>2 DEF Carded, Filed, BridgeTyped
  <2>4. \A d \in ToolCalls : names'[d] # None => names'[d] \in given'[d]
    BY <2>2, <2>3
  <2>5. /\ title \in given'[c] /\ {title} \in SUBSET (Titles \cup {None})
        /\ "pending" \in RawStatuses
    BY <2>2, <2>3 DEF RawStatuses
  <2> QED BY <1>2, <2>2, <2>4, <2>5, CardedTool
<1>4. CASE \E c \in ToolCalls, title \in Titles \cup {None}, status \in UpdateStatuses :
             Update(c, title, status)
  <2>1. PICK c \in ToolCalls, title \in Titles \cup {None}, status \in UpdateStatuses :
          Update(c, title, status)
    BY <1>4
  <2> DEFINE shown == IF title = None THEN names[c] ELSE title
             more == {title}
  <2>2. /\ given' = [given EXCEPT ![c] = @ \cup more] /\ UNCHANGED names
        /\ out' = Append(out, ToolEvent(c, shown, status))
    BY <2>1 DEF Update, Emit, Speaks
  <2>3. /\ given \in [ToolCalls -> SUBSET (Titles \cup {None})]
        /\ names \in [ToolCalls -> Titles \cup {None}]
        /\ \A d \in ToolCalls : names[d] # None => names[d] \in given[d]
    BY DEF Carded, Filed, BridgeTyped
  <2>4. \A d \in ToolCalls : given[d] \subseteq given'[d]
    BY <2>2, <2>3
  <2>5. \A d \in ToolCalls : names'[d] # None => names'[d] \in given'[d]
    BY <2>2, <2>3, <2>4
  <2>6. more \in SUBSET (Titles \cup {None}) /\ status \in RawStatuses
    BY DEF RawStatuses
  <2>7. shown \in given'[c] /\ shown \in Titles \cup {None}
    <3>1. title \in given'[c]
      BY <2>2, <2>3
    <3> QED BY <2>3, <2>4, <3>1
  <2> HIDE DEF shown, more
  <2> QED BY <1>2, <2>2, <2>5, <2>6, <2>7, CardedTool
<1> QED BY <1>1, <1>3, <1>4 DEF Tells

\* An event delivered keeps its call and title and takes a status of the screen's.
LEMMA DeliverCards ==
  ASSUME Filed, Carded, Deliver, UNCHANGED live
  PROVE  Carded'
<1> DEFINE h == Head(out)
           e == StageEvent(h)
<1>1. queue \in Seq(Events) /\ out \in Seq(Events)
  BY ToldTyped
<1>2. out \in Seq(WithStatus(RawStatuses)) /\ queue \in Seq(WithStatus(Statuses))
  BY DEF Carded
<1>3. /\ gen # "off" /\ gen' # "off" /\ out # <<>> /\ queue' = Append(queue, e) /\ out' = Tail(out)
      /\ UNCHANGED <<given, names>>
  BY DEF Deliver, Wake
<1>4. h \in Events /\ Tail(out) \in Seq(WithStatus(RawStatuses))
  BY <1>1, <1>2, <1>3
<1>5. e \in Events /\ ToolOf(e) = ToolOf(h)
  <2>1. e \in Events
    BY <1>4 DEF StageEvent, CardStatus, Events, Kept
  <2> QED BY <1>4, <2>1 DEF StageEvent, ToolOf, Events
<1>6. e \in WithStatus(Statuses)
  BY <1>4, <1>5 DEF StageEvent, CardStatus, WithStatus, Statuses, Events
<1>7. ToolsOf(queue') = ToolsOf(queue) \cup ToolOf(h) /\ ToolsOf(out) = ToolOf(h) \cup ToolsOf(out')
  <2>1. ToolsOf(out) = ToolOf(h) \cup ToolsOf(Tail(out))
    BY <1>1, <1>3, ToolsTaken
  <2>2. ToolsOf(Append(queue, e)) = ToolsOf(queue) \cup ToolOf(e)
    BY <1>1, <1>5, ToolsAppended
  <2> QED BY <1>3, <1>5, <2>1, <2>2
<1> HIDE DEF e, h
<1>8. Coming' = Coming
  BY <1>7 DEF Coming
<1>9. queue' \in Seq(WithStatus(Statuses)) /\ out' \in Seq(WithStatus(RawStatuses))
  BY <1>2, <1>3, <1>4, <1>6
<1> QED BY <1>3, <1>8, <1>9 DEF Carded

\* An event yielded becomes a card of its call.
LEMMA ConsumeCards ==
  ASSUME Filed, Carded, Consume
  PROVE  Carded'
<1> DEFINE e == Head(queue)
<1>1. queue \in Seq(Events)
  BY ToldTyped
<1>2. queue \in Seq(WithStatus(Statuses))
  BY DEF Carded
<1>3. /\ gen # "off" /\ queue # <<>> /\ queue' = Tail(queue) /\ live' = ApplyEvent(e)
      /\ UNCHANGED bridgeVars
  BY DEF Consume
<1>4. e \in Events /\ e \in WithStatus(Statuses) /\ Tail(queue) \in Seq(WithStatus(Statuses))
  BY <1>1, <1>2, <1>3
<1>5. Coming = ToolOf(e) \cup Coming'
  <2>1. ToolsOf(queue) = ToolOf(e) \cup ToolsOf(Tail(queue))
    BY <1>1, <1>3, ToolsTaken
  <2> QED BY <1>3, <2>1 DEF Coming
<1>6. /\ given \in [ToolCalls -> SUBSET (Titles \cup {None})]
      /\ live.cards \in [ToolCalls -> Card \cup {None}]
      /\ live \in [text : Seq(Letters), cards : LooseCards]
  BY DEF Carded, Filed, ScreenTyped
<1> HIDE DEF e
<1>7. \A tool \in Coming' : tool[2] \in given'[tool[1]]
  BY <1>3, <1>5 DEF Carded
<1>8. CASE e.kind = "tool"
  <2> DEFINE card == [title |-> e.title, status |-> e.status]
             c == e.call
  <2>1. ToolOf(e) = {<<c, e.title>>} /\ c \in ToolCalls
    BY <1>4, <1>8 DEF ToolOf, Events
  <2>2. e.title \in given[c]
    <3>1. <<c, e.title>> \in Coming
      BY <1>5, <2>1
    <3>2. <<c, e.title>>[2] \in given[<<c, e.title>>[1]]
      BY <3>1 DEF Carded
    <3> QED BY <3>2
  <2>3. card \in Card /\ card.title = e.title
    BY <1>4, <1>6, <1>8, <2>1, <2>2 DEF Card, WithStatus
  <2>4. card # None
    BY <2>3, DesktopConstantsOK
  <2>5. live'.cards = [live.cards EXCEPT ![c] = card]
    BY <1>3, <1>6, <1>8 DEF ApplyEvent
  <2> HIDE DEF card, c
  <2>6. /\ live'.cards \in [ToolCalls -> Card \cup {None}]
        /\ live'.cards[c] = card
        /\ \A d \in ToolCalls : d # c => live'.cards[d] = live.cards[d]
    BY <1>6, <2>1, <2>3, <2>5 DEF Card
  <2>7. \A d \in ToolCalls : live'.cards[d] # None => live'.cards[d].title \in given[d]
    BY <2>2, <2>3, <2>6 DEF Carded
  <2>8. \A d \in ToolCalls :
          given[d] # {} => live'.cards[d] # None \/ \E tool \in Coming' : tool[1] = d
    <3> SUFFICES ASSUME NEW d \in ToolCalls, given[d] # {}, d # c
                 PROVE  live.cards[d] # None \/ \E tool \in Coming' : tool[1] = d
      BY <2>4, <2>6
    <3>1. live.cards[d] # None \/ \E tool \in Coming : tool[1] = d
      BY <1>3 DEF Carded
    <3>2. \A tool \in ToolOf(e) : tool[1] # d
      BY <2>1
    <3> QED BY <1>5, <3>1, <3>2
  <2> QED BY <1>3, <1>4, <1>7, <2>6, <2>7, <2>8 DEF Carded
<1>9. CASE e.kind # "tool"
  <2>1. live'.cards = live.cards
    BY <1>3, <1>6, <1>9 DEF ApplyEvent
  <2>2. Coming' = Coming
    BY <1>5, <1>9 DEF ToolOf
  <2> QED BY <1>3, <1>4, <2>1, <2>2 DEF Carded
<1> QED BY <1>8, <1>9

\* The stream is over or its window gone, and nothing is shown of it.
LEMMA SettledCards ==
  ASSUME Carded, UNCHANGED <<given, names>>, queue' = <<>>, live' = EmptyLive,
         out' \in {out, <<>>}, gen' = "off"
  PROVE  Carded'
<1>1. EmptyLive.cards = NoCards /\ \A c \in ToolCalls : NoCards[c] = None
  BY DEF EmptyLive, NoCards
<1>2. NoCards \in [ToolCalls -> Card \cup {None}]
  BY DEF NoCards
<1>3. Coming' \subseteq Coming
  BY NoTools DEF Coming
<1>4. out' \in Seq(WithStatus(RawStatuses)) /\ queue' \in Seq(WithStatus(Statuses))
  <2>1. <<>> \in Seq(WithStatus(RawStatuses)) /\ <<>> \in Seq(WithStatus(Statuses))
    OBVIOUS
  <2> QED BY <2>1 DEF Carded
<1>5. live'.cards = NoCards
  BY <1>1
<1>6. \A tool \in Coming' : tool[2] \in given'[tool[1]]
  BY <1>3 DEF Carded
<1> QED BY <1>1, <1>2, <1>4, <1>5, <1>6 DEF Carded

\* The engine and the screen, and the user.
LEMMA ScreenCards ==
  ASSUME Filed, Carded,
         \/ (InvokeResolves \/ TimerFires \/ InvokeRejects) /\ UNCHANGED live
         \/ Pause \/ ConsumeError \/ StoreReply
         \/ (\E provider \in Providers : Send(provider)) \/ Render
         \/ (\E chat \in Chats : Select(chat)) \/ Reload \/ UNCHANGED desktopVars
  PROVE  Carded'
<1>1. CASE \/ (InvokeResolves \/ TimerFires) /\ UNCHANGED live
           \/ Pause \/ Render \/ (\E chat \in Chats : Select(chat)) \/ UNCHANGED desktopVars
  <2>1. UNCHANGED <<given, names, out, queue, live>> /\ (gen' # "off" => gen # "off")
    BY <1>1 DEF InvokeResolves, TimerFires, Wake, Pause, Render, Select
  <2> QED BY <2>1, CardedKept
<1>2. CASE InvokeRejects /\ UNCHANGED live
  <2>1. /\ UNCHANGED <<given, names, out>> /\ gen # "off"
        /\ queue' = Append(queue, EndEvent("error"))
    BY <1>2 DEF InvokeRejects
  <2>2. EndEvent("error") \in Events /\ EndEvent("error").kind # "tool"
    BY SilentEvents DEF EndEvent
  <2> QED BY <1>2, <2>1, <2>2, CardedSilent
<1>3. CASE ConsumeError \/ StoreReply \/ Reload
  <2>1. /\ UNCHANGED <<given, names>> /\ queue' = <<>> /\ live' = EmptyLive
        /\ out' \in {out, <<>>} /\ gen' = "off"
    BY <1>3 DEF ConsumeError, StoreReply, Reload, Settle
  <2> QED BY <2>1, SettledCards
<1>4. CASE \E provider \in Providers : Send(provider)
  <2>1. PICK provider \in Providers : Send(provider)
    BY <1>4
  <2>2. provider \in {"cli", "byok", "nokey"} /\ Resolve(provider)
    BY <2>1, DesktopConstantsOK DEF Send
  <2>3. /\ given' = [c \in ToolCalls |-> {}] /\ out' = <<>>
        /\ names' = [c \in ToolCalls |-> None]
    BY <2>2 DEF Resolve, ResolveCli, ResolveByok, ResolveNone, PromptAgent, Afresh
  <2>4. live' = EmptyLive /\ queue' = <<>>
    BY <2>1 DEF Send
  <2>5. Coming' = {}
    BY <2>3, <2>4, NoTools DEF Coming
  <2>6. live'.cards = NoCards
    BY <2>4 DEF EmptyLive
  <2>7. given' \in [ToolCalls -> SUBSET (Titles \cup {None})] /\ \A c \in ToolCalls : given'[c] = {} /\ names'[c] = None
    BY <2>3
  <2>8. /\ NoCards \in [ToolCalls -> Card \cup {None}]
        /\ \A c \in ToolCalls : NoCards[c] = None
    BY DEF NoCards
  <2>9. <<>> \in Seq(WithStatus(RawStatuses)) /\ <<>> \in Seq(WithStatus(Statuses))
    OBVIOUS
  <2> QED BY <2>3, <2>4, <2>5, <2>6, <2>7, <2>8, <2>9 DEF Carded
<1> QED BY <1>1, <1>2, <1>3, <1>4

\* Carded holds together with Filed ...
LEMMA CardedStep == Filed /\ Carded /\ [DesktopNext]_desktopVars => Carded'
<1> SUFFICES ASSUME Filed, Carded, [DesktopNext]_desktopVars PROVE Carded'
  OBVIOUS
<1> QED BY BackendCards, DeliverCards, ConsumeCards, ScreenCards DEF DesktopNext, Engine

\* ... and from the start.
LEMMA CardedInit == DesktopInit => Carded
<1> SUFFICES ASSUME DesktopInit PROVE Carded
  OBVIOUS
<1>1. /\ given = [c \in ToolCalls |-> {}] /\ out = <<>> /\ queue = <<>> /\ live = EmptyLive
      /\ names = [c \in ToolCalls |-> None] /\ gen = "off"
  BY DEF DesktopInit, BridgeInit
<1>2. live.cards = NoCards /\ Coming = {}
  BY <1>1, NoTools DEF EmptyLive, Coming
<1>3. <<>> \in Seq(WithStatus(RawStatuses)) /\ <<>> \in Seq(WithStatus(Statuses))
  OBVIOUS
<1>4. /\ NoCards \in [ToolCalls -> Card \cup {None}]
      /\ \A c \in ToolCalls : NoCards[c] = None
  BY DEF NoCards
<1> QED BY <1>1, <1>2, <1>3, <1>4 DEF Carded

-----------------------------------------------------------------------------
(* The titles of announced calls.                                           *)

About(e, c) == e.kind = "tool" /\ e.call = c

\* Where a call has its title from: from the k-th event on its way, or, k being
\* 0, from what its card shows; every later event about it brings one too.
TitledFrom(c, k) ==
  /\ IF k = 0 THEN live.cards[c] # None /\ live.cards[c].title # None
     ELSE About(Stream[k], c) /\ Stream[k].title # None
  /\ \A j \in DOMAIN Stream : j > k /\ About(Stream[j], c) => Stream[j].title # None

\* A call that was announced has one: no update after the announcement is blank,
\* for the bridge fills it in, and those before it arrive before it.
Titled ==
  gen # "off" =>
    \A c \in ToolCalls : names[c] # None => \E k \in 0..Len(Stream) : TitledFrom(c, k)

\* A step that sends, takes and names nothing.
LEMMA TitledKept ==
  ASSUME Titled, UNCHANGED <<names, live, Stream>>, gen' # "off" => gen # "off"
  PROVE  Titled'
BY DEF Titled, TitledFrom

\* An event at the end of the stream: it announces its call, or the call it is
\* about had its title before, and it brings one as well.
LEMMA TitledAppended ==
  ASSUME Titled, UNCHANGED live, gen' # "off" => gen # "off",
         NEW e \in Events, Stream \in Seq(Events), Stream' = Append(Stream, e),
         \A c \in ToolCalls : names'[c] # None =>
           /\ About(e, c) => e.title # None
           /\ names[c] # None \/ About(e, c)
  PROVE  Titled'
<1>1. /\ Len(Stream) \in Nat /\ DOMAIN Stream = 1..Len(Stream)
      /\ Len(Stream') = Len(Stream) + 1 /\ DOMAIN Stream' = 1..(Len(Stream) + 1)
      /\ Stream'[Len(Stream) + 1] = e
      /\ \A i \in 1..Len(Stream) : Stream'[i] = Stream[i]
  OBVIOUS
<1> SUFFICES ASSUME gen' # "off", NEW c \in ToolCalls, names'[c] # None
             PROVE  \E k \in 0..Len(Stream') : TitledFrom(c, k)'
  BY DEF Titled
<1>2. CASE About(e, c)
  <2> DEFINE m == Len(Stream) + 1
  <2>1. m \in 0..Len(Stream') /\ m # 0 /\ Stream'[m] = e /\ e.title # None
    BY <1>1, <1>2
  <2>2. \A j \in DOMAIN Stream' : ~(j > m)
    BY <1>1
  <2> HIDE DEF m
  <2>3. PICK k \in 0..Len(Stream') : k = m
    BY <2>1
  <2>4. TitledFrom(c, k)'
    BY <1>2, <2>1, <2>2, <2>3 DEF TitledFrom
  <2> QED BY <2>4
<1>3. CASE ~About(e, c)
  <2>1. PICK k \in 0..Len(Stream) : TitledFrom(c, k)
    BY <1>3 DEF Titled
  <2>2. k = 0 \/ k \in 1..Len(Stream)
    BY <1>1
  <2>3. TitledFrom(c, k)'
    BY <1>1, <1>3, <2>1, <2>2 DEF TitledFrom
  <2> QED BY <1>1, <2>3
<1> QED BY <1>2, <1>3

\* What the agent does to titles.
LEMMA AgentTitles ==
  ASSUME Filed, Carded, Titled, Backend
  PROVE  Titled'
<1>1. queue \in Seq(Events) /\ out \in Seq(Events) /\ Stream \in Seq(Events)
  BY ToldTyped, StreamIs
<1>2. UNCHANGED <<queue, live, gen>>
  BY DEF Backend, CommandReturns
<1>3. ASSUME NEW e \in Events, out' = Append(out, e),
             \A c \in ToolCalls : names'[c] # None =>
               /\ About(e, c) => e.title # None
               /\ names[c] # None \/ About(e, c)
      PROVE  Titled'
  BY <1>1, <1>2, <1>3, StreamAppended, TitledAppended
<1>4. CASE ~Tells
  <2>1. CASE out' = out
    BY <1>1, <1>2, <1>4, <2>1, QuietEvents, TitledKept DEF Stream
  <2>2. CASE \E e \in Events : e.kind # "tool" /\ out' = Append(out, e)
    BY <1>3, <1>4, <2>2, QuietEvents DEF About
  <2> QED BY <1>4, <2>1, <2>2, QuietEvents
<1>5. ASSUME NEW c \in ToolCalls, NEW title \in Titles, Announce(c, title) PROVE Titled'
  <2> DEFINE e == ToolEvent(c, title, "pending")
  <2>1. e \in Events /\ e.kind = "tool" /\ e.call = c /\ e.title = title
    BY SilentEvents DEF ToolEvent, Kept
  <2>2. out' = Append(out, e) /\ names' = [names EXCEPT ![c] = title]
    BY <1>5 DEF Announce, Emit
  <2>3. names \in [ToolCalls -> Titles \cup {None}] /\ title # None
    BY BridgeConstantsOK DEF Filed, BridgeTyped
  <2> HIDE DEF e
  <2>4. \A d \in ToolCalls : d # c => names'[d] = names[d]
    BY <2>2, <2>3
  <2> QED BY <1>3, <2>1, <2>2, <2>3, <2>4 DEF About
<1>6. ASSUME NEW c \in ToolCalls, NEW title \in Titles \cup {None}, NEW status \in UpdateStatuses,
             Update(c, title, status)
      PROVE  Titled'
  <2> DEFINE shown == IF title = None THEN names[c] ELSE title
             e == ToolEvent(c, shown, status)
  <2>1. shown \in Titles \cup {None} /\ (names[c] # None => shown # None) /\ status \in Kept
    BY DEF Filed, BridgeTyped, Kept
  <2>2. out' = Append(out, e) /\ UNCHANGED names
    BY <1>6 DEF Update, Emit
  <2> HIDE DEF shown
  <2>3. e \in Events /\ e.call = c /\ e.title = shown
    BY <2>1, SilentEvents DEF ToolEvent
  <2> HIDE DEF e
  <2> QED BY <1>3, <2>1, <2>2, <2>3 DEF About
<1> QED BY <1>4, <1>5, <1>6 DEF Tells

\* The page moves the stream along, and the user starts and ends it.
LEMMA ScreenTitles ==
  ASSUME Filed, Ended, Carded, Titled,
         \/ (Deliver \/ InvokeResolves \/ TimerFires \/ InvokeRejects) /\ UNCHANGED live
         \/ Pause \/ ConsumeError \/ StoreReply
         \/ (\E provider \in Providers : Send(provider)) \/ Render
         \/ (\E chat \in Chats : Select(chat)) \/ Reload \/ UNCHANGED desktopVars
  PROVE  Titled'
<1>1. queue \in Seq(Events) /\ out \in Seq(Events) /\ Stream \in Seq(Events)
  BY ToldTyped, StreamIs
<1>2. CASE \/ (InvokeResolves \/ TimerFires) /\ UNCHANGED live
           \/ Pause \/ Render \/ (\E chat \in Chats : Select(chat)) \/ UNCHANGED desktopVars
  <2>1. UNCHANGED <<names, out, queue, live>> /\ (gen' # "off" => gen # "off")
    BY <1>2 DEF InvokeResolves, TimerFires, Wake, Pause, Render, Select
  <2> QED BY <2>1, TitledKept DEF Stream
<1>3. CASE Deliver /\ UNCHANGED live
  <2>1. /\ gen # "off" /\ out # <<>> /\ queue' = Append(queue, StageEvent(Head(out)))
        /\ out' = Tail(out) /\ UNCHANGED names
    BY <1>3 DEF Deliver
  <2>2. /\ Stream' \in Seq(Events) /\ Len(Stream') = Len(Stream)
        /\ \A i \in 1..Len(Stream) :
             /\ Stream'[i].kind = Stream[i].kind /\ Stream'[i].call = Stream[i].call
             /\ Stream'[i].title = Stream[i].title
    BY <1>1, <2>1, StreamDelivered
  <2>3. DOMAIN Stream = 1..Len(Stream) /\ DOMAIN Stream' = 1..Len(Stream)
    BY <1>1, <2>2
  <2> SUFFICES ASSUME NEW c \in ToolCalls, names[c] # None
               PROVE  \E k \in 0..Len(Stream) : TitledFrom(c, k)'
    BY <2>1, <2>2 DEF Titled
  <2>4. PICK k \in 0..Len(Stream) : TitledFrom(c, k)
    BY <2>1 DEF Titled
  <2>5. Len(Stream) \in Nat /\ (k = 0 \/ k \in 1..Len(Stream))
    BY <1>1
  <2>6. \A i \in 1..Len(Stream) : About(Stream'[i], c) <=> About(Stream[i], c)
    BY <2>2 DEF About
  <2>7. TitledFrom(c, k)'
    BY <1>3, <2>2, <2>3, <2>4, <2>5, <2>6 DEF TitledFrom
  <2> QED BY <2>7
<1>4. CASE InvokeRejects /\ UNCHANGED live
  <2> DEFINE e == EndEvent("error")
  <2>1. /\ gen # "off" /\ invocation = "rejected" /\ queue' = Append(queue, e)
        /\ UNCHANGED <<names, out>>
    BY <1>4 DEF InvokeRejects
  <2>2. e \in Events /\ e.kind # "tool"
    BY SilentEvents DEF EndEvent
  <2> HIDE DEF e
  <2>3. Stream = <<>> /\ queue = <<>> /\ out = <<>>
    <3>1. Stream = <<>>
      BY <2>1 DEF Ended
    <3> QED BY <1>1, <3>1, StreamIs
  <2>4. Append(<<>>, e) \o <<>> = Append(<<>>, e)
    OBVIOUS
  <2>5. Stream' = Append(Stream, e)
    BY <2>1, <2>3, <2>4 DEF Stream
  <2> QED BY <1>1, <1>4, <2>1, <2>2, <2>5, TitledAppended DEF About
<1>5. CASE ConsumeError \/ StoreReply \/ Reload
  BY <1>5 DEF ConsumeError, StoreReply, Reload, Settle, Titled
<1>6. CASE \E provider \in Providers : Send(provider)
  <2>1. names' = [c \in ToolCalls |-> None]
    <3>1. PICK provider \in Providers : Send(provider)
      BY <1>6
    <3>2. provider \in {"cli", "byok", "nokey"} /\ Resolve(provider)
      BY <3>1, DesktopConstantsOK DEF Send
    <3> QED BY <3>2 DEF Resolve, ResolveCli, ResolveByok, ResolveNone, PromptAgent, Afresh
  <2> QED BY <2>1 DEF Titled
<1> QED BY <1>2, <1>3, <1>4, <1>5, <1>6

\* The first event of the stream becomes a card.
LEMMA ConsumeTitles ==
  ASSUME Filed, Carded, Titled, Consume
  PROVE  Titled'
<1> DEFINE e == Head(queue)
<1>1. queue \in Seq(Events) /\ out \in Seq(Events) /\ Stream \in Seq(Events)
  BY ToldTyped, StreamIs
<1>2. /\ gen # "off" /\ queue # <<>> /\ queue' = Tail(queue) /\ live' = ApplyEvent(e)
      /\ UNCHANGED bridgeVars
  BY DEF Consume
<1>3. Stream # <<>> /\ Head(Stream) = e /\ Stream' = Tail(Stream)
  BY <1>1, <1>2, StreamTaken
<1>4. /\ Len(Stream) \in Nat /\ Len(Stream) > 0 /\ Stream[1] = e /\ DOMAIN Stream = 1..Len(Stream)
      /\ Len(Stream') = Len(Stream) - 1 /\ DOMAIN Stream' = 1..(Len(Stream) - 1)
      /\ \A i \in 1..(Len(Stream) - 1) : Stream'[i] = Stream[i + 1]
  BY <1>1, <1>3
<1>5. e \in Events
  BY <1>1, <1>2
<1>6. live \in [text : Seq(Letters), cards : LooseCards]
  BY DEF Filed, ScreenTyped
<1> HIDE DEF e
<1> SUFFICES ASSUME NEW c \in ToolCalls, names[c] # None
             PROVE  \E k \in 0..Len(Stream') : TitledFrom(c, k)'
  BY <1>2 DEF Titled
<1>7. PICK k \in 0..Len(Stream) : TitledFrom(c, k)
  BY <1>2 DEF Titled
<1>8. CASE k > 1
  <2>1. PICK m \in 0..Len(Stream') : m + 1 = k
    <3>1. k - 1 \in 0..Len(Stream') /\ (k - 1) + 1 = k
      BY <1>4, <1>8
    <3> QED BY <3>1
  <2>2. m # 0 /\ Stream'[m] = Stream[k]
    BY <1>4, <1>8, <2>1
  <2>3. \A j \in DOMAIN Stream' : j > m => j + 1 \in DOMAIN Stream /\ j + 1 > k /\ Stream'[j] = Stream[j + 1]
    BY <1>4, <2>1
  <2>4. TitledFrom(c, m)'
    BY <1>7, <1>8, <2>2, <2>3 DEF TitledFrom
  <2> QED BY <2>4
<1>9. CASE k \in {0, 1}
  <2>1. \A j \in DOMAIN Stream' : About(Stream'[j], c) => Stream'[j].title # None
    <3> SUFFICES ASSUME NEW j \in DOMAIN Stream', About(Stream'[j], c) PROVE Stream'[j].title # None
      OBVIOUS
    <3>1. j + 1 \in DOMAIN Stream /\ j + 1 > k /\ Stream'[j] = Stream[j + 1]
      BY <1>4, <1>9
    <3> QED BY <1>7, <3>1 DEF TitledFrom
  <2>2. live'.cards[c] # None /\ live'.cards[c].title # None
    <3>1. CASE About(e, c)
      <4> DEFINE card == [title |-> e.title, status |-> e.status]
      <4>1. e.title # None
        BY <1>4, <1>7, <1>9, <3>1 DEF TitledFrom
      <4>2. e \in WithStatus(Statuses)
        BY <1>1, <1>2 DEF Carded, e
      <4>3. card \in Card /\ card.title = e.title
        BY <1>5, <3>1, <4>2 DEF Card, WithStatus, About, Events
      <4>4. card # None
        BY <4>3, DesktopConstantsOK
      <4>5. live'.cards = [live.cards EXCEPT ![c] = card]
        BY <1>2, <1>6, <3>1 DEF ApplyEvent, About
      <4>6. live'.cards[c] = card
        BY <1>6, <4>5 DEF LooseCards
      <4> QED BY <4>1, <4>3, <4>4, <4>6
    <3>2. CASE ~About(e, c)
      <4>1. k = 0
        BY <1>4, <1>7, <1>9, <3>2 DEF TitledFrom
      <4>2. live'.cards[c] = live.cards[c]
        BY <1>2, <1>5, <1>6, <3>2 DEF ApplyEvent, About, LooseCards, Events
      <4> QED BY <1>7, <4>1, <4>2 DEF TitledFrom
    <3> QED BY <3>1, <3>2
  <2>3. 0 \in 0..Len(Stream')
    BY <1>4
  <2>4. TitledFrom(c, 0)'
    BY <2>1, <2>2 DEF TitledFrom
  <2> QED BY <2>3, <2>4
<1> QED BY <1>4, <1>7, <1>8, <1>9

\* Titled holds together with the invariants above ...
LEMMA TitledStep ==
  Filed /\ Ended /\ Carded /\ Titled /\ [DesktopNext]_desktopVars => Titled'
<1> SUFFICES ASSUME Filed, Ended, Carded, Titled, [DesktopNext]_desktopVars PROVE Titled'
  OBVIOUS
<1> QED BY AgentTitles, ScreenTitles, ConsumeTitles DEF DesktopNext, Engine

\* ... and from the start.
LEMMA TitledInit == DesktopInit => Titled
BY DEF DesktopInit, BridgeInit, Titled

\* What it says once no event about the call is on its way.
LEMMA TitledShows ==
  ASSUME Filed, Titled, gen # "off", NEW c \in ToolCalls, names[c] # None
  PROVE  \/ \E i \in DOMAIN queue : queue[i].call = c
         \/ \E i \in DOMAIN out : out[i].call = c
         \/ live.cards[c] # None /\ live.cards[c].title # None
<1>1. queue \in Seq(Events) /\ out \in Seq(Events)
  BY ToldTyped
<1>2. /\ Len(Stream) = Len(queue) + Len(out) /\ Len(queue) \in Nat /\ Len(out) \in Nat
      /\ \A i \in 1..Len(queue) : Stream[i] = queue[i]
      /\ \A i \in 1..Len(out) : Stream[Len(queue) + i] = out[i]
      /\ DOMAIN queue = 1..Len(queue) /\ DOMAIN out = 1..Len(out)
  BY <1>1, StreamIs
<1>3. PICK k \in 0..Len(Stream) : TitledFrom(c, k)
  BY DEF Titled
<1>4. CASE k = 0
  BY <1>3, <1>4 DEF TitledFrom
<1>5. CASE k \in 1..Len(queue)
  BY <1>2, <1>3, <1>5 DEF TitledFrom, About
<1>6. CASE k > Len(queue)
  <2>1. k - Len(queue) \in 1..Len(out) /\ Len(queue) + (k - Len(queue)) = k
    BY <1>2, <1>3, <1>6
  <2>2. out[k - Len(queue)] = Stream[k]
    BY <1>2, <2>1
  <2>3. k # 0
    BY <1>2, <1>6
  <2> QED BY <1>2, <1>3, <2>1, <2>2, <2>3 DEF TitledFrom, About
<1> QED BY <1>2, <1>3, <1>4, <1>5, <1>6

\* While a reply streams, no text is lost, doubled or reordered between the agent
\* and the screen, unless its chunks could not be told from repeats.  A card has a
\* title the agent gave that call, or is blank after an update that left it out;
\* and a call the agent announced has a card with a title, at the latest when the
\* last event about it is applied, although an update may come before the
\* announcement or bring no title (push_chunk; manch-acp lib.rs:304-311).
THEOREM ShownHolds == DesktopSpec => []ShownAsSaid
<1>1. Filed /\ Spoken /\ Carded /\ Titled => ShownAsSaid
  BY TitledShows DEF Spoken, Arriving, Told, Carded, ShownAsSaid
<1> QED BY FiledInit, FiledStep, EndedInit, EndedStep, SpokenInit, SpokenStep, CardedInit, CardedStep,
           TitledInit, TitledStep, <1>1, PTL DEF DesktopSpec

-----------------------------------------------------------------------------
(* What is stored.                                                          *)

\* The screen is done: nothing touches the reply before the next message.
LEMMA DoneStays ==
  ASSUME Ended, Asked, agentStatus = "done", agentStatus' = "done", [DesktopNext]_desktopVars
  PROVE  UNCHANGED <<chats, filing, sends, said, given, blurred>>
<1>1. gen = "off" /\ Idle /\ invocation # "pending"
  BY DEF Asked, Ended
<1>2. CASE Backend
  BY <1>1, <1>2 DEF Backend, AgentNext, Connected, SayDelta, SaySnapshot, SayAgain, Announce,
     Update, AskPermission, Answers, Fails, Speaks, ByokToken, ByokEnds, CommandReturns, Idle
<1>3. CASE Engine
  BY <1>1, <1>3 DEF Engine, Deliver, InvokeResolves, TimerFires, InvokeRejects, Pause, Consume,
     ConsumeError, StoreReply
<1>4. CASE (\E provider \in Providers : Send(provider)) \/ Reload
  BY <1>4 DEF Send, Reload
<1>5. CASE Render \/ (\E chat \in Chats : Select(chat)) \/ UNCHANGED desktopVars
  BY <1>5 DEF Render, Select
<1> QED BY <1>2, <1>3, <1>4, <1>5 DEF DesktopNext

\* The generator has returned: everything that was said has been shown.
LEMMA AllShown ==
  ASSUME Filed, Ended, Spoken, Carded, gen = "closing"
  PROVE  /\ ~blurred => said = live.text
         /\ \A c \in ToolCalls : live.cards[c] = None <=> given[c] = {}
<1>1. Stream = <<>>
  BY DEF Ended
<1>2. queue = <<>> /\ out = <<>>
  BY <1>1, ToldTyped, StreamIs
<1>3. Told = live.text
  <2>1. live.text \o <<>> \o <<>> = live.text
    BY ToldTyped, Parts
  <2> QED BY <1>2, <2>1, TextTyped DEF Told
<1>4. Coming = {}
  BY <1>2, NoTools DEF Coming
<1> QED BY <1>3, <1>4 DEF Spoken, Arriving, Carded

\* A reply that is stored is what was shown.
LEMMA StoreCompletes ==
  ASSUME Filed, Ended, Spoken, Carded, StoreReply
  PROVE  ReplyComplete'
<1> DEFINE note == Said("agent", sends, live.text)
           old == chats[filing].messages
<1>0. ScreenTyped
  BY DEF Filed
<1>1. /\ note \in LooseNotes /\ filing \in Chats /\ chats[filing] \in LooseChats
      /\ chats' = [chats EXCEPT ![filing] =
                     [messages |-> Append(chats[filing].messages, note), cards |-> live.cards]]
      /\ chats \in [Chats -> LooseChats]
  BY <1>0, StoreAdds DEF ScreenTyped
<1>2. gen = "closing" /\ UNCHANGED <<filing, sends, said, given, blurred>>
  BY DEF StoreReply
<1>3. old \in Seq(LooseNotes)
  BY <1>1 DEF LooseChats
<1> HIDE DEF note
<1>4. chats'[filing].messages = Append(old, note) /\ chats'[filing].cards = live.cards
  BY <1>1
<1> HIDE DEF old
<1>5. Append(old, note)[Len(Append(old, note))] = note
  BY <1>1, <1>3, LastAppended
<1>6. ~blurred => note = Said("agent", sends, said)
  BY <1>2, AllShown DEF note
<1>7. \A c \in ToolCalls : live.cards[c] = None <=> given[c] = {}
  BY <1>2, AllShown
<1> QED BY <1>2, <1>4, <1>5, <1>6, <1>7 DEF ReplyComplete, Said

\* A reply that is stored is everything the agent said, cards included, although
\* the command may return before the last events arrive, and it stays what is
\* stored while the user looks elsewhere (tauriEngine.ts:49).
THEOREM ReplyIsComplete == DesktopSpec => []ReplyComplete
<1>1. DesktopInit => ReplyComplete
  BY DEF DesktopInit, ReplyComplete
<1>2. Filed /\ Ended /\ Asked /\ Spoken /\ Carded /\ ReplyComplete /\ [DesktopNext]_desktopVars
        => ReplyComplete'
  <2> SUFFICES ASSUME Filed, Ended, Asked, Spoken, Carded, ReplyComplete, [DesktopNext]_desktopVars,
                      agentStatus' = "done"
               PROVE  ReplyComplete'
    BY DEF ReplyComplete
  <2>1. CASE StoreReply
    BY <2>1, StoreCompletes
  <2>2. CASE ~StoreReply
    <3>1. agentStatus = "done"
      BY <2>2 DEF DesktopNext, Backend, Engine, Pause, Consume, ConsumeError, Send, Render, Select, Reload
    <3>2. UNCHANGED <<agentStatus, chats, filing, sends, said, given, blurred>>
      BY <3>1, DoneStays
    <3> QED BY <3>2 DEF ReplyComplete
  <2> QED BY <2>1, <2>2
<1> QED BY FiledInit, FiledStep, EndedInit, EndedStep, SpokenInit, SpokenStep, CardedInit, CardedStep,
           AskedInit, AskedStep, <1>1, <1>2, PTL DEF DesktopSpec

-----------------------------------------------------------------------------
(* Types.                                                                   *)

\* The parts of TypeOK that Filed and Carded leave open: bounds ...
Counted ==
  /\ sentCount \in 0..MaxMessages
  /\ Len(said) <= MaxText
  /\ sends \in 0..MaxSends
  /\ reloads \in 0..MaxReloads

\* ... what has one of a few values ...
Switched ==
  /\ link \in {"idle", "connecting", "prompting", "byok", "ended"}
  /\ style \in Styles
  /\ result \in {"none", "ok", "err"}
  /\ invocation \in {"none", "pending", "resolved", "rejected", "settled"}
  /\ gen \in {"off", "running", "asleep", "closing"}
  /\ agentStatus \in {"idle", "busy", "done", "error"}

\* ... and what is true or false.
Flagged ==
  /\ emitted \in BOOLEAN
  /\ blurred \in BOOLEAN
  /\ timer \in BOOLEAN
  /\ finished \in BOOLEAN
  /\ isStreaming \in BOOLEAN
  /\ rendered \in BOOLEAN

Small == Counted /\ Switched /\ Flagged

\* What is filed are notes of questions that were sent, and cards.
Stored ==
  \A chat \in Chats :
    /\ \A i \in DOMAIN chats[chat].messages : chats[chat].messages[i] \in Notes
    /\ chats[chat].cards \in Cards

\* A step of the agent.
LEMMA AgentSmall ==
  ASSUME Filed, Small, AgentNext, UNCHANGED <<engineVars, live, screenVars>>
  PROVE  Small'
<1> USE DEF Small, Counted, Switched, Flagged
<1>1. CASE Connected \/ Answers \/ Fails
  BY <1>1 DEF Connected, Answers, Fails
<1>2. CASE \E text \in Texts : SayDelta(text) \/ SaySnapshot(text)
  <2>1. PICK text \in Texts : SayDelta(text) \/ SaySnapshot(text)
    BY <1>2
  <2>2. Len(said \o text) = Len(said) + Len(text)
    BY ToldTyped, TextsTyped, ConcatProperties
  <2>3. /\ said' = said \o text /\ Len(said) + Len(text) <= MaxText
        /\ sentCount < MaxMessages /\ sentCount' = sentCount + 1
        /\ blurred' \in BOOLEAN /\ UNCHANGED <<link, style, result>>
        /\ emitted' = emitted \/ emitted' = TRUE
    BY <2>1 DEF SayDelta, SaySnapshot, Speaks, Hears, Emit
  <2>4. Len(said') <= MaxText
    BY <2>2, <2>3
  <2>5. sentCount' \in 0..MaxMessages
    BY <2>3, BridgeConstantsOK
  <2>6. Counted'
    BY <2>3, <2>4, <2>5
  <2>7. Switched'
    BY <2>3
  <2>8. Flagged'
    BY <2>3, Zenon
  <2> QED BY <2>6, <2>7, <2>8
<1>3. CASE \/ SayAgain
           \/ \E c \in ToolCalls :
                \/ \E title \in Titles : Announce(c, title)
                \/ \E title \in Titles \cup {None}, status \in UpdateStatuses :
                     Update(c, title, status)
           \/ \E policy \in Policies, options \in OptionLists : AskPermission(policy, options)
  <2>1. /\ sentCount < MaxMessages /\ sentCount' = sentCount + 1
        /\ UNCHANGED <<link, style, result, said, blurred>>
        /\ emitted' = emitted \/ emitted' = TRUE
    BY <1>3 DEF SayAgain, Announce, Update, AskPermission, Speaks, Hears, Emit
  <2>2. sentCount' \in 0..MaxMessages
    BY <2>1, BridgeConstantsOK
  <2>3. Counted'
    BY <1>3, <2>1, <2>2
  <2>4. Switched'
    BY <1>3, <2>1
  <2>5. Flagged'
    BY <1>3, <2>1, Zenon
  <2> QED BY <2>3, <2>4, <2>5
<1> QED BY <1>1, <1>2, <1>3 DEF AgentNext

\* A step of a BYOK agent, the command or the engine.
LEMMA EngineSmall ==
  ASSUME Filed, Small,
         \/ ((\E text \in Texts : ByokToken(text)) \/ ByokEnds)
              /\ UNCHANGED <<engineVars, live, screenVars>>
         \/ CommandReturns /\ UNCHANGED <<live, screenVars>>
         \/ Engine
  PROVE  Small'
<1> USE DEF Small, Counted, Switched, Flagged
<1>1. CASE (\E text \in Texts : ByokToken(text)) /\ UNCHANGED <<engineVars, live, screenVars>>
  <2>1. PICK text \in Texts : ByokToken(text)
    BY <1>1
  <2>2. Len(said \o text) = Len(said) + Len(text)
    BY ToldTyped, TextsTyped, ConcatProperties
  <2>3. /\ said' = said \o text /\ Len(said) + Len(text) <= MaxText
        /\ sentCount < MaxMessages /\ sentCount' = sentCount + 1
        /\ UNCHANGED <<link, style, result, emitted, blurred>>
    BY <2>1 DEF ByokToken
  <2>4. Len(said') <= MaxText
    BY <2>2, <2>3
  <2>5. sentCount' \in 0..MaxMessages
    BY <2>3, BridgeConstantsOK
  <2> QED BY <1>1, <2>3, <2>4, <2>5
<1>2. CASE \/ ByokEnds /\ UNCHANGED <<engineVars, live, screenVars>>
           \/ CommandReturns /\ UNCHANGED <<live, screenVars>>
  BY <1>2 DEF ByokEnds, CommandReturns
<1>3. CASE (Deliver \/ InvokeResolves \/ TimerFires \/ InvokeRejects) /\ UNCHANGED <<live, screenVars>>
  <2>1. /\ UNCHANGED <<link, agentVars, result, blurred, emitted>>
        /\ invocation' \in {invocation, "settled"}
        /\ timer' \in {timer, TRUE, FALSE}
        /\ finished' \in BOOLEAN
        /\ gen' \in {gen, "running"}
    BY <1>3 DEF Deliver, InvokeResolves, TimerFires, InvokeRejects, Wake, Terminal
  <2>2. Counted'
    BY <1>3, <2>1
  <2>3. Switched'
    BY <1>3, <2>1
  <2>4. Flagged'
    BY <1>3, <2>1, Zenon
  <2> QED BY <2>2, <2>3, <2>4
<1>4. CASE Pause \/ Consume \/ ConsumeError \/ StoreReply
  <2>1. /\ UNCHANGED <<bridgeVars, invocation, timer, finished, rendered, sends, reloads>>
        /\ isStreaming' \in {isStreaming, FALSE}
        /\ gen' \in {gen, "asleep", "closing", "off"}
        /\ agentStatus' \in {agentStatus, "done", "error"}
    BY <1>4 DEF Pause, Consume, ConsumeError, StoreReply, Settle
  <2>2. Counted'
    BY <2>1
  <2>3. Switched'
    BY <2>1
  <2>4. Flagged'
    BY <2>1, Zenon
  <2> QED BY <2>2, <2>3, <2>4
<1> QED BY <1>1, <1>2, <1>3, <1>4 DEF Engine

\* The user.
LEMMA UserSmall ==
  ASSUME Filed, Small,
         (\E provider \in Providers : Send(provider)) \/ Render
           \/ (\E chat \in Chats : Select(chat)) \/ Reload \/ UNCHANGED desktopVars
  PROVE  Small'
<1> USE DEF Small, Counted, Switched, Flagged
<1>1. CASE \E provider \in Providers : Send(provider)
  <2>1. PICK provider \in Providers : Send(provider)
    BY <1>1
  <2>2. provider \in {"cli", "byok", "nokey"} /\ Resolve(provider)
    BY <2>1, DesktopConstantsOK DEF Send
  <2>3. /\ link' \in {"connecting", "byok", "ended"} /\ style' \in Styles
        /\ said' = <<>> /\ result' \in {"none", "err"} /\ blurred' = FALSE
        /\ emitted' \in {emitted, FALSE} /\ UNCHANGED sentCount
        /\ invocation' \in {"pending", "rejected"}
    BY <2>2 DEF Resolve, ResolveCli, ResolveByok, ResolveNone, PromptAgent, Afresh
  <2>4. /\ timer' = FALSE /\ finished' = FALSE /\ gen' = "running" /\ isStreaming' = TRUE
        /\ rendered' = TRUE /\ agentStatus' = "busy" /\ sends < MaxSends /\ sends' = sends + 1
        /\ UNCHANGED reloads
    BY <2>1 DEF Send
  <2>5. Len(said') <= MaxText
    <3>1. Len(<<>>) = 0 /\ MaxText \in Nat
      BY BridgeConstantsOK
    <3> QED BY <2>3, <3>1
  <2>6. sends' \in 0..MaxSends
    BY <2>4, DesktopConstantsOK
  <2> QED BY <2>3, <2>4, <2>5, <2>6
<1>2. CASE Render \/ (\E chat \in Chats : Select(chat)) \/ UNCHANGED desktopVars
  <2>1. /\ UNCHANGED <<bridgeVars, engineVars, isStreaming, agentStatus, sends, reloads>>
        /\ rendered' \in {rendered, isStreaming}
    BY <1>2 DEF Render, Select
  <2> QED BY <2>1
<1>3. CASE Reload
  <2>1. /\ link' = "idle" /\ invocation' = "none" /\ timer' = FALSE /\ finished' = FALSE
        /\ rendered' = FALSE /\ agentStatus' = "idle" /\ gen' = "off" /\ isStreaming' = FALSE
        /\ reloads < MaxReloads /\ reloads' = reloads + 1
        /\ UNCHANGED <<agentVars, emitted, result, blurred, sends>>
    BY <1>3 DEF Reload, Settle
  <2>2. reloads' \in 0..MaxReloads
    BY <2>1, DesktopConstantsOK
  <2> QED BY <2>1, <2>2
<1> QED BY <1>1, <1>2, <1>3

\* A message is filed as a note, and with it the cards.
LEMMA NoteStored ==
  ASSUME Stored, chats \in [Chats -> LooseChats],
         NEW chat \in Chats, NEW note \in LooseNotes, NEW cards \in LooseCards,
         note \in Notes, cards \in Cards,
         chats' = [chats EXCEPT ![chat] =
                     [messages |-> Append(chats[chat].messages, note), cards |-> cards]]
  PROVE  Stored'
<1>1. \A other \in Chats : \A i \in DOMAIN chats'[other].messages : chats'[other].messages[i] \in Notes
  <2>1. \A other \in Chats : \A i \in DOMAIN chats'[other].messages :
           \/ chats'[other].messages[i] = note
           \/ \E j \in DOMAIN chats[other].messages :
                chats'[other].messages[i] = chats[other].messages[j]
    BY AddedOnly
  <2> QED BY <2>1 DEF Stored
<1>2. \A other \in Chats : chats'[other].cards \in Cards
  <2> SUFFICES ASSUME NEW other \in Chats PROVE chats'[other].cards \in Cards
    OBVIOUS
  <2>1. CASE other = chat
    BY <2>1
  <2>2. CASE other # chat
    BY <2>2 DEF Stored
  <2> QED BY <2>1, <2>2
<1> QED BY <1>1, <1>2 DEF Stored

\* Stored and Small hold together with the other invariants.
LEMMA StoredStep ==
  ASSUME Filed, Carded, Small, Stored, [DesktopNext]_desktopVars
  PROVE  Stored'
<1>0. ScreenTyped
  BY DEF Filed
<1>1. CASE StoreReply
  <2> DEFINE note == Said("agent", sends, live.text)
  <2>1. /\ note \in LooseNotes /\ chats \in [Chats -> LooseChats] /\ filing \in Chats
        /\ live.cards \in LooseCards
        /\ chats' = [chats EXCEPT ![filing] =
                       [messages |-> Append(chats[filing].messages, note), cards |-> live.cards]]
    BY <1>0, <1>1, StoreAdds DEF ScreenTyped
  <2>2. sends \in 1..MaxSends
    <3>1. chats[filing].messages # <<>> /\ chats[filing].messages[Len(chats[filing].messages)].question = sends
      BY <1>1 DEF StoreReply, Filed, QuestionLast
    <3>2. chats[filing].messages \in Seq(LooseNotes)
      BY <2>1 DEF LooseChats
    <3>3. Len(chats[filing].messages) \in DOMAIN chats[filing].messages
      BY <3>1, <3>2
    <3>4. chats[filing].messages[Len(chats[filing].messages)] \in Notes
      BY <2>1, <3>3 DEF Stored
    <3> QED BY <3>1, <3>4 DEF Notes
  <2>3. note \in Notes
    <3>1. live.text \in Seq(Letters)
      BY ToldTyped
    <3> QED BY <2>2, <3>1 DEF Notes, Said
  <2>4. live.cards \in Cards
    BY DEF Carded, Cards, Card
  <2> HIDE DEF note
  <2> QED BY <2>1, <2>3, <2>4, NoteStored
<1>2. CASE \E provider \in Providers : Send(provider)
  <2>1. PICK provider \in Providers : Send(provider)
    BY <1>2
  <2> DEFINE note == Said("user", sends + 1, <<>>)
  <2>2. /\ note \in LooseNotes /\ chats \in [Chats -> LooseChats] /\ active \in Chats
        /\ chats[active].cards \in LooseCards
        /\ chats' = [chats EXCEPT ![active] =
                       [messages |-> Append(chats[active].messages, note),
                        cards |-> chats[active].cards]]
    BY <1>0, <2>1, SendAdds DEF ScreenTyped
  <2>3. note \in Notes
    <3>1. sends + 1 \in 1..MaxSends
      BY <2>1, DesktopConstantsOK DEF Small, Counted, Send
    <3>2. <<>> \in Seq(Letters)
      OBVIOUS
    <3> QED BY <3>1, <3>2 DEF Notes, Said
  <2>4. chats[active].cards \in Cards
    BY <2>2 DEF Stored
  <2> HIDE DEF note
  <2> QED BY <2>2, <2>3, <2>4, NoteStored
<1>3. CASE ~StoreReply /\ ~(\E provider \in Providers : Send(provider))
  <2>1. UNCHANGED chats
    BY <1>3 DEF DesktopNext, Backend, Engine, Pause, Consume, ConsumeError, Render, Select, Reload
  <2> QED BY <2>1 DEF Stored
<1> QED BY <1>1, <1>2, <1>3

\* The events on their way have their shapes, with titles the agent gave.
LEMMA ShapesHold ==
  ASSUME Carded
  PROVE  /\ \A i \in DOMAIN out : out[i] \in Shapes({"pending"} \cup UpdateStatuses)
         /\ \A i \in DOMAIN queue : queue[i] \in Shapes(Statuses)
<1>1. ASSUME NEW statuses, NEW e \in WithStatus(statuses), ToolOf(e) \subseteq Coming
      PROVE  e \in Shapes(statuses)
  <2>0. e \in Events /\ (e.kind = "tool" => e.status \in statuses)
    BY <1>1 DEF WithStatus
  <2>1. CASE e.kind = "tool"
    <3>1. <<e.call, e.title>> \in Coming /\ e.call \in ToolCalls
      BY <1>1, <2>0, <2>1 DEF ToolOf, Events
    <3>2. e.title \in given[e.call] /\ given \in [ToolCalls -> SUBSET (Titles \cup {None})]
      <4>1. <<e.call, e.title>>[2] \in given[<<e.call, e.title>>[1]]
        BY <3>1 DEF Carded
      <4> QED BY <4>1 DEF Carded
    <3>3. e.title \in Titles \cup {None}
      BY <3>1, <3>2
    <3> QED BY <2>0, <2>1, <3>1, <3>3 DEF Events, Shapes
  <2>2. CASE e.kind # "tool"
    <3>1. e.text \in Seq(Letters)
      BY <2>0, EventText
    <3> QED BY <2>0, <2>2, <3>1 DEF Events, Shapes
  <2> QED BY <2>1, <2>2
<1>2. ASSUME NEW i \in DOMAIN out PROVE out[i] \in Shapes({"pending"} \cup UpdateStatuses)
  <2>1. out[i] \in WithStatus(RawStatuses)
    BY <1>2 DEF Carded
  <2>2. ToolOf(out[i]) \subseteq Coming
    BY <1>2 DEF Coming, ToolsOf
  <2>3. out[i] \in Shapes(RawStatuses)
    BY <1>1, <2>1, <2>2
  <2> QED BY <2>3 DEF RawStatuses
<1>3. ASSUME NEW i \in DOMAIN queue PROVE queue[i] \in Shapes(Statuses)
  <2>1. queue[i] \in WithStatus(Statuses)
    BY <1>3 DEF Carded
  <2>2. ToolOf(queue[i]) \subseteq Coming
    BY <1>3 DEF Coming, ToolsOf
  <2> QED BY <1>1, <2>1, <2>2
<1> QED BY <1>2, <1>3

\* Types; above all, a status the agent gave a call has become one the screen
\* knows by the time its event is queued, which tauriEngine.ts:12 only casts.
THEOREM TypeCorrect == DesktopSpec => []TypeOK
<1>1. DesktopInit => Small /\ Stored
  <2> SUFFICES ASSUME DesktopInit PROVE Small /\ Stored
    OBVIOUS
  <2>1. Len(<<>>) = 0 /\ MaxText \in Nat /\ MaxMessages \in Nat /\ MaxSends \in Nat /\ MaxReloads \in Nat
    BY BridgeConstantsOK, DesktopConstantsOK
  <2>2. Small
    <3>1. Counted
      BY <2>1 DEF DesktopInit, BridgeInit, Counted
    <3>2. Switched /\ Flagged
      BY DEF DesktopInit, BridgeInit, Switched, Flagged
    <3> QED BY <3>1, <3>2 DEF Small
  <2>3. Stored
    BY DEF DesktopInit, Stored, Cards, NoCards
  <2> QED BY <2>2, <2>3
<1>2. Filed /\ Carded /\ Small /\ Stored /\ [DesktopNext]_desktopVars => Small' /\ Stored'
  <2> SUFFICES ASSUME Filed, Carded, Small, Stored, [DesktopNext]_desktopVars
               PROVE  Small' /\ Stored'
    OBVIOUS
  <2>1. Small'
    BY AgentSmall, EngineSmall, UserSmall DEF DesktopNext, Backend
  <2> QED BY <2>1, StoredStep
<1>3. Filed /\ Carded /\ Small /\ Stored => TypeOK
  <2> SUFFICES ASSUME Filed, Carded, Small, Stored PROVE TypeOK
    OBVIOUS
  <2>1. /\ said \in Seq(Letters) /\ given \in [ToolCalls -> SUBSET (Titles \cup {None})]
        /\ names \in [ToolCalls -> Titles \cup {None}] /\ {active, filing} \subseteq Chats
    BY DEF Filed, Carded, BridgeTyped, ScreenTyped
  <2>2. live \in [text : Seq(Letters), cards : Cards]
    <3>1. live \in [text : Seq(Letters), cards : LooseCards] /\ live.cards \in Cards
      BY DEF Filed, ScreenTyped, Carded, Cards, Card
    <3> QED BY <3>1
  <2>3. {timer, finished, isStreaming, rendered} \subseteq BOOLEAN
    BY DEF Small, Flagged
  <2> QED BY <2>1, <2>2, <2>3, ShapesHold DEF TypeOK, Small, Counted, Switched, Flagged, Stored
<1> QED BY FiledInit, FiledStep, CardedInit, CardedStep, <1>1, <1>2, <1>3, PTL DEF DesktopSpec
=============================================================================
