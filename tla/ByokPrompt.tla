----------------------------- MODULE ByokPrompt -----------------------------
(***************************************************************************)
(* A prompt of a provider agent, from the host on: the host builds a runtime  *)
(* (Runtime) with the agents it configured (Agents) and addresses one of      *)
(* them; the agent refuses or encodes the conversation (Requests), sends its  *)
(* request and streams the reply (LlmPrompt).  Context and body are moved     *)
(* into the request when it is sent, so no later step can read them.         *)
(***************************************************************************)
EXTENDS LlmPrompt, Agents, Runtime

CONSTANTS
  Hosts,     \* what a host may do: builder calls, the id it asks for, a log
  Additions  \* what may be added to a log before the next prompt

\* The calls a host may make, as the types of the code have them: an agent
\* goes by the id of its provider.  Http::send is modelled with one number of
\* retries.
IsBuilderCall(call) ==
  /\ call.kind \in Kinds
  /\ call.kind = "max_tool_iters" => call.value \in Nat
  /\ call.kind = "agent" =>
       /\ call.id \in Providers
       /\ call.value.provider = call.id
       /\ AreSettings(call.id, call.value.settings)
       /\ Built(call.value).http.retries = MaxRetries
       /\ Built(call.value).dialect \in Dialects

ASSUME HostsOK ==
  \A h \in Hosts :
    IsSequence(h.calls) /\ \A i \in DOMAIN h.calls : IsBuilderCall(h.calls[i])

\* What a log holds: the system speaks in texts, an image has the media type of
\* one, a model calls and the runtime answers for the user.
AsStored(e) ==
  /\ e.role = "system" => e.kind = "text"
  /\ e.kind = "image" => e.mime = "image"
  /\ e.kind = "call" => e.role = "assistant"
  /\ e.kind = "result" => e.role = "user"

\* MemStore::assemble_context.
Context(log) == CoalesceTurns(Numbered(log))

\* A reply's calls come after its narration, and results before the next prompt.
InOrder(turn) ==
  \A j \in DOMAIN turn.entries : \A i \in 1..(j - 1) :
    /\ turn.entries[i].kind = "call" => ~IsBlock(turn.entries[j])
    /\ IsBlock(turn.entries[i]) => turn.entries[j].kind # "result"

IsLog(log) == log \in Seq(LogEntries) /\ \A i \in DOMAIN log : AsStored(log[i])

ASSUME LogsOK ==
  /\ \A h \in Hosts :
       IsLog(h.log) /\ \A k \in DOMAIN Context(h.log) : InOrder(Context(h.log)[k])
  /\ \A more \in Additions : IsLog(more)

\* The ids of a turn's calls or of its results, in order.
IdsOf(turn, kind) ==
  Over(Those(turn.entries, LAMBDA e : e.kind = kind), LAMBDA e : <<e.id>>)

\* The results of a turn's calls are those of the next turn, in the same order,
\* and calls of one turn under one id are of one tool.
IsPaired(context) ==
  /\ \A k \in 0..Len(context) :
       (IF k = 0 THEN <<>> ELSE IdsOf(context[k], "call")) =
         (IF k = Len(context) THEN <<>> ELSE IdsOf(context[k + 1], "result"))
  /\ \A k \in DOMAIN context : \A i, j \in DOMAIN context[k].entries :
       LET e == context[k].entries[i]
           f == context[k].entries[j]
       IN  e.kind = "call" /\ f.kind = "call" /\ e.id = f.id => e.tool = f.tool

\* The logs are coalesced from histories that AtomicHistory allows: the calls of
\* a batch and, behind them, their results in the same order (Buffer::flush).
ASSUME LogsPaired == \A h \in Hosts : IsPaired(Context(h.log))

VARIABLES
  stage,    \* "building", "handling", "encoding", "encoded", "posted", "refused"
  host,     \* history: what the host did, until the request is posted
  manch,    \* the runtime, until then
  agent,    \* the agent, until then
  turns,    \* the context, until then
  request   \* the request, once built

byokVars == <<stage, host, manch, agent, turns, request>>

ByokInit ==
  /\ Init
  /\ stage = "building"
  /\ host \in {<<h>> : h \in Hosts}
  /\ manch = <<>>
  /\ agent = <<>>
  /\ dialect = DialectOf(host[1].asks)
  /\ turns = <<>>
  /\ request = <<>>

\* An error before anything is sent.
Refuse ==
  /\ stage' = "refused"
  /\ pc' = "failed"
  /\ UNCHANGED <<host, manch, agent, turns, request, httpVars, Streams>>

BuildRuntime ==
  /\ stage = "building"
  /\ LET builder == BuilderOf(host[1].calls)
     IN  \/ ~Buildable(builder) /\ Refuse
         \/ /\ Buildable(builder)
            /\ \E order \in Orders(builder.tools) : manch' = <<Build(builder, order)>>
            /\ stage' = "handling"
            /\ UNCHANGED <<host, agent, turns, request, vars>>

\* Manch::handle up to Agent::prompt.
Handle ==
  /\ stage = "handling"
  /\ \/ ~Knows(manch[1], host[1].asks) /\ Refuse
     \/ /\ Knows(manch[1], host[1].asks)
        /\ agent' = <<Built(AgentFor(manch[1], host[1].asks))>>
        /\ turns' = Context(host[1].log)
        /\ stage' = "encoding"
        /\ UNCHANGED <<host, manch, request, vars>>

\* Content the provider has no encoding for.
RefuseContent ==
  /\ stage = "encoding"
  /\ Unsupported(agent[1].dialect, turns)
  /\ Refuse

BuildRequest ==
  /\ stage = "encoding"
  /\ ~Unsupported(agent[1].dialect, turns)
  /\ stage' = "encoded"
  /\ request' = <<RequestOf(agent[1], turns, Schemas(manch[1]))>>
  /\ UNCHANGED <<host, manch, agent, turns, vars>>

PostRequest ==
  /\ stage = "encoded"
  /\ stage' = "posted"
  /\ host' = <<>>
  /\ manch' = <<>>
  /\ agent' = <<>>
  /\ turns' = <<>>
  /\ request' = <<>>
  /\ UNCHANGED vars

ByokProgress ==
  \/ BuildRuntime
  \/ Handle
  \/ RefuseContent
  \/ BuildRequest
  \/ PostRequest
  \/ stage = "posted" /\ Progress /\ UNCHANGED byokVars

ByokNext ==
  \/ ByokProgress
  \/ stage = "posted" /\ (StreamBreaks \/ SinkFails) /\ UNCHANGED byokVars
  \/ Rest /\ UNCHANGED byokVars

\* As FairSpec: a provider answers and ends its replies, and a sink returns.
ByokSpec ==
  ByokInit /\ [][ByokNext]_<<vars, byokVars>> /\ WF_<<vars, byokVars>>(ByokProgress)

-----------------------------------------------------------------------------
(* Properties of a request.                                                 *)

Body == request[1].body

LastOf(places) == CHOOSE i \in places : \A j \in places : j <= i

\* The last registration under a kind and an id.
LastRegistered(kind, id) ==
  LET calls == host[1].calls
  IN  calls[LastOf({i \in DOMAIN calls : calls[i].kind = kind /\ calls[i].id = id})].value

Registered(kind) ==
  {host[1].calls[i].id : i \in {j \in DOMAIN host[1].calls : host[1].calls[j].kind = kind}}

\* The last value the host gave a setting of the agent, or the default.
LastSet(spec, name, default) ==
  LET given == {i \in DOMAIN spec.settings : spec.settings[i].name = name}
  IN  IF given = {} THEN default ELSE spec.settings[LastOf(given)].value

\* Where the host gave a base; one counts unless it is blank.
NamedBases(spec) ==
  {i \in DOMAIN spec.settings :
     spec.settings[i].name = "base_url" /\ ~IsBlank(spec.settings[i].value)}

\* What an agent's request says, for one asked for as p and configured by spec.
ConfiguredBy(r, p, spec) ==
  LET env == spec.env[p]
      budget == LastSet(spec, "compatible_reasoning_budget_tokens", 0)
  IN  /\ r.client = [connect |-> LastSet(spec, "connect_timeout", 10),
                     read |-> LastSet(spec, "read_timeout", 120)]
      /\ r.cap = <<r.cap[1], LastSet(spec, "max_output_tokens", 8192)>>
      /\ (r.cap[1] = "max_completion_tokens") = (p = "openai")
      /\ r.model = OrElse(spec.model, p)
      /\ r.url.base = IF NamedBases(spec) # {}
                      THEN spec.settings[LastOf(NamedBases(spec))].value.text
                      ELSE IF env # <<>> /\ ~IsBlank(env[1]) THEN env[1].text ELSE p
      /\ r.key = spec.key
      /\ r.effort = IF p = "fireworks" /\ budget # 0 THEN <<budget>> ELSE <<>>
      /\ r.body.cached =
           (p = "anthropic" /\ r.body.system # <<>>
              /\ LastSet(spec, "cache_system_prompt", TRUE))

\* The catalogue a host reads at its agent's base is that of the endpoint the
\* agent prompts.
SameEndpoint(r, p, base, env) ==
  LET get == CatalogueRequest(p, r.key, <<Given(base, 0)>>, env)
  IN  /\ get.url.base = r.url.base \/ r.url.base = ""
      /\ get.header = r.header

\* The request is the one the host configured, whatever the order of its
\* builder calls: it is that of the agent registered last under its id, with
\* every setting's last value or its default, in the client's own timeouts
\* too; an explicit base wins over the provider's own variable and that over
\* the vendor, so that no provider is redirected by another's variable; a
\* reasoning budget goes to compatible providers only; and the catalogue read
\* at this agent's base is that of the endpoint it prompts, unless that was
\* given as slashes only.  (ManchBuilder, the constructors and builder methods
\* of the agents, Http, pick_base, resolve_base, list_models_at)
AsConfigured ==
  stage = "encoded" =>
    LET p == host[1].asks
        spec == LastRegistered("agent", p)
    IN  /\ ConfiguredBy(request[1], p, spec)
        /\ SameEndpoint(request[1], p, agent[1].base, spec.env)

\* A prompt offers every registered tool once, as it was registered last, and
\* with none no list of tools at all; a runtime that could not serve it is
\* never built.  (ManchBuilder, Manch::drive, tools_json)
ToolsOffered ==
  stage = "encoded" =>
    LET tools == request[1].tools
        names == Registered("tool")
        offered == IF tools = <<>> THEN <<>> ELSE tools[1]
    IN  /\ (tools = <<>>) = (names = {})
        /\ Len(offered) = Cardinality(names)
        /\ {offered[i].name : i \in DOMAIN offered} =
             {LastRegistered("tool", n) : n \in names}
        /\ Registered("memory") # {}
        /\ manch[1].maxToolIters > 0

AllParts(messages) == Over(messages, LAMBDA m : m.parts)
Carried(parts) == Over(parts, LAMBDA p : p.carries)
OfType(message, type) == Those(message.parts, LAMBDA p : p.type = type)

\* The context's entries, and the numbers of those that pass a test, in order.
Entries == Over(turns, LAMBDA t : t.entries)
Places(Test(_)) == Over(Those(Entries, Test), LAMBDA e : <<e.n>>)

\* Kinds no provider encodes.  The encoders' comments say the same of embedded
\* resources (openai.rs:249, anthropic.rs:178, gemini.rs:172), but the code below
\* each of them sends those, so they are not in the set.
Dropped == {"audio", "link"}

\* A body carries every entry of the conversation once and in order, except
\* the kinds that are dropped on purpose: what the system said in the system
\* slot and nowhere else, the rest in the messages, embedded resources included,
\* a document never as an image, and to Gemini each call with the signature it came with.
\* (request_body and unsupported_content of the three dialects)
NothingLost ==
  stage = "encoded" =>
    /\ Carried(Body.system) = Places(LAMBDA e : e.role = "system")
    /\ Carried(AllParts(Body.messages)) =
         Places(LAMBDA e : e.role # "system" /\ e.kind \notin Dropped)
    /\ \A i \in DOMAIN Body.messages : \A j \in DOMAIN Body.messages[i].parts :
         LET p == Body.messages[i].parts[j]
         IN  /\ p.type = "image" => p.mime = "image"
             /\ p.type = "document" => p.mime \in {"pdf", "plain"}
             /\ p.type = "inline" => p.mime \in {"image", "pdf"}
             /\ p.type = "call" /\ dialect = "gemini" =>
                  p.meta = Entries[p.carries[1]].meta

\* Ids of the calls or results of a message, in order.
IdsIn(message, type) == Over(OfType(message, type), LAMBDA p : <<p.id>>)
NamesIn(message, type) == Over(OfType(message, type), LAMBDA p : <<p.name>>)

\* The messages after place i that are one tool result each.
Replies(messages, i) ==
  LET after == SubSeq(messages, i + 1, Len(messages))
      stops == {k \in DOMAIN after : after[k].role # "tool"}
  IN  IF stops = {} THEN after
      ELSE SubSeq(after, 1, (CHOOSE k \in stops : \A l \in stops : k <= l) - 1)

\* Each provider's rule for calls and results holds of every conversation that
\* is valid as stored: Anthropic wants the results of a message's calls to open
\* the next message, Gemini wants a response per call, by name and in order, in
\* the next message, and OpenAI wants a message per result right behind the
\* message with the calls.  (entry_json, entry_part, turn_messages)
PairsHeld ==
  stage = "encoded" =>
    LET messages == Body.messages
        calling == {i \in DOMAIN messages : OfType(messages[i], "call") # <<>>}
        answering == {i \in DOMAIN messages : OfType(messages[i], "result") # <<>>}
    IN  IF dialect = "openai"
        THEN /\ \A i \in calling :
                  IdsIn(messages[i], "call") =
                    Over(Replies(messages, i), LAMBDA m : IdsIn(m, "result"))
             /\ \A i \in answering :
                  \E c \in calling : c < i /\ i <= c + Len(Replies(messages, c))
        ELSE /\ answering = {i + 1 : i \in calling}
             /\ \A i \in calling :
                  /\ messages[i].role = "assistant" /\ messages[i + 1].role = "user"
                  /\ IdsIn(messages[i], "call") = IdsIn(messages[i + 1], "result")
                  /\ NamesIn(messages[i], "call") = NamesIn(messages[i + 1], "result")
                       \/ dialect = "anthropic"
                  /\ \A j \in 1..Len(OfType(messages[i + 1], "result")) :
                       messages[i + 1].parts[j].type = "result"

\* What is added to a conversation, short of a system turn, rewrites nothing a
\* provider was sent before by this runtime but the last message: the prefix
\* that providers cache stays.  (request_body; the mark of system_blocks)
PrefixKept ==
  stage = "encoded" =>
    \A more \in Additions :
      (\A i \in DOMAIN more : more[i].role # "system") =>
        \E next \in {RequestOf(agent[1], Context(Entries \o more), Schemas(manch[1]))} :
            /\ next.tools = request[1].tools
            /\ next.body.system = Body.system
            /\ next.body.cached = Body.cached
            /\ Body.messages # <<>> => IsPrefix(Front(Body.messages), next.body.messages)
=============================================================================
