------------------------------- MODULE Agents -------------------------------
(***************************************************************************)
(* A provider agent before its prompt: how it is made, what its builder      *)
(* methods set (anthropic.rs, gemini.rs, openai.rs, fireworks.rs, http.rs),  *)
(* and the request it then sends.                                           *)
(*                                                                         *)
(* A provider's own endpoint and its default model are named for the         *)
(* provider.  An optional value is a sequence of no value or of one, and so   *)
(* is a field of a request that may be left out.                            *)
(***************************************************************************)
EXTENDS Requests

OrElse(option, default) == IF option = <<>> THEN default ELSE option[1]

-----------------------------------------------------------------------------
(* Http: the timeouts are baked into the client when it is built.           *)

Http(connect, read, retries) ==
  [client |-> [connect |-> connect, read |-> read],
   connect |-> connect, read |-> read, retries |-> retries]

DefaultHttp == Http(10, 120, 2)

WithConnectTimeout(http, d) == Http(d, http.read, http.retries)

\* Slip: a client rebuilt from the defaults.
WithReadTimeoutOnly(http, d) == Http(DefaultHttp.connect, d, http.retries)

WithReadTimeout(http, d) == Http(http.connect, d, http.retries)

WithMaxRetries(http, n) == [http EXCEPT !.retries = n]

-----------------------------------------------------------------------------
(* Base URLs.  What a host or the environment gives is a text, which may be  *)
(* blank, and the slashes behind it.                                        *)

Bases == [text : STRING, slashes : Nat]
Given(text, slashes) == [text |-> text, slashes |-> slashes]
IsBlank(base) == base.text = "" /\ base.slashes = 0

\* pick_base: the first that is not blank, without its slashes.
PickBase(explicit, env, default) ==
  LET named(option) == option # <<>> /\ ~IsBlank(option[1])
  IN  IF named(explicit) THEN explicit[1].text
      ELSE IF named(env) THEN env[1].text
      ELSE default

DefaultBase(provider) == provider
FallbackModel(provider) == provider

\* resolve_base; env holds MANCH_{PROVIDER}_BASE_URL for each provider.
ResolveBase(provider, explicit, env) ==
  PickBase(explicit, env[provider], DefaultBase(provider))

-----------------------------------------------------------------------------
(* Agents, as their constructors make them.                                 *)

Providers == {"anthropic", "gemini", "openai", "fireworks"}

\* DEFAULT_MAX_OUTPUT_TOKENS
DefaultMaxOutputTokens == 8192

\* Fireworks speaks OpenAI's dialect.
DialectOf(provider) == IF provider = "fireworks" THEN "openai" ELSE provider

Agent(id, key, model, base) ==
  [id |-> id, dialect |-> DialectOf(id), key |-> key,
   model |-> OrElse(model, FallbackModel(id)), base |-> base,
   cap |-> DefaultMaxOutputTokens, cache |-> TRUE, effort |-> <<>>,
   http |-> DefaultHttp]

AnthropicNew(key, model, env) ==
  Agent("anthropic", key, model, ResolveBase("anthropic", <<>>, env))

GeminiNew(key, model, env) ==
  Agent("gemini", key, model, ResolveBase("gemini", <<>>, env))

OpenAiNew(key, model, env) ==
  Agent("openai", key, model, ResolveBase("openai", <<>>, env))

Compatible(id, envKey, key, model, env) ==
  Agent(id, key, model, ResolveBase(envKey, <<>>, env))

FireworksNew(key, model, env) ==
  Compatible("fireworks", "fireworks", key, model, env)

New(provider, key, model, env) ==
  CASE provider = "anthropic" -> AnthropicNew(key, model, env)
    [] provider = "gemini" -> GeminiNew(key, model, env)
    [] provider = "openai" -> OpenAiNew(key, model, env)
    [] provider = "fireworks" -> FireworksNew(key, model, env)

-----------------------------------------------------------------------------
(* The builder methods.                                                     *)

Setting(name, value) == [name |-> name, value |-> value]

GeminiSettings ==
  {"connect_timeout", "read_timeout", "max_retries", "max_output_tokens", "base_url"}
AnthropicSettings == GeminiSettings \cup {"cache_system_prompt"}
OpenAiSettings == GeminiSettings \cup {"compatible_reasoning_budget_tokens"}

SettingsOf(provider) ==
  CASE provider = "anthropic" -> AnthropicSettings
    [] provider = "gemini" -> GeminiSettings
    [] OTHER -> OpenAiSettings

\* What each takes; a reasoning budget is a NonZeroU32.
ValuesOf(name) ==
  CASE name = "cache_system_prompt" -> BOOLEAN
    [] name = "compatible_reasoning_budget_tokens" -> Nat \ {0}
    [] name = "base_url" -> Bases
    [] OTHER -> Nat

IsSequence(q) == Len(q) \in Nat /\ DOMAIN q = 1..Len(q)

AreSettings(provider, settings) ==
  /\ IsSequence(settings)
  /\ \A i \in DOMAIN settings :
       /\ settings[i].name \in SettingsOf(provider)
       /\ settings[i].value \in ValuesOf(settings[i].name)

\* base_url: a blank one leaves the base the agent has.
BaseUrl(agent, base) == [agent EXCEPT !.base = PickBase(<<base>>, <<>>, @)]

Configure(agent, s) ==
  CASE s.name = "connect_timeout" ->
         [agent EXCEPT !.http = WithConnectTimeout(@, s.value)]
    [] s.name = "read_timeout" ->
         [agent EXCEPT !.http = WithReadTimeout(@, s.value)]
    [] s.name = "max_retries" ->
         [agent EXCEPT !.http = WithMaxRetries(@, s.value)]
    [] s.name = "max_output_tokens" -> [agent EXCEPT !.cap = s.value]
    [] s.name = "cache_system_prompt" -> [agent EXCEPT !.cache = s.value]
    [] s.name = "compatible_reasoning_budget_tokens" ->
         [agent EXCEPT !.effort = <<s.value>>]
    [] s.name = "base_url" -> BaseUrl(agent, s.value)

\* A host makes an agent and calls builder methods on it.
AgentSpec(provider, key, model, env, settings) ==
  [provider |-> provider, key |-> key, model |-> model, env |-> env,
   settings |-> settings]

Built(spec) ==
  LET after[n \in 0..Len(spec.settings)] ==
        IF n = 0 THEN New(spec.provider, spec.key, spec.model, spec.env)
        ELSE Configure(after[n - 1], spec.settings[n])
  IN  after[Len(spec.settings)]

-----------------------------------------------------------------------------
(* The request: where it goes, with which client and key, and what its body  *)
(* says besides the conversation.                                           *)

Url(base, path) == [base |-> base, path |-> path]

MessagesUrl(base) == Url(base, "messages")
StreamUrl(base) == Url(base, "streamGenerateContent")
CompletionsUrl(base) == Url(base, "chat/completions")
ModelsUrl(base) == Url(base, "models")

Post(agent, url, header, cap, effort, tools, body) ==
  [url |-> url, client |-> agent.http.client,
   header |-> header, key |-> agent.key, model |-> agent.model,
   cap |-> <<cap, agent.cap>>, effort |-> effort, tools |-> tools, body |-> body]

\* A tool is declared in an envelope of the provider; with none, there is no
\* list of tools at all.
ToolsJson(tools, schema) ==
  IF tools = <<>> THEN <<>>
  ELSE <<[i \in DOMAIN tools |-> [name |-> tools[i], schema |-> schema]]>>

AnthropicPost(agent, turns, tools) ==
  Post(agent, MessagesUrl(agent.base), "x-api-key", "max_tokens", <<>>,
       ToolsJson(tools, "input_schema"), AnthropicBody(turns, agent.cache))

GeminiPost(agent, turns, tools) ==
  Post(agent, StreamUrl(agent.base), "x-goog-api-key", "maxOutputTokens", <<>>,
       ToolsJson(tools, "parameters"), GeminiBody(turns))

\* OpenAI itself has its own name for the cap and takes no integer effort.
OpenAiPost(agent, turns, tools) ==
  Post(agent, CompletionsUrl(agent.base), "bearer",
       IF agent.id = "openai" THEN "max_completion_tokens" ELSE "max_tokens",
       IF agent.id = "openai" THEN <<>> ELSE agent.effort,
       ToolsJson(tools, "parameters"), OpenAiBody(turns))

RequestOf(agent, turns, tools) ==
  CASE agent.dialect = "anthropic" -> AnthropicPost(agent, turns, tools)
    [] agent.dialect = "gemini" -> GeminiPost(agent, turns, tools)
    [] agent.dialect = "openai" -> OpenAiPost(agent, turns, tools)

-----------------------------------------------------------------------------
(* list_models_at: the request for a provider's catalogue.                  *)

Get(base, header, key) == [url |-> ModelsUrl(base), header |-> header, key |-> key]

AnthropicCatalogue(key, explicit, env) ==
  Get(ResolveBase("anthropic", explicit, env), "x-api-key", key)
GeminiCatalogue(key, explicit, env) ==
  Get(ResolveBase("gemini", explicit, env), "x-goog-api-key", key)
OpenAiCatalogue(key, explicit, env) ==
  Get(ResolveBase("openai", explicit, env), "bearer", key)
FireworksCatalogue(key, explicit, env) ==
  Get(ResolveBase("fireworks", explicit, env), "bearer", key)

CatalogueRequest(provider, key, explicit, env) ==
  CASE provider = "anthropic" -> AnthropicCatalogue(key, explicit, env)
    [] provider = "gemini" -> GeminiCatalogue(key, explicit, env)
    [] provider = "openai" -> OpenAiCatalogue(key, explicit, env)
    [] provider = "fireworks" -> FireworksCatalogue(key, explicit, env)
=============================================================================
