---------------------------- MODULE MCByokPrompt ----------------------------
(* Values of the constants of ByokPrompt for TLC.                           *)
EXTENDS ByokPrompt, TLC

CONSTANT a

\* a has its arguments in two pieces.
TwoPieces == [c \in Calls |-> 2]
OneTool == [c \in Calls |-> "tool"]

-----------------------------------------------------------------------------
(* Conversations: up to three pieces, each what one step of the runtime or   *)
(* of its host stores.                                                      *)

Said(role, kind, mime) == <<Block(role, kind, mime)>>
Text(role) == Said(role, "text", Absent)

Messages ==
  {Text("user"),
   Text("user") \o Said("user", "image", "image"),
   Said("user", "blob", "pdf"),
   Said("user", "blob", "plain") \o Text("user"),
   Said("user", "blob", "image"),
   Said("user", "blob", "zip"),
   Said("user", "blob", Absent),
   Said("user", "document", Absent),
   Said("user", "audio", Absent) \o Text("user"),
   Said("user", "link", Absent)}

\* The ids are those made for Gemini's calls, which recur from reply to reply.
Look == CallEntry("look-0", "look", "sig")
LookAgain == CallEntry("look-1", "look", Absent)
Save == CallEntry("save-1", "save", Absent)

Batch(calls) == calls \o [i \in DOMAIN calls |-> ResultEntry(calls[i].id)]

Exchanges ==
  {Batch(<<Look>>), Batch(<<Look, Save>>),
   Text("assistant") \o Batch(<<Look, LookAgain>>)}

AllPieces == Messages \cup Exchanges \cup {Text("assistant"), Text("system")}

UpToThree ==
  AllPieces \cup {p \o q : p, q \in AllPieces}
    \cup {p \o q \o r : p, q, r \in AllPieces}

-----------------------------------------------------------------------------
(* What hosts do: every conversation with an agent as it comes, every        *)
(* sequence of up to three builder methods of an agent with one conversation, *)
(* and every runtime of a few builder calls.  Each agent is asked for the     *)
(* number of retries the run has, at the start or at the end.                *)

Env(openai, fireworks) ==
  [p \in Providers |->
     CASE p = "openai" -> openai [] p = "fireworks" -> fireworks [] OTHER -> <<>>]

Host(calls, asks, log) == [calls |-> calls, asks |-> asks, log |-> log]

Memory == BuilderCall("memory", "memory", "store")
Tool(name, version) == BuilderCall("tool", name, version)
Serves(spec) == BuilderCall("agent", spec.provider, spec)

Retries == <<Setting("max_retries", MaxRetries)>>

SomeSettings ==
  {Setting("connect_timeout", 5), Setting("read_timeout", 7), Setting("max_retries", 0),
   Setting("max_output_tokens", 100), Setting("max_output_tokens", 200),
   Setting("base_url", Given("proxy", 2)), Setting("base_url", Given("", 0)),
   Setting("base_url", Given("gateway", 0)), Setting("base_url", Given("", 1)), Setting("cache_system_prompt", FALSE),
   Setting("compatible_reasoning_budget_tokens", 1000)}

SettingsFor(provider, length) ==
  LET calls == {s \in SomeSettings : s.name \in SettingsOf(provider)}
  IN  {c \o Retries : c \in UNION {[1..n -> calls] : n \in 0..length}}
        \cup {Retries \o c : c \in UNION {[1..n -> {s \in calls : s.name # "max_retries"}] :
                                          n \in 1..2}}

Envs ==
  {Env(<<>>, <<>>), Env(<<Given("openai-proxy", 1)>>, <<Given("", 0)>>),
   Env(<<>>, <<Given("fireworks-proxy", 0)>>)}

Plain(provider, model) == AgentSpec(provider, "key", model, Env(<<>>, <<>>), Retries)

AsTheyCome ==
  {Host(<<Serves(Plain(p, <<>>)), Tool("look", "look"), Memory>>, p, log) :
     p \in Providers \ {"fireworks"}, log \in UpToThree}

Brief == Text("system") \o Text("user")

Configured ==
  UNION {{Host(<<Serves(AgentSpec(p, "key", <<"model">>, env, settings)), Memory>>, p, Brief) :
            settings \in SettingsFor(p, IF env = Env(<<>>, <<>>) THEN 3 ELSE 2)} :
           p \in Providers, env \in Envs}

RuntimeCalls ==
  {Tool("look", "look"), Tool("save", "save"), Tool("look", "look better"),
   Serves(Plain("gemini", <<"model">>)), Serves(Plain("openai", <<>>)),
   Memory, BuilderCall("channel", "cli", "cli"),
   BuilderCall("max_tool_iters", "n", 0), BuilderCall("max_tool_iters", "n", 3),
   BuilderCall("permission_policy", "policy", "mine")}

Runtimes ==
  {Host(calls \o <<Serves(Plain("gemini", <<>>))>>, "gemini", Brief) :
     calls \in UNION {[1..n -> RuntimeCalls] : n \in 0..3}}
    \cup {Host(calls \o <<Memory>>, "gemini", Brief) :
     calls \in UNION {[1..n -> RuntimeCalls] : n \in 0..3}}

AllHosts == AsTheyCome \cup Configured \cup Runtimes
=============================================================================
