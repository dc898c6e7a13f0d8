-------------------------- MODULE ByokPromptProofs --------------------------
(***************************************************************************)
(* Proofs about ByokPrompt, for every sequence of builder calls and every    *)
(* conversation: the request is the one the host configured and offers the   *)
(* tools it registered; its body carries what the log holds, and the request *)
(* that follows it begins like it.  What the builders compute is a recursion *)
(* along the calls; it is proved equal to the last value given of each kind, *)
(* call by call.  A body is proved equal to the pieces of its turns, one     *)
(* after another, so that what holds of a turn's pieces holds of the body.   *)
(***************************************************************************)
EXTENDS ByokPrompt, FiniteSetTheorems, SequenceTheorems, Counting

-----------------------------------------------------------------------------
(* The last place of a set, while places are added in order.                *)

\* A set of places up to the one just added has that as its last.
LEMMA LastIsNew ==
  ASSUME NEW n \in Nat, NEW places \in SUBSET (1..(n + 1)), n + 1 \in places
  PROVE  LastOf(places) = n + 1
<1>1. \A j \in places : j <= n + 1
  OBVIOUS
<1>2. \E i \in places : \A j \in places : j <= i
  BY <1>1
<1>3. LastOf(places) \in places /\ \A j \in places : j <= LastOf(places)
  BY <1>2 DEF LastOf
<1>4. LastOf(places) \in 1..(n + 1) /\ n + 1 <= LastOf(places)
  BY <1>3
<1> QED BY <1>4

\* A set of places up to a number has a last one, unless it is empty.
LEMMA LastIn ==
  ASSUME NEW n \in Nat, NEW places \in SUBSET (1..n), places # {}
  PROVE  LastOf(places) \in places
<1> DEFINE S == {k \in 0..n : \A P \in SUBSET (1..k) :
                     P # {} => \E i \in P : \A j \in P : j <= i}
<1>1. 0 \in S
  <2>1. \A P \in SUBSET (1..0) : P = {}
    <3>1. 1..0 = {}
      OBVIOUS
    <3> QED BY <3>1
  <2>2. \A P \in SUBSET (1..0) : P # {} => \E i \in P : \A j \in P : j <= i
    BY <2>1
  <2>3. 0 \in 0..n
    OBVIOUS
  <2> QED BY <2>2, <2>3
<1>2. ASSUME NEW k \in 0..n, k \in S, k < n PROVE k + 1 \in S
  <2>1. SUFFICES ASSUME NEW P \in SUBSET (1..(k + 1)), P # {}
                 PROVE  \E i \in P : \A j \in P : j <= i
    BY <1>2
  <2>2. CASE k + 1 \in P
    <3>1. \A j \in P : j <= k + 1
      OBVIOUS
    <3> QED BY <2>2, <3>1
  <2>3. CASE k + 1 \notin P
    <3>1. P \in SUBSET (1..k)
      BY <2>3
    <3> QED BY <1>2, <2>1, <3>1
  <2> QED BY <2>2, <2>3
<1> HIDE DEF S
<1>3. n \in S
  <2>1. 0..n \subseteq S
    BY <1>1, <1>2, Reached
  <2> QED BY <2>1
<1>4. \E i \in places : \A j \in places : j <= i
  BY <1>3 DEF S
<1> QED BY <1>4 DEF LastOf

-----------------------------------------------------------------------------
(* The builder methods of an agent.                                         *)

\* The places among the first n where a host gave a setting.
GivenUpTo(spec, name, n) == {i \in 1..n : spec.settings[i].name = name}

\* The value of a setting after n calls.
SetBy(spec, name, n, default) ==
  IF GivenUpTo(spec, name, n) = {} THEN default
  ELSE spec.settings[LastOf(GivenUpTo(spec, name, n))].value

\* The places among the first n where it gave a base that counts.
BasesUpTo(spec, n) ==
  {i \in 1..n : spec.settings[i].name = "base_url" /\ ~IsBlank(spec.settings[i].value)}

\* The base after n calls.
BaseBy(spec, n) ==
  IF BasesUpTo(spec, n) = {}
  THEN ResolveBase(spec.provider, <<>>, spec.env)
  ELSE spec.settings[LastOf(BasesUpTo(spec, n))].value.text

\* The budget after n calls.
EffortBy(spec, n) ==
  IF GivenUpTo(spec, "compatible_reasoning_budget_tokens", n) = {} THEN <<>>
  ELSE <<SetBy(spec, "compatible_reasoning_budget_tokens", n, 0)>>

\* An agent of a provider.
AgentOf(spec, base, cap, cache, effort, http) ==
  [id |-> spec.provider, dialect |-> DialectOf(spec.provider), key |-> spec.key,
   model |-> OrElse(spec.model, spec.provider), base |-> base, cap |-> cap,
   cache |-> cache, effort |-> effort, http |-> http]

\* The client after n calls.
HttpBy(spec, n) ==
  Http(SetBy(spec, "connect_timeout", n, 10), SetBy(spec, "read_timeout", n, 120),
       SetBy(spec, "max_retries", n, 2))

\* What an agent does about the cache unless it is told.
Caches == TRUE

\* The agent after n calls, said without the calls.
AgentBy(spec, n) ==
  AgentOf(spec, BaseBy(spec, n), SetBy(spec, "max_output_tokens", n, 8192),
          SetBy(spec, "cache_system_prompt", n, Caches), EffortBy(spec, n), HttpBy(spec, n))

\* The next call sets what it names and nothing else.
LEMMA SetNext ==
  ASSUME NEW spec, NEW n \in Nat, NEW name, NEW default
  PROVE  SetBy(spec, name, n + 1, default) =
           IF spec.settings[n + 1].name = name THEN spec.settings[n + 1].value
           ELSE SetBy(spec, name, n, default)
<1> DEFINE before == GivenUpTo(spec, name, n)
           now == GivenUpTo(spec, name, n + 1)
<1>1. CASE spec.settings[n + 1].name = name
  <2>1. now \in SUBSET (1..(n + 1)) /\ n + 1 \in now
    BY <1>1 DEF GivenUpTo
  <2>2. LastOf(now) = n + 1
    BY <2>1, LastIsNew
  <2> QED BY <1>1, <2>1, <2>2 DEF SetBy
<1>2. CASE spec.settings[n + 1].name # name
  <2>1. now = before
    BY <1>2 DEF GivenUpTo
  <2> QED BY <1>2, <2>1 DEF SetBy
<1> QED BY <1>1, <1>2

\* So does a budget.
LEMMA EffortNext ==
  ASSUME NEW spec, NEW n \in Nat
  PROVE  EffortBy(spec, n + 1) =
           IF spec.settings[n + 1].name = "compatible_reasoning_budget_tokens"
           THEN <<spec.settings[n + 1].value>>
           ELSE EffortBy(spec, n)
<1> DEFINE name == "compatible_reasoning_budget_tokens"
<1>1. SetBy(spec, name, n + 1, 0) =
        IF spec.settings[n + 1].name = name THEN spec.settings[n + 1].value
        ELSE SetBy(spec, name, n, 0)
  BY SetNext
<1>2. CASE spec.settings[n + 1].name = name
  <2>1. n + 1 \in GivenUpTo(spec, name, n + 1)
    BY <1>2 DEF GivenUpTo
  <2> QED BY <1>1, <1>2, <2>1 DEF EffortBy
<1>3. CASE spec.settings[n + 1].name # name
  <2>1. GivenUpTo(spec, name, n + 1) = GivenUpTo(spec, name, n)
    BY <1>3 DEF GivenUpTo
  <2> QED BY <1>1, <1>3, <2>1 DEF EffortBy
<1> QED BY <1>2, <1>3

\* And a base that is not blank.
LEMMA BaseNext ==
  ASSUME NEW spec, NEW n \in Nat
  PROVE  BaseBy(spec, n + 1) =
           IF /\ spec.settings[n + 1].name = "base_url"
              /\ ~IsBlank(spec.settings[n + 1].value)
           THEN spec.settings[n + 1].value.text
           ELSE BaseBy(spec, n)
<1> DEFINE before == BasesUpTo(spec, n)
           now == BasesUpTo(spec, n + 1)
           named == /\ spec.settings[n + 1].name = "base_url"
                    /\ ~IsBlank(spec.settings[n + 1].value)
<1>1. CASE named
  <2>1. now \in SUBSET (1..(n + 1)) /\ n + 1 \in now
    BY <1>1 DEF BasesUpTo
  <2>2. LastOf(now) = n + 1
    BY <2>1, LastIsNew
  <2> QED BY <1>1, <2>1, <2>2 DEF BaseBy
<1>2. CASE ~named
  <2>1. now = before
    BY <1>2 DEF BasesUpTo
  <2> QED BY <1>2, <2>1 DEF BaseBy
<1> QED BY <1>1, <1>2

\* A constructor makes the agent of no calls.
LEMMA AgentNew ==
  ASSUME NEW spec, spec.provider \in Providers
  PROVE  New(spec.provider, spec.key, spec.model, spec.env) = AgentBy(spec, 0)
<1> DEFINE p == spec.provider
<1>1. New(p, spec.key, spec.model, spec.env) =
        Agent(p, spec.key, spec.model, ResolveBase(p, <<>>, spec.env))
  BY DEF Providers, New, AnthropicNew, GeminiNew, OpenAiNew, FireworksNew, Compatible
<1>2. \A name : GivenUpTo(spec, name, 0) = {}
  BY DEF GivenUpTo
<1>3. BasesUpTo(spec, 0) = {}
  BY DEF BasesUpTo
<1>4. /\ BaseBy(spec, 0) = ResolveBase(p, <<>>, spec.env)
      /\ EffortBy(spec, 0) = <<>>
  BY <1>2, <1>3 DEF BaseBy, EffortBy
<1>5. /\ SetBy(spec, "max_output_tokens", 0, 8192) = 8192
      /\ SetBy(spec, "cache_system_prompt", 0, Caches) = Caches
      /\ SetBy(spec, "connect_timeout", 0, 10) = 10
      /\ SetBy(spec, "read_timeout", 0, 120) = 120
      /\ SetBy(spec, "max_retries", 0, 2) = 2
  BY <1>2 DEF SetBy
<1>6. Agent(p, spec.key, spec.model, ResolveBase(p, <<>>, spec.env)) =
        AgentOf(spec, ResolveBase(p, <<>>, spec.env), 8192, Caches, <<>>, Http(10, 120, 2))
  BY DEF Agent, AgentOf, Caches, FallbackModel, DefaultMaxOutputTokens, DefaultHttp
<1>7. HttpBy(spec, 0) = Http(10, 120, 2)
  BY <1>5 DEF HttpBy
<1> QED BY <1>1, <1>4, <1>5, <1>6, <1>7 DEF AgentBy

\* A base is taken unless it is blank.
LEMMA PickedBase ==
  ASSUME NEW b, NEW default
  PROVE  PickBase(<<b>>, <<>>, default) = IF IsBlank(b) THEN default ELSE b.text
<1>1. <<b>> # <<>> /\ <<b>>[1] = b
  OBVIOUS
<1> QED BY <1>1 DEF PickBase

\* What each builder method does to an agent.
LEMMA Configuring ==
  ASSUME NEW spec, NEW base, NEW cap, NEW cache, NEW effort,
         NEW connect, NEW read, NEW retries, NEW s,
         NEW agent0, agent0 = AgentOf(spec, base, cap, cache, effort, Http(connect, read, retries))
  PROVE  /\ s.name = "connect_timeout" =>
              Configure(agent0, s) =
                AgentOf(spec, base, cap, cache, effort, Http(s.value, read, retries))
         /\ s.name = "read_timeout" =>
              Configure(agent0, s) =
                AgentOf(spec, base, cap, cache, effort, Http(connect, s.value, retries))
         /\ s.name = "max_retries" =>
              Configure(agent0, s) =
                AgentOf(spec, base, cap, cache, effort, Http(connect, read, s.value))
         /\ s.name = "max_output_tokens" =>
              Configure(agent0, s) =
                AgentOf(spec, base, s.value, cache, effort, Http(connect, read, retries))
         /\ s.name = "cache_system_prompt" =>
              Configure(agent0, s) =
                AgentOf(spec, base, cap, s.value, effort, Http(connect, read, retries))
         /\ s.name = "compatible_reasoning_budget_tokens" =>
              Configure(agent0, s) =
                AgentOf(spec, base, cap, cache, <<s.value>>, Http(connect, read, retries))
         /\ s.name = "base_url" =>
              Configure(agent0, s) =
                AgentOf(spec, IF IsBlank(s.value) THEN base ELSE s.value.text,
                        cap, cache, effort, Http(connect, read, retries))
<1> DEFINE http == Http(connect, read, retries)
<1>1. /\ WithConnectTimeout(http, s.value) = Http(s.value, read, retries)
      /\ WithReadTimeout(http, s.value) = Http(connect, s.value, retries)
      /\ WithMaxRetries(http, s.value) = Http(connect, read, s.value)
  BY DEF Http, WithConnectTimeout, WithReadTimeout, WithMaxRetries
<1>2. agent0 = AgentOf(spec, base, cap, cache, effort, http)
  OBVIOUS
<1> HIDE DEF http
<1>3. agent0.http = http /\ agent0.base = base
  BY <1>2 DEF AgentOf
<1>4. ASSUME s.name = "connect_timeout"
      PROVE  Configure(agent0, s) = [agent0 EXCEPT !.http = WithConnectTimeout(http, s.value)]
  BY <1>3, <1>4 DEF Configure
<1>5. ASSUME s.name = "read_timeout"
      PROVE  Configure(agent0, s) = [agent0 EXCEPT !.http = WithReadTimeout(http, s.value)]
  BY <1>3, <1>5 DEF Configure
<1>6. ASSUME s.name = "max_retries"
      PROVE  Configure(agent0, s) = [agent0 EXCEPT !.http = WithMaxRetries(http, s.value)]
  BY <1>3, <1>6 DEF Configure
<1>7. ASSUME s.name = "max_output_tokens"
      PROVE  Configure(agent0, s) = [agent0 EXCEPT !.cap = s.value]
  BY <1>7 DEF Configure
<1>8. ASSUME s.name = "cache_system_prompt"
      PROVE  Configure(agent0, s) = [agent0 EXCEPT !.cache = s.value]
  BY <1>8 DEF Configure
<1>9. ASSUME s.name = "compatible_reasoning_budget_tokens"
      PROVE  Configure(agent0, s) = [agent0 EXCEPT !.effort = <<s.value>>]
  BY <1>9 DEF Configure
<1>10. ASSUME s.name = "base_url"
       PROVE  Configure(agent0, s) =
                [agent0 EXCEPT !.base = IF IsBlank(s.value) THEN base ELSE s.value.text]
  <2>1. Configure(agent0, s) = [agent0 EXCEPT !.base = PickBase(<<s.value>>, <<>>, base)]
    BY <1>3, <1>10 DEF Configure, BaseUrl
  <2> QED BY <2>1, PickedBase
<1>11. /\ \A new : [agent0 EXCEPT !.http = new] = AgentOf(spec, base, cap, cache, effort, new)
       /\ \A new : [agent0 EXCEPT !.cap = new] = AgentOf(spec, base, new, cache, effort, http)
       /\ \A new : [agent0 EXCEPT !.cache = new] = AgentOf(spec, base, cap, new, effort, http)
       /\ \A new : [agent0 EXCEPT !.effort = new] = AgentOf(spec, base, cap, cache, new, http)
       /\ \A new : [agent0 EXCEPT !.base = new] = AgentOf(spec, new, cap, cache, effort, http)
  BY <1>2 DEF AgentOf
<1> USE DEF http
<1>12. CASE s.name = "connect_timeout"
  BY <1>1, <1>4, <1>11, <1>12
<1>13. CASE s.name = "read_timeout"
  BY <1>1, <1>5, <1>11, <1>13
<1>14. CASE s.name = "max_retries"
  BY <1>1, <1>6, <1>11, <1>14
<1>15. CASE s.name = "max_output_tokens"
  BY <1>7, <1>11, <1>15
<1>16. CASE s.name = "cache_system_prompt"
  BY <1>8, <1>11, <1>16
<1>17. CASE s.name = "compatible_reasoning_budget_tokens"
  BY <1>9, <1>11, <1>17
<1>18. CASE s.name = "base_url"
  BY <1>10, <1>11, <1>18
<1> QED BY <1>12, <1>13, <1>14, <1>15, <1>16, <1>17, <1>18

\* The names of the settings.
LEMMA SettingNames ==
  ASSUME NEW provider
  PROVE  SettingsOf(provider) \subseteq
           {"connect_timeout", "read_timeout", "max_retries", "max_output_tokens",
            "base_url", "cache_system_prompt", "compatible_reasoning_budget_tokens"}
BY DEF SettingsOf, GeminiSettings, AnthropicSettings, OpenAiSettings

\* The next call makes of the agent after n calls the one after n + 1.
LEMMA AgentNext ==
  ASSUME NEW spec, NEW n \in Nat, NEW provider,
         spec.settings[n + 1].name \in SettingsOf(provider)
  PROVE  Configure(AgentBy(spec, n), spec.settings[n + 1]) = AgentBy(spec, n + 1)
<1> DEFINE s == spec.settings[n + 1]
           base == BaseBy(spec, n)
           cap == SetBy(spec, "max_output_tokens", n, 8192)
           cache == SetBy(spec, "cache_system_prompt", n, Caches)
           effort == EffortBy(spec, n)
           connect == SetBy(spec, "connect_timeout", n, 10)
           read == SetBy(spec, "read_timeout", n, 120)
           retries == SetBy(spec, "max_retries", n, 2)
           agent0 == AgentBy(spec, n)
<1>1. /\ BaseBy(spec, n + 1) =
           IF s.name = "base_url" /\ ~IsBlank(s.value) THEN s.value.text ELSE base
      /\ SetBy(spec, "max_output_tokens", n + 1, 8192) =
           IF s.name = "max_output_tokens" THEN s.value ELSE cap
      /\ SetBy(spec, "cache_system_prompt", n + 1, Caches) =
           IF s.name = "cache_system_prompt" THEN s.value ELSE cache
      /\ EffortBy(spec, n + 1) =
           IF s.name = "compatible_reasoning_budget_tokens" THEN <<s.value>> ELSE effort
      /\ SetBy(spec, "connect_timeout", n + 1, 10) =
           IF s.name = "connect_timeout" THEN s.value ELSE connect
      /\ SetBy(spec, "read_timeout", n + 1, 120) =
           IF s.name = "read_timeout" THEN s.value ELSE read
      /\ SetBy(spec, "max_retries", n + 1, 2) =
           IF s.name = "max_retries" THEN s.value ELSE retries
  <2>1. \A name, default :
          SetBy(spec, name, n + 1, default) =
            IF s.name = name THEN s.value ELSE SetBy(spec, name, n, default)
    BY SetNext
  <2>2. EffortBy(spec, n + 1) =
          IF s.name = "compatible_reasoning_budget_tokens" THEN <<s.value>> ELSE effort
    BY EffortNext
  <2>3. BaseBy(spec, n + 1) =
          IF s.name = "base_url" /\ ~IsBlank(s.value) THEN s.value.text ELSE base
    BY BaseNext
  <2> HIDE DEF s
  <2> QED BY <2>1, <2>2, <2>3
<1>2. AgentBy(spec, n + 1) =
        AgentOf(spec, BaseBy(spec, n + 1), SetBy(spec, "max_output_tokens", n + 1, 8192),
                SetBy(spec, "cache_system_prompt", n + 1, Caches), EffortBy(spec, n + 1),
                Http(SetBy(spec, "connect_timeout", n + 1, 10),
                     SetBy(spec, "read_timeout", n + 1, 120),
                     SetBy(spec, "max_retries", n + 1, 2)))
  BY DEF AgentBy, HttpBy
<1>3. agent0 = AgentOf(spec, base, cap, cache, effort, Http(connect, read, retries))
  BY DEF AgentBy, HttpBy
<1>4. s.name \in {"connect_timeout", "read_timeout", "max_retries", "max_output_tokens",
                  "base_url", "cache_system_prompt", "compatible_reasoning_budget_tokens"}
  BY SettingNames
<1>12. SUFFICES Configure(agent0, s) = AgentBy(spec, n + 1)
  OBVIOUS
<1> HIDE DEF s, base, cap, cache, effort, connect, read, retries, agent0
<1>13. /\ s.name = "connect_timeout" =>
            Configure(agent0, s) =
              AgentOf(spec, base, cap, cache, effort, Http(s.value, read, retries))
       /\ s.name = "read_timeout" =>
            Configure(agent0, s) =
              AgentOf(spec, base, cap, cache, effort, Http(connect, s.value, retries))
       /\ s.name = "max_retries" =>
            Configure(agent0, s) =
              AgentOf(spec, base, cap, cache, effort, Http(connect, read, s.value))
       /\ s.name = "max_output_tokens" =>
            Configure(agent0, s) =
              AgentOf(spec, base, s.value, cache, effort, Http(connect, read, retries))
       /\ s.name = "cache_system_prompt" =>
            Configure(agent0, s) =
              AgentOf(spec, base, cap, s.value, effort, Http(connect, read, retries))
       /\ s.name = "compatible_reasoning_budget_tokens" =>
            Configure(agent0, s) =
              AgentOf(spec, base, cap, cache, <<s.value>>, Http(connect, read, retries))
       /\ s.name = "base_url" =>
            Configure(agent0, s) =
              AgentOf(spec, IF IsBlank(s.value) THEN base ELSE s.value.text,
                      cap, cache, effort, Http(connect, read, retries))
  BY <1>3, Configuring
<1>5. CASE s.name = "connect_timeout"
  <2>1. Configure(agent0, s) =
          AgentOf(spec, base, cap, cache, effort, Http(s.value, read, retries))
    BY <1>13, <1>5
  <2> QED BY <1>1, <1>2, <1>5, <2>1
<1>6. CASE s.name = "read_timeout"
  <2>1. Configure(agent0, s) =
          AgentOf(spec, base, cap, cache, effort, Http(connect, s.value, retries))
    BY <1>13, <1>6
  <2> QED BY <1>1, <1>2, <1>6, <2>1
<1>7. CASE s.name = "max_retries"
  <2>1. Configure(agent0, s) =
          AgentOf(spec, base, cap, cache, effort, Http(connect, read, s.value))
    BY <1>13, <1>7
  <2> QED BY <1>1, <1>2, <1>7, <2>1
<1>8. CASE s.name = "max_output_tokens"
  <2>1. Configure(agent0, s) =
          AgentOf(spec, base, s.value, cache, effort, Http(connect, read, retries))
    BY <1>13, <1>8
  <2> QED BY <1>1, <1>2, <1>8, <2>1
<1>9. CASE s.name = "cache_system_prompt"
  <2>1. Configure(agent0, s) =
          AgentOf(spec, base, cap, s.value, effort, Http(connect, read, retries))
    BY <1>13, <1>9
  <2> QED BY <1>1, <1>2, <1>9, <2>1
<1>10. CASE s.name = "compatible_reasoning_budget_tokens"
  <2>1. Configure(agent0, s) =
          AgentOf(spec, base, cap, cache, <<s.value>>, Http(connect, read, retries))
    BY <1>13, <1>10
  <2> QED BY <1>1, <1>2, <1>10, <2>1
<1>11. CASE s.name = "base_url"
  <2>1. Configure(agent0, s) =
          AgentOf(spec, IF IsBlank(s.value) THEN base ELSE s.value.text,
                  cap, cache, effort, Http(connect, read, retries))
    BY <1>13, <1>11
  <2>2. (IF IsBlank(s.value) THEN base ELSE s.value.text) =
        (IF s.name = "base_url" /\ ~IsBlank(s.value) THEN s.value.text ELSE base)
    BY <1>11
  <2> QED BY <1>1, <1>2, <1>11, <2>1, <2>2
<1> QED BY <1>4, <1>5, <1>6, <1>7, <1>8, <1>9, <1>10, <1>11

\* The values of the recursion of Built, up to m.
Recursion(spec, m, after) ==
  after = [n \in 0..m |->
             IF n = 0 THEN New(spec.provider, spec.key, spec.model, spec.env)
             ELSE Configure(after[n - 1], spec.settings[n])]

\* They are those agents.
LEMMA BuiltExists ==
  ASSUME NEW spec, spec.provider \in Providers, NEW provider,
         AreSettings(provider, spec.settings)
  PROVE  Recursion(spec, Len(spec.settings),
                      [n \in 0..Len(spec.settings) |-> AgentBy(spec, n)])
<1> DEFINE m == Len(spec.settings)
           after == [n \in 0..m |-> AgentBy(spec, n)]
<1>1. m \in Nat /\ \A n \in 1..m : spec.settings[n].name \in SettingsOf(provider)
  BY DEF AreSettings, IsSequence
<1>2. ASSUME NEW n \in 0..m
      PROVE  AgentBy(spec, n) =
               IF n = 0 THEN New(spec.provider, spec.key, spec.model, spec.env)
               ELSE Configure(after[n - 1], spec.settings[n])
  <2>1. CASE n = 0
    BY <2>1, AgentNew
  <2>2. CASE n # 0
    <3>1. n - 1 \in Nat /\ n - 1 \in 0..m /\ (n - 1) + 1 = n /\ n \in 1..m
      BY <1>1, <2>2
    <3>2. Configure(AgentBy(spec, n - 1), spec.settings[n]) = AgentBy(spec, n)
      <4>1. spec.settings[(n - 1) + 1].name \in SettingsOf(provider)
        BY <1>1, <3>1
      <4>2. Configure(AgentBy(spec, n - 1), spec.settings[(n - 1) + 1]) =
              AgentBy(spec, (n - 1) + 1)
        BY <3>1, <4>1, AgentNext
      <4> QED BY <3>1, <4>2
    <3>3. after[n - 1] = AgentBy(spec, n - 1)
      BY <3>1
    <3> QED BY <2>2, <3>2, <3>3
  <2> QED BY <2>1, <2>2
<1>3. after = [n \in 0..m |->
                 IF n = 0 THEN New(spec.provider, spec.key, spec.model, spec.env)
                 ELSE Configure(after[n - 1], spec.settings[n])]
  BY <1>2
<1> QED BY <1>3 DEF Recursion

\* There is no other recursion.
LEMMA BuiltOnly ==
  ASSUME NEW spec, NEW m \in Nat, NEW f, NEW g,
         Recursion(spec, m, f), Recursion(spec, m, g)
  PROVE  f[m] = g[m]
<1> DEFINE S == {n \in 0..m : f[n] = g[n]}
<1>1. 0 \in S
  BY DEF Recursion
<1>2. ASSUME NEW n \in 0..m, n \in S, n < m PROVE n + 1 \in S
  <2>1. n + 1 \in 0..m /\ n + 1 # 0 /\ (n + 1) - 1 = n
    BY <1>2
  <2>2. /\ f[n + 1] = Configure(f[(n + 1) - 1], spec.settings[n + 1])
        /\ g[n + 1] = Configure(g[(n + 1) - 1], spec.settings[n + 1])
    BY <2>1 DEF Recursion
  <2> QED BY <1>2, <2>1, <2>2
<1> HIDE DEF S
<1>3. 0..m \subseteq S
  BY <1>1, <1>2, Reached
<1>4. m \in S
  BY <1>3
<1> QED BY <1>4 DEF S

\* A host's agent has the last value of every setting, whatever the order.
LEMMA BuiltIs ==
  ASSUME NEW spec, spec.provider \in Providers, NEW provider,
         AreSettings(provider, spec.settings)
  PROVE  Built(spec) = AgentBy(spec, Len(spec.settings))
<1> DEFINE m == Len(spec.settings)
           after == CHOOSE f : f = [n \in 0..m |->
                      IF n = 0 THEN New(spec.provider, spec.key, spec.model, spec.env)
                      ELSE Configure(f[n - 1], spec.settings[n])]
           agents == [n \in 0..m |-> AgentBy(spec, n)]
<1>0. m \in Nat
  BY DEF AreSettings, IsSequence
<1>1. Recursion(spec, m, agents)
  BY BuiltExists
<1>2. Recursion(spec, m, after)
  <2>1. \E f : Recursion(spec, m, f)
    BY <1>1
  <2>2. \E f : f = [n \in 0..m |->
                      IF n = 0 THEN New(spec.provider, spec.key, spec.model, spec.env)
                      ELSE Configure(f[n - 1], spec.settings[n])]
    BY <2>1 DEF Recursion
  <2>3. after = [n \in 0..m |->
                      IF n = 0 THEN New(spec.provider, spec.key, spec.model, spec.env)
                      ELSE Configure(after[n - 1], spec.settings[n])]
    BY <2>2
  <2> HIDE DEF after
  <2> QED BY <2>3 DEF Recursion
<1>3. Built(spec) = after[m]
  BY DEF Built
<1> HIDE DEF after
<1>4. agents[m] = AgentBy(spec, m)
  BY <1>0
<1> HIDE DEF agents, m
<1>5. after[m] = agents[m]
  BY <1>0, <1>1, <1>2, BuiltOnly
<1> QED BY <1>3, <1>4, <1>5 DEF m

\* A setting that was given has a value of its type.
LEMMA SetTyped ==
  ASSUME NEW spec, NEW provider, AreSettings(provider, spec.settings),
         NEW name, NEW default,
         GivenUpTo(spec, name, Len(spec.settings)) # {}
  PROVE  SetBy(spec, name, Len(spec.settings), default) \in ValuesOf(name)
<1> DEFINE m == Len(spec.settings)
           given == GivenUpTo(spec, name, m)
           last == LastOf(given)
<1>1. m \in Nat /\ given \in SUBSET (1..m)
  BY DEF GivenUpTo, AreSettings, IsSequence
<1>2. last \in given
  BY <1>1, LastIn
<1>3. last \in 1..m /\ spec.settings[last].name = name
  BY <1>2 DEF GivenUpTo
<1>4. spec.settings[last].value \in ValuesOf(name)
  BY <1>3 DEF AreSettings, IsSequence
<1> QED BY <1>4 DEF SetBy

\* What the property says of the settings is what was computed along the calls.
LEMMA SaidOfSettings ==
  ASSUME NEW spec, NEW provider, AreSettings(provider, spec.settings)
  PROVE  LET m == Len(spec.settings)
         IN  /\ NamedBases(spec) = BasesUpTo(spec, m)
             /\ \A name, default : LastSet(spec, name, default) = SetBy(spec, name, m, default)
<1>1. DOMAIN spec.settings = 1..Len(spec.settings)
  BY DEF AreSettings, IsSequence
<1>2. NamedBases(spec) = BasesUpTo(spec, Len(spec.settings))
  BY <1>1 DEF NamedBases, BasesUpTo
<1>3. ASSUME NEW name, NEW default
      PROVE  LastSet(spec, name, default) = SetBy(spec, name, Len(spec.settings), default)
  <2>1. {i \in DOMAIN spec.settings : spec.settings[i].name = name} =
          GivenUpTo(spec, name, Len(spec.settings))
    BY <1>1 DEF GivenUpTo
  <2> QED BY <2>1 DEF LastSet, SetBy
<1> QED BY <1>2, <1>3

-----------------------------------------------------------------------------
(* The registries of a builder.                                             *)

\* The places among the first n of the calls of a kind.
OfKind(calls, kind, n) == {i \in 1..n : calls[i].kind = kind}

\* And of one id.
OfId(calls, kind, id, n) == {i \in 1..n : calls[i].kind = kind /\ calls[i].id = id}

\* A registry after n calls: what came last under each id.
RegistryBy(calls, kind, n) ==
  [id \in {calls[i].id : i \in OfKind(calls, kind, n)} |->
     calls[LastOf(OfId(calls, kind, id, n))].value]

\* A field after n calls: what came last.
FieldBy(calls, kind, n) ==
  IF OfKind(calls, kind, n) = {} THEN <<>>
  ELSE <<calls[LastOf(OfKind(calls, kind, n))].value>>

\* A builder by its fields.
BuilderWith(agents, tools, channels, memory, policy, iters) ==
  [agents |-> agents, tools |-> tools, channels |-> channels,
   memory |-> memory, policy |-> policy, maxToolIters |-> iters]

\* The builder after n calls.
BuilderBy(calls, n) ==
  BuilderWith(RegistryBy(calls, "agent", n), RegistryBy(calls, "tool", n),
              RegistryBy(calls, "channel", n), FieldBy(calls, "memory", n),
              FieldBy(calls, "permission_policy", n), FieldBy(calls, "max_tool_iters", n))

\* A call of another kind leaves a registry and a field alone.
LEMMA OtherKind ==
  ASSUME NEW calls, NEW n \in Nat, NEW kind, calls[n + 1].kind # kind
  PROVE  /\ RegistryBy(calls, kind, n + 1) = RegistryBy(calls, kind, n)
         /\ FieldBy(calls, kind, n + 1) = FieldBy(calls, kind, n)
<1>1. OfKind(calls, kind, n + 1) = OfKind(calls, kind, n)
  BY DEF OfKind
<1>2. \A id : OfId(calls, kind, id, n + 1) = OfId(calls, kind, id, n)
  BY DEF OfId
<1>3. FieldBy(calls, kind, n + 1) = FieldBy(calls, kind, n)
  BY <1>1 DEF FieldBy
<1>4. RegistryBy(calls, kind, n + 1) = RegistryBy(calls, kind, n)
  BY <1>1, <1>2 DEF RegistryBy
<1> QED BY <1>3, <1>4

\* A call of the kind sets the field, and is inserted into the registry.
LEMMA SameKind ==
  ASSUME NEW calls, NEW n \in Nat, NEW kind, calls[n + 1].kind = kind
  PROVE  /\ FieldBy(calls, kind, n + 1) = <<calls[n + 1].value>>
         /\ RegistryBy(calls, kind, n + 1) =
              Insert(RegistryBy(calls, kind, n), calls[n + 1].id, calls[n + 1].value)
<1>1. FieldBy(calls, kind, n + 1) = <<calls[n + 1].value>>
  <2>1. OfKind(calls, kind, n + 1) \in SUBSET (1..(n + 1)) /\ n + 1 \in OfKind(calls, kind, n + 1)
    BY DEF OfKind
  <2>2. LastOf(OfKind(calls, kind, n + 1)) = n + 1
    BY <2>1, LastIsNew
  <2> QED BY <2>1, <2>2 DEF FieldBy
<1> DEFINE new == calls[n + 1].id
           before == {calls[i].id : i \in OfKind(calls, kind, n)}
           now == {calls[i].id : i \in OfKind(calls, kind, n + 1)}
<1>2. now = before \cup {new}
  <2>1. OfKind(calls, kind, n + 1) = OfKind(calls, kind, n) \cup {n + 1}
    BY DEF OfKind
  <2> QED BY <2>1
<1>3. LastOf(OfId(calls, kind, new, n + 1)) = n + 1
  <2>1. /\ OfId(calls, kind, new, n + 1) \in SUBSET (1..(n + 1))
        /\ n + 1 \in OfId(calls, kind, new, n + 1)
    BY DEF OfId
  <2> QED BY <2>1, LastIsNew
<1>4. \A id : id # new => OfId(calls, kind, id, n + 1) = OfId(calls, kind, id, n)
  BY DEF OfId
<1>5. DOMAIN RegistryBy(calls, kind, n) = before
  BY DEF RegistryBy
<1>6. \A id \in before : RegistryBy(calls, kind, n)[id] = calls[LastOf(OfId(calls, kind, id, n))].value
  BY DEF RegistryBy
<1>7. RegistryBy(calls, kind, n + 1) =
        [id \in now |-> calls[LastOf(OfId(calls, kind, id, n + 1))].value]
  BY DEF RegistryBy
<1>8. Insert(RegistryBy(calls, kind, n), new, calls[n + 1].value) =
        [id \in before \cup {new} |->
           IF id = new THEN calls[n + 1].value ELSE RegistryBy(calls, kind, n)[id]]
  BY <1>5 DEF Insert
<1> HIDE DEF new, before, now
<1>9. \A id \in now :
        calls[LastOf(OfId(calls, kind, id, n + 1))].value =
          IF id = new THEN calls[n + 1].value ELSE RegistryBy(calls, kind, n)[id]
  BY <1>2, <1>3, <1>4, <1>6
<1>10. RegistryBy(calls, kind, n + 1) =
         Insert(RegistryBy(calls, kind, n), new, calls[n + 1].value)
  BY <1>2, <1>7, <1>8, <1>9
<1> QED BY <1>1, <1>10 DEF new

\* The next call makes of the builder after n calls the one after n + 1.
LEMMA BuilderNext ==
  ASSUME NEW calls, NEW n \in Nat, calls[n + 1].kind \in Kinds
  PROVE  Register(BuilderBy(calls, n), calls[n + 1]) = BuilderBy(calls, n + 1)
<1> DEFINE call == calls[n + 1]
           agents == RegistryBy(calls, "agent", n)
           tools == RegistryBy(calls, "tool", n)
           channels == RegistryBy(calls, "channel", n)
           memory == FieldBy(calls, "memory", n)
           policy == FieldBy(calls, "permission_policy", n)
           iters == FieldBy(calls, "max_tool_iters", n)
           builder == BuilderBy(calls, n)
<1>1. BuilderBy(calls, n + 1) =
        BuilderWith(RegistryBy(calls, "agent", n + 1), RegistryBy(calls, "tool", n + 1),
                    RegistryBy(calls, "channel", n + 1), FieldBy(calls, "memory", n + 1),
                    FieldBy(calls, "permission_policy", n + 1),
                    FieldBy(calls, "max_tool_iters", n + 1))
  BY DEF BuilderBy
<1>2. builder = BuilderWith(agents, tools, channels, memory, policy, iters)
  BY DEF BuilderBy
<1>3. /\ RegistryBy(calls, "agent", n + 1) =
           IF call.kind = "agent" THEN Insert(agents, call.id, call.value) ELSE agents
      /\ RegistryBy(calls, "tool", n + 1) =
           IF call.kind = "tool" THEN Insert(tools, call.id, call.value) ELSE tools
      /\ RegistryBy(calls, "channel", n + 1) =
           IF call.kind = "channel" THEN Insert(channels, call.id, call.value) ELSE channels
      /\ FieldBy(calls, "memory", n + 1) =
           IF call.kind = "memory" THEN <<call.value>> ELSE memory
      /\ FieldBy(calls, "permission_policy", n + 1) =
           IF call.kind = "permission_policy" THEN <<call.value>> ELSE policy
      /\ FieldBy(calls, "max_tool_iters", n + 1) =
           IF call.kind = "max_tool_iters" THEN <<call.value>> ELSE iters
  BY SameKind, OtherKind
<1>4. call.kind \in Kinds
  OBVIOUS
<1>5. SUFFICES Register(builder, call) = BuilderBy(calls, n + 1)
  OBVIOUS
<1> HIDE DEF call, agents, tools, channels, memory, policy, iters, builder
<1>7. CASE call.kind = "agent"
  <2>1. Register(builder, call) =
          BuilderWith(Insert(agents, call.id, call.value),
                      tools, channels, memory, policy, iters)
    BY <1>2, <1>7 DEF Register, BuilderWith
  <2> QED BY <1>1, <1>3, <1>7, <2>1
<1>8. CASE call.kind = "tool"
  <2>1. Register(builder, call) =
          BuilderWith(agents, Insert(tools, call.id, call.value),
                      channels, memory, policy, iters)
    BY <1>2, <1>8 DEF Register, BuilderWith
  <2> QED BY <1>1, <1>3, <1>8, <2>1
<1>9. CASE call.kind = "channel"
  <2>1. Register(builder, call) =
          BuilderWith(agents, tools, Insert(channels, call.id, call.value),
                      memory, policy, iters)
    BY <1>2, <1>9 DEF Register, BuilderWith
  <2> QED BY <1>1, <1>3, <1>9, <2>1
<1>10. CASE call.kind = "memory"
  <2>1. Register(builder, call) =
          BuilderWith(agents, tools, channels, <<call.value>>, policy, iters)
    BY <1>2, <1>10 DEF Register, BuilderWith
  <2> QED BY <1>1, <1>3, <1>10, <2>1
<1>11. CASE call.kind = "permission_policy"
  <2>1. Register(builder, call) =
          BuilderWith(agents, tools, channels, memory, <<call.value>>, iters)
    BY <1>2, <1>11 DEF Register, BuilderWith
  <2> QED BY <1>1, <1>3, <1>11, <2>1
<1>12. CASE call.kind = "max_tool_iters"
  <2>1. Register(builder, call) =
          BuilderWith(agents, tools, channels, memory, policy, <<call.value>>)
    BY <1>2, <1>12 DEF Register, BuilderWith
  <2> QED BY <1>1, <1>3, <1>12, <2>1
<1> QED BY <1>4, <1>7, <1>8, <1>9, <1>10, <1>11, <1>12 DEF Kinds

\* A builder of no calls is empty.
LEMMA BuilderNone ==
  ASSUME NEW calls
  PROVE  BuilderBy(calls, 0) = Empty
<1>1. \A kind : OfKind(calls, kind, 0) = {}
  BY DEF OfKind
<1>2. \A kind : FieldBy(calls, kind, 0) = <<>>
  BY <1>1 DEF FieldBy
<1>3. ASSUME NEW kind PROVE RegistryBy(calls, kind, 0) = <<>>
  <2>1. {calls[i].id : i \in OfKind(calls, kind, 0)} = {}
    BY <1>1
  <2>2. RegistryBy(calls, kind, 0) =
          [id \in {} |-> calls[LastOf(OfId(calls, kind, id, 0))].value]
    BY <2>1 DEF RegistryBy
  <2>3. DOMAIN <<>> = {}
    OBVIOUS
  <2>4. <<>> = [id \in {} |-> calls[LastOf(OfId(calls, kind, id, 0))].value]
    BY <2>3
  <2> QED BY <2>2, <2>4
<1> QED BY <1>2, <1>3 DEF BuilderBy, BuilderWith, Empty

\* The values of the recursion of BuilderOf, up to m.
Registrations(calls, m, after) ==
  after = [n \in 0..m |-> IF n = 0 THEN Empty ELSE Register(after[n - 1], calls[n])]

\* There is no other recursion.
LEMMA BuilderOnly ==
  ASSUME NEW calls, NEW m \in Nat, NEW f, NEW g,
         Registrations(calls, m, f), Registrations(calls, m, g)
  PROVE  f[m] = g[m]
<1> DEFINE S == {n \in 0..m : f[n] = g[n]}
<1>1. 0 \in S
  BY DEF Registrations
<1>2. ASSUME NEW n \in 0..m, n \in S, n < m PROVE n + 1 \in S
  <2>1. n + 1 \in 0..m /\ n + 1 # 0 /\ (n + 1) - 1 = n
    BY <1>2
  <2>2. /\ f[n + 1] = Register(f[(n + 1) - 1], calls[n + 1])
        /\ g[n + 1] = Register(g[(n + 1) - 1], calls[n + 1])
    BY <2>1 DEF Registrations
  <2> QED BY <1>2, <2>1, <2>2
<1> HIDE DEF S
<1>3. 0..m \subseteq S
  BY <1>1, <1>2, Reached
<1>4. m \in S
  BY <1>3
<1> QED BY <1>4 DEF S

\* A builder holds what came last under each kind and id.
LEMMA BuilderIs ==
  ASSUME NEW calls, Len(calls) \in Nat, \A n \in 1..Len(calls) : calls[n].kind \in Kinds
  PROVE  BuilderOf(calls) = BuilderBy(calls, Len(calls))
<1> DEFINE m == Len(calls)
           after == CHOOSE f : f = [n \in 0..m |->
                      IF n = 0 THEN Empty ELSE Register(f[n - 1], calls[n])]
           builders == [n \in 0..m |-> BuilderBy(calls, n)]
<1>1. Registrations(calls, m, builders)
  <2>1. ASSUME NEW n \in 0..m
        PROVE  BuilderBy(calls, n) =
                 IF n = 0 THEN Empty ELSE Register(builders[n - 1], calls[n])
    <3>1. CASE n = 0
      BY <3>1, BuilderNone
    <3>2. CASE n # 0
      <4>1. n - 1 \in Nat /\ n - 1 \in 0..m /\ (n - 1) + 1 = n /\ n \in 1..m
        BY <3>2
      <4>2. calls[(n - 1) + 1].kind \in Kinds
        BY <4>1
      <4>3. Register(BuilderBy(calls, n - 1), calls[(n - 1) + 1]) = BuilderBy(calls, (n - 1) + 1)
        BY <4>1, <4>2, BuilderNext
      <4>4. builders[n - 1] = BuilderBy(calls, n - 1)
        BY <4>1
      <4> QED BY <3>2, <4>1, <4>3, <4>4
    <3> QED BY <3>1, <3>2
  <2>2. builders = [n \in 0..m |->
                      IF n = 0 THEN Empty ELSE Register(builders[n - 1], calls[n])]
    BY <2>1
  <2> QED BY <2>2 DEF Registrations
<1>2. Registrations(calls, m, after)
  <2>1. \E f : Registrations(calls, m, f)
    BY <1>1
  <2>2. \E f : f = [n \in 0..m |-> IF n = 0 THEN Empty ELSE Register(f[n - 1], calls[n])]
    BY <2>1 DEF Registrations
  <2>3. after = [n \in 0..m |-> IF n = 0 THEN Empty ELSE Register(after[n - 1], calls[n])]
    BY <2>2
  <2> HIDE DEF after
  <2> QED BY <2>3 DEF Registrations
<1>3. BuilderOf(calls) = after[m]
  BY DEF BuilderOf
<1> HIDE DEF after
<1>4. builders[m] = BuilderBy(calls, m)
  OBVIOUS
<1> HIDE DEF builders, m
<1>5. m \in Nat
  BY DEF m
<1>6. after[m] = builders[m]
  BY <1>1, <1>2, <1>5, BuilderOnly
<1> QED BY <1>3, <1>4, <1>6 DEF m

-----------------------------------------------------------------------------
(* What is registered when a host has made its calls.                       *)

\* What a host may call.
AreCalls(calls) ==
  IsSequence(calls) /\ \A i \in DOMAIN calls : IsBuilderCall(calls[i])

\* The places of a kind and an id, up to the last call, as the properties say it.
LEMMA SaidOfCalls ==
  ASSUME NEW calls, AreCalls(calls), host[1].calls = calls
  PROVE  LET m == Len(calls)
         IN  /\ \A kind, id : LastRegistered(kind, id) = calls[LastOf(OfId(calls, kind, id, m))].value
             /\ \A kind : Registered(kind) = {calls[i].id : i \in OfKind(calls, kind, m)}
<1>1. DOMAIN calls = 1..Len(calls)
  BY DEF AreCalls, IsSequence
<1>2. \A kind, id : {i \in DOMAIN calls : calls[i].kind = kind /\ calls[i].id = id} =
                      OfId(calls, kind, id, Len(calls))
  BY <1>1 DEF OfId
<1>3. \A kind : {i \in DOMAIN calls : calls[i].kind = kind} = OfKind(calls, kind, Len(calls))
  BY <1>1 DEF OfKind
<1> QED BY <1>2, <1>3 DEF LastRegistered, Registered

\* An agent the runtime finds is the one registered last under its id, and is
\* of that provider.
LEMMA FoundAgent ==
  ASSUME NEW calls, AreCalls(calls), host[1].calls = calls, NEW id,
         NEW order, Knows(Build(BuilderOf(calls), order), id)
  PROVE  /\ AgentFor(Build(BuilderOf(calls), order), id) = LastRegistered("agent", id)
         /\ id \in Providers
         /\ LastRegistered("agent", id).provider = id
         /\ AreSettings(id, LastRegistered("agent", id).settings)
<1> DEFINE m == Len(calls)
           manch0 == Build(BuilderOf(calls), order)
           at == OfId(calls, "agent", id, m)
<1>1. m \in Nat /\ DOMAIN calls = 1..m /\ \A n \in 1..m : IsBuilderCall(calls[n])
  BY DEF AreCalls, IsSequence
<1>2. BuilderOf(calls) = BuilderBy(calls, m)
  BY <1>1, BuilderIs DEF IsBuilderCall
<1>3. manch0.agents = RegistryBy(calls, "agent", m)
  BY <1>2 DEF Build, BuilderBy, BuilderWith
<1>4. id \in {calls[i].id : i \in OfKind(calls, "agent", m)}
  BY <1>3 DEF Knows, RegistryBy
<1>5. AgentFor(manch0, id) = calls[LastOf(at)].value
  BY <1>3, <1>4 DEF AgentFor, RegistryBy
<1>6. at # {} /\ at \in SUBSET (1..m)
  BY <1>4 DEF OfId, OfKind
<1>7. LastOf(at) \in at
  BY <1>1, <1>6, LastIn
<1>8. LastOf(at) \in 1..m /\ calls[LastOf(at)].kind = "agent" /\ calls[LastOf(at)].id = id
  BY <1>7 DEF OfId
<1>9. /\ id \in Providers /\ calls[LastOf(at)].value.provider = id
      /\ AreSettings(id, calls[LastOf(at)].value.settings)
  BY <1>1, <1>8 DEF IsBuilderCall
<1>10. LastRegistered("agent", id) = calls[LastOf(at)].value
  BY SaidOfCalls
<1> QED BY <1>5, <1>9, <1>10

-----------------------------------------------------------------------------
(* The request.                                                             *)

\* Without a base of its own, an agent goes where its variable or its vendor says.
LEMMA Resolved ==
  ASSUME NEW p, NEW env
  PROVE  ResolveBase(p, <<>>, env) =
           IF env[p] # <<>> /\ ~IsBlank(env[p][1]) THEN env[p][1].text ELSE p
BY DEF ResolveBase, PickBase, DefaultBase

\* A base given to the catalogue is the one asked, unless it is blank.
LEMMA ResolvedAsGiven ==
  ASSUME NEW p, NEW env, NEW given, ~IsBlank(given)
  PROVE  ResolveBase(p, <<given>>, env) = given.text
<1>1. <<given>> # <<>> /\ <<given>>[1] = given
  OBVIOUS
<1> QED BY <1>1 DEF ResolveBase, PickBase

\* The header a provider reads its key from.
HeaderOf(p) ==
  CASE p = "anthropic" -> "x-api-key" [] p = "gemini" -> "x-goog-api-key" [] OTHER -> "bearer"

\* What a request says of an agent.
Says(r, spec, base, cap, cache, effort, connect, read, context, tools) ==
  /\ r.client = [connect |-> connect, read |-> read]
  /\ r.cap = <<r.cap[1], cap>>
  /\ (r.cap[1] = "max_completion_tokens") <=> (spec.provider = "openai")
  /\ r.model = OrElse(spec.model, spec.provider)
  /\ r.url.base = base
  /\ r.key = spec.key
  /\ r.header = HeaderOf(spec.provider)
  /\ r.effort = IF spec.provider = "fireworks" THEN effort ELSE <<>>
  /\ \E schema : r.tools = ToolsJson(tools, schema)
  /\ spec.provider = "anthropic" =>
       /\ r.body.system = SystemParts(context)
       /\ r.body.cached = (cache /\ SystemParts(context) # <<>>)
  /\ spec.provider # "anthropic" => r.body.cached = FALSE

\* It says so in every dialect.
LEMMA RequestSays ==
  ASSUME NEW spec, spec.provider \in Providers, NEW base, NEW cap, NEW cache, NEW effort,
         NEW connect, NEW read, NEW retries, NEW context, NEW tools,
         NEW agent0, agent0 = AgentOf(spec, base, cap, cache, effort, Http(connect, read, retries)),
         NEW r, r = RequestOf(agent0, context, tools)
  PROVE  Says(r, spec, base, cap, cache, effort, connect, read, context, tools)
<1> DEFINE http == Http(connect, read, retries)
<1>1. http.client = [connect |-> connect, read |-> read]
  BY DEF Http
<1> HIDE DEF http
<1>2. /\ agent0.id = spec.provider /\ agent0.dialect = DialectOf(spec.provider)
      /\ agent0.key = spec.key /\ agent0.model = OrElse(spec.model, spec.provider)
      /\ agent0.base = base /\ agent0.cap = cap /\ agent0.cache = cache
      /\ agent0.effort = effort /\ agent0.http = http
  BY DEF AgentOf, http
<1>3. ASSUME NEW url, NEW header, NEW name, NEW asked, NEW tools0, NEW body
      PROVE  LET post == Post(agent0, url, header, name, asked, tools0, body)
             IN  /\ post.client = [connect |-> connect, read |-> read]
                 /\ post.cap = <<name, cap>> /\ post.cap[1] = name
                 /\ post.model = OrElse(spec.model, spec.provider)
                 /\ post.url = url /\ post.key = spec.key /\ post.header = header
                 /\ post.effort = asked /\ post.tools = tools0 /\ post.body = body
  BY <1>1, <1>2 DEF Post
<1>4. \A path : Url(base, path).base = base
  BY DEF Url
<1>5. CASE spec.provider = "anthropic"
  <2>1. agent0.dialect = "anthropic"
    BY <1>2, <1>5 DEF DialectOf
  <2>2. r = Post(agent0, MessagesUrl(base), "x-api-key", "max_tokens", <<>>,
                 ToolsJson(tools, "input_schema"), AnthropicBody(context, cache))
    BY <1>2, <2>1 DEF RequestOf, AnthropicPost
  <2>3. /\ AnthropicBody(context, cache).system = SystemParts(context)
        /\ AnthropicBody(context, cache).cached = (cache /\ SystemParts(context) # <<>>)
    BY DEF AnthropicBody
  <2>4. HeaderOf(spec.provider) = "x-api-key"
    BY <1>5 DEF HeaderOf
  <2>5. MessagesUrl(base).base = base
    BY <1>4 DEF MessagesUrl
  <2> QED BY <1>3, <1>5, <2>2, <2>3, <2>4, <2>5 DEF Says
<1>6. CASE spec.provider = "gemini"
  <2>1. agent0.dialect = "gemini"
    BY <1>2, <1>6 DEF DialectOf
  <2>2. r = Post(agent0, StreamUrl(base), "x-goog-api-key", "maxOutputTokens", <<>>,
                 ToolsJson(tools, "parameters"), GeminiBody(context))
    BY <1>2, <2>1 DEF RequestOf, GeminiPost
  <2>3. GeminiBody(context).cached = FALSE
    BY DEF GeminiBody
  <2>4. HeaderOf(spec.provider) = "x-goog-api-key"
    BY <1>6 DEF HeaderOf
  <2>5. StreamUrl(base).base = base
    BY <1>4 DEF StreamUrl
  <2> QED BY <1>3, <1>6, <2>2, <2>3, <2>4, <2>5 DEF Says
<1>7. CASE spec.provider \in {"openai", "fireworks"}
  <2>1. agent0.dialect = "openai"
    BY <1>2, <1>7 DEF DialectOf
  <2>2. r = Post(agent0, CompletionsUrl(base), "bearer",
                 IF spec.provider = "openai" THEN "max_completion_tokens" ELSE "max_tokens",
                 IF spec.provider = "openai" THEN <<>> ELSE effort,
                 ToolsJson(tools, "parameters"), OpenAiBody(context))
    BY <1>2, <2>1 DEF RequestOf, OpenAiPost
  <2>3. OpenAiBody(context).cached = FALSE
    BY DEF OpenAiBody
  <2>4. HeaderOf(spec.provider) = "bearer"
    BY <1>7 DEF HeaderOf
  <2>5. CompletionsUrl(base).base = base
    BY <1>4 DEF CompletionsUrl
  <2> QED BY <1>3, <1>7, <2>2, <2>3, <2>4, <2>5 DEF Says
<1> QED BY <1>5, <1>6, <1>7 DEF Providers

-----------------------------------------------------------------------------
(* The invariant.                                                           *)

\* The builder the host has filled.
Builder == BuilderOf(host[1].calls)

\* Until a request is posted, what the prompt has built so far is what its host
\* registered: the runtime is that of the builder calls, the agent the one it
\* has under the id asked for, and the request that agent's.
Ready ==
  /\ stage \in {"building", "handling", "encoding", "encoded"} => host \in {<<h>> : h \in Hosts}
  /\ stage \in {"handling", "encoding", "encoded"} =>
       /\ Buildable(Builder)
       /\ \E order \in Orders(Builder.tools) : manch = <<Build(Builder, order)>>
  /\ stage \in {"encoding", "encoded"} =>
       /\ Knows(manch[1], host[1].asks)
       /\ agent = <<Built(AgentFor(manch[1], host[1].asks))>>
  /\ stage = "encoded" => request = <<RequestOf(agent[1], turns, Schemas(manch[1]))>>

\* Nothing is built at first.
LEMMA ReadyInit == ByokInit => Ready
BY DEF ByokInit, Ready

\* Each step of the prompt builds on the one before.
LEMMA ReadyStep == Ready /\ [ByokNext]_<<vars, byokVars>> => Ready'
<1> SUFFICES ASSUME Ready, [ByokNext]_<<vars, byokVars>> PROVE Ready'
  OBVIOUS
<1>1. ASSUME UNCHANGED byokVars PROVE Ready'
  BY <1>1 DEF Ready, byokVars, Builder
<1>2. ASSUME Refuse PROVE Ready'
  <2>1. stage' = "refused"
    BY <1>2 DEF Refuse
  <2> QED BY <2>1 DEF Ready
<1>3. ASSUME BuildRuntime PROVE Ready'
  <2>1. CASE Refuse
    BY <1>2, <2>1
  <2>2. CASE /\ Buildable(Builder)
             /\ \E order \in Orders(Builder.tools) : manch' = <<Build(Builder, order)>>
             /\ stage' = "handling"
             /\ UNCHANGED <<host, agent, turns, request, vars>>
    <3>1. host' = host /\ stage = "building"
      BY <1>3, <2>2 DEF BuildRuntime
    <3>2. Builder' = Builder
      BY <3>1 DEF Builder
    <3> QED BY <2>2, <3>1, <3>2 DEF Ready
  <2> QED BY <1>3, <2>1, <2>2 DEF BuildRuntime, Builder
<1>4. ASSUME Handle PROVE Ready'
  <2>1. CASE Refuse
    BY <1>2, <2>1
  <2>2. CASE /\ Knows(manch[1], host[1].asks)
             /\ agent' = <<Built(AgentFor(manch[1], host[1].asks))>>
             /\ turns' = Context(host[1].log)
             /\ stage' = "encoding"
             /\ UNCHANGED <<host, manch, request, vars>>
    <3>1. host' = host /\ manch' = manch /\ stage = "handling"
      BY <1>4, <2>2 DEF Handle
    <3>2. Builder' = Builder
      BY <3>1 DEF Builder
    <3> QED BY <2>2, <3>1, <3>2 DEF Ready
  <2> QED BY <1>4, <2>1, <2>2 DEF Handle
<1>5. ASSUME RefuseContent PROVE Ready'
  BY <1>2, <1>5 DEF RefuseContent
<1>6. ASSUME BuildRequest PROVE Ready'
  <2>1. /\ stage = "encoding" /\ stage' = "encoded"
        /\ host' = host /\ manch' = manch /\ agent' = agent /\ turns' = turns
        /\ request' = <<RequestOf(agent[1], turns, Schemas(manch[1]))>>
    BY <1>6 DEF BuildRequest
  <2>2. Builder' = Builder
    BY <2>1 DEF Builder
  <2> QED BY <2>1, <2>2 DEF Ready
<1>7. ASSUME PostRequest PROVE Ready'
  <2>1. stage' = "posted"
    BY <1>7 DEF PostRequest
  <2> QED BY <2>1 DEF Ready
<1> QED BY <1>1, <1>3, <1>4, <1>5, <1>6, <1>7 DEF ByokNext, ByokProgress

-----------------------------------------------------------------------------
(* As configured.                                                           *)

\* What is known of a request that is built.
LEMMA RequestIs ==
  ASSUME Ready, stage = "encoded"
  PROVE  /\ host[1] \in Hosts
         /\ AreCalls(host[1].calls)
         /\ host[1].asks \in Providers
         /\ LastRegistered("agent", host[1].asks).provider = host[1].asks
         /\ AreSettings(host[1].asks, LastRegistered("agent", host[1].asks).settings)
         /\ agent = <<Built(LastRegistered("agent", host[1].asks))>>
         /\ \E order \in Orders(Builder.tools) : manch = <<Build(Builder, order)>>
         /\ Buildable(Builder)
         /\ request = <<RequestOf(agent[1], turns, Schemas(manch[1]))>>
<1>1. PICK h \in Hosts : host = <<h>>
  BY DEF Ready
<1>2. host[1] \in Hosts /\ AreCalls(host[1].calls)
  BY <1>1, HostsOK DEF AreCalls
<1>3. PICK order \in Orders(Builder.tools) : manch = <<Build(Builder, order)>>
  BY DEF Ready
<1>4. manch[1] = Build(BuilderOf(host[1].calls), order)
  BY <1>3 DEF Builder
<1>5. Knows(manch[1], host[1].asks) /\ agent = <<Built(AgentFor(manch[1], host[1].asks))>>
  BY DEF Ready
<1>6. /\ AgentFor(manch[1], host[1].asks) = LastRegistered("agent", host[1].asks)
      /\ host[1].asks \in Providers
      /\ LastRegistered("agent", host[1].asks).provider = host[1].asks
      /\ AreSettings(host[1].asks, LastRegistered("agent", host[1].asks).settings)
  <2> DEFINE calls == host[1].calls
             id == host[1].asks
  <2>1. /\ AreCalls(calls) /\ host[1].calls = calls
        /\ Knows(Build(BuilderOf(calls), order), id)
    BY <1>2, <1>4, <1>5
  <2>2. manch[1] = Build(BuilderOf(calls), order)
    BY <1>4
  <2> HIDE DEF calls, id
  <2>3. /\ AgentFor(Build(BuilderOf(calls), order), id) = LastRegistered("agent", id)
        /\ id \in Providers
        /\ LastRegistered("agent", id).provider = id
        /\ AreSettings(id, LastRegistered("agent", id).settings)
    BY <2>1, FoundAgent
  <2> QED BY <2>2, <2>3 DEF id
<1> QED BY <1>2, <1>3, <1>5, <1>6 DEF Ready

\* The request is the one configured.
LEMMA ReadyConfigured == Ready => AsConfigured
<1> DEFINE p == host[1].asks
           spec == LastRegistered("agent", p)
           m == Len(spec.settings)
           env == spec.env[p]
           budget == LastSet(spec, "compatible_reasoning_budget_tokens", 0)
           r == request[1]
           base == BaseBy(spec, m)
           connect == LastSet(spec, "connect_timeout", 10)
           read == LastSet(spec, "read_timeout", 120)
           retries == LastSet(spec, "max_retries", 2)
           cap == LastSet(spec, "max_output_tokens", 8192)
           cache == LastSet(spec, "cache_system_prompt", Caches)
           told == LastSet(spec, "cache_system_prompt", TRUE)
           effort == EffortBy(spec, m)
<1>0. SUFFICES ASSUME Ready, stage = "encoded"
               PROVE  ConfiguredBy(r, p, spec) /\ SameEndpoint(r, p, agent[1].base, spec.env)
  BY DEF AsConfigured
<1>1. /\ p \in Providers /\ agent = <<Built(spec)>>
      /\ spec.provider = p /\ AreSettings(p, spec.settings)
      /\ request = <<RequestOf(agent[1], turns, Schemas(manch[1]))>>
  BY <1>0, RequestIs
<1>2. spec.provider = p /\ AreSettings(p, spec.settings)
  BY <1>1
<1> HIDE DEF spec, p
<1>3. Built(spec) = AgentBy(spec, m)
  BY <1>1, <1>2, BuiltIs
<1>4. /\ NamedBases(spec) = BasesUpTo(spec, m)
      /\ \A name, default : LastSet(spec, name, default) = SetBy(spec, name, m, default)
  BY <1>2, SaidOfSettings
<1>5. AgentBy(spec, m) = AgentOf(spec, base, cap, cache, effort, Http(connect, read, retries))
  BY <1>4 DEF AgentBy, HttpBy
<1>6. agent[1] = AgentOf(spec, base, cap, cache, effort, Http(connect, read, retries))
  BY <1>1, <1>3, <1>5
<1>7. r = RequestOf(agent[1], turns, Schemas(manch[1]))
  BY <1>1
<1>8. base = IF NamedBases(spec) # {}
             THEN spec.settings[LastOf(NamedBases(spec))].value.text
             ELSE IF env # <<>> /\ ~IsBlank(env[1]) THEN env[1].text ELSE p
  BY <1>2, <1>4, Resolved DEF BaseBy
<1>9. p = "fireworks" => effort = IF budget # 0 THEN <<budget>> ELSE <<>>
  <2> DEFINE name == "compatible_reasoning_budget_tokens"
  <2>1. budget = SetBy(spec, name, m, 0)
    BY <1>4
  <2>2. CASE GivenUpTo(spec, name, m) = {}
    BY <2>1, <2>2 DEF EffortBy, SetBy
  <2>3. CASE GivenUpTo(spec, name, m) # {}
    <3>1. SetBy(spec, name, m, 0) \in ValuesOf(name)
      BY <1>2, <2>3, SetTyped
    <3>2. ValuesOf(name) = Nat \ {0}
      BY DEF ValuesOf
    <3>3. budget # 0
      BY <2>1, <3>1, <3>2
    <3> QED BY <2>1, <2>3, <3>3 DEF EffortBy
  <2> QED BY <2>2, <2>3
<1>10. cache = told /\ cache \in BOOLEAN
  <2> DEFINE name == "cache_system_prompt"
  <2>1. cache = told
    BY DEF Caches
  <2>2. cache = SetBy(spec, name, m, Caches)
    BY <1>4
  <2>3. CASE GivenUpTo(spec, name, m) = {}
    <3>1. SetBy(spec, name, m, Caches) = Caches
      BY <2>3 DEF SetBy
    <3>2. Caches \in BOOLEAN
      BY DEF Caches
    <3> QED BY <2>1, <2>2, <3>1, <3>2
  <2>4. CASE GivenUpTo(spec, name, m) # {}
    <3>1. SetBy(spec, name, m, Caches) \in ValuesOf(name)
      BY <1>2, <2>4, SetTyped
    <3>2. ValuesOf(name) = BOOLEAN
      BY DEF ValuesOf
    <3> QED BY <2>1, <2>2, <3>1, <3>2
  <2> QED BY <2>3, <2>4
<1>11. agent[1].base = base
  BY <1>6 DEF AgentOf
<1>12. Says(r, spec, base, cap, cache, effort, connect, read, turns, Schemas(manch[1]))
  <2> DEFINE agent0 == agent[1]
             tools == Schemas(manch[1])
  <2>1. /\ spec.provider \in Providers
        /\ agent0 = AgentOf(spec, base, cap, cache, effort, Http(connect, read, retries))
        /\ r = RequestOf(agent0, turns, tools)
    BY <1>1, <1>2, <1>6, <1>7
  <2> HIDE DEF agent0, tools, r, base, cap, cache, effort, connect, read, retries
  <2>2. Says(r, spec, base, cap, cache, effort, connect, read, turns, tools)
    BY <2>1, RequestSays
  <2> QED BY <2>2 DEF tools
<1> HIDE DEF r, base, cap, cache, told, effort, connect, read, retries, m, env, budget
<1>13. /\ r.client = [connect |-> connect, read |-> read]
       /\ r.cap = <<r.cap[1], cap>>
       /\ (r.cap[1] = "max_completion_tokens") = (p = "openai")
       /\ r.model = OrElse(spec.model, p)
       /\ r.url.base = base
       /\ r.key = spec.key
       /\ r.header = HeaderOf(p)
       /\ r.effort = IF p = "fireworks" THEN effort ELSE <<>>
  BY <1>2, <1>12 DEF Says
<1>14. r.body.cached = (p = "anthropic" /\ r.body.system # <<>> /\ told)
  <2>1. CASE p = "anthropic"
    <3>1. /\ r.body.system = SystemParts(turns)
          /\ r.body.cached = (cache /\ SystemParts(turns) # <<>>)
      BY <1>2, <1>12, <2>1 DEF Says
    <3>2. r.body.cached = (told /\ r.body.system # <<>>)
      BY <1>10, <3>1
    <3> QED BY <2>1, <3>2
  <2>2. CASE p # "anthropic"
    <3>1. r.body.cached = FALSE
      BY <1>2, <1>12, <2>2 DEF Says
    <3> QED BY <2>2, <3>1
  <2> QED BY <2>1, <2>2
<1>15. r.effort = IF p = "fireworks" /\ budget # 0 THEN <<budget>> ELSE <<>>
  BY <1>9, <1>13
<1>16. ConfiguredBy(r, p, spec)
  BY <1>8, <1>13, <1>14, <1>15 DEF ConfiguredBy, env, budget, told, cap, connect, read
<1>17. SameEndpoint(r, p, agent[1].base, spec.env)
  <2> DEFINE given == Given(base, 0)
             found == ResolveBase(p, <<given>>, spec.env)
             get == CatalogueRequest(p, r.key, <<Given(base, 0)>>, spec.env)
  <2>1. base # "" => found = base
    <3>1. given.text = base /\ (base # "" => ~IsBlank(given))
      BY DEF Given, IsBlank
    <3> HIDE DEF given
    <3>2. ~IsBlank(given) => found = given.text
      BY ResolvedAsGiven
    <3> QED BY <3>1, <3>2
  <2>2. get = Get(found, HeaderOf(p), r.key)
    BY <1>1 DEF CatalogueRequest, AnthropicCatalogue, GeminiCatalogue, OpenAiCatalogue,
                FireworksCatalogue, HeaderOf, Providers
  <2>3. SameEndpoint(r, p, base, spec.env) <=>
          (get.url.base = r.url.base \/ r.url.base = "") /\ get.header = r.header
    BY DEF SameEndpoint
  <2> HIDE DEF get, found
  <2>4. get.url.base = found /\ get.header = HeaderOf(p)
    BY <2>2 DEF Get, ModelsUrl, Url
  <2>5. (get.url.base = r.url.base \/ r.url.base = "") /\ get.header = r.header
    BY <1>13, <2>1, <2>4
  <2> QED BY <1>11, <2>3, <2>5
<1> QED BY <1>16, <1>17

-----------------------------------------------------------------------------
(* The tools offered.                                                       *)

\* There are finitely many ids.
LEMMA FiniteIds ==
  ASSUME NEW calls, NEW kind, NEW m \in Nat
  PROVE  IsFiniteSet({calls[i].id : i \in OfKind(calls, kind, m)})
<1> DEFINE places == OfKind(calls, kind, m)
           ids == {calls[i].id : i \in places}
           f == [i \in places |-> calls[i].id]
<1>1. places \in SUBSET (1..m)
  BY DEF OfKind
<1>2. IsFiniteSet(places)
  BY <1>1, FS_Interval, FS_Subset
<1> HIDE DEF places
<1>3. f \in Surjection(places, ids)
  BY DEF Surjection
<1> HIDE DEF f, ids
<1>4. IsFiniteSet(ids)
  BY <1>2, <1>3, FS_Surjection
<1> QED BY <1>4 DEF ids, places

\* An order of a finite map names each of its keys.
LEMMA OrderNamesAll ==
  ASSUME NEW map, IsFiniteSet(DOMAIN map), NEW order \in Orders(map)
  PROVE  /\ Cardinality(DOMAIN map) \in Nat
         /\ order \in [1..Cardinality(DOMAIN map) -> DOMAIN map]
         /\ {order[i] : i \in 1..Cardinality(DOMAIN map)} = DOMAIN map
<1> DEFINE keys == DOMAIN map
           n == Cardinality(keys)
           S == 1..n
<1>1. n \in Nat
  BY FS_CardinalityType
<1>2. order \in [S -> keys] /\ \A i, j \in S : order[i] = order[j] => i = j
  BY DEF Orders
<1> HIDE DEF keys, n
<1>3. order \in Injection(S, keys)
  BY <1>2 DEF Injection, IsInjective
<1>4. Cardinality(S) = n
  <2>1. Cardinality(S) = IF 1 > n THEN 0 ELSE n - 1 + 1
    BY <1>1, FS_Interval
  <2> QED BY <1>1, <2>1
<1>5. IsFiniteSet(keys)
  BY DEF keys
<1>6. Cardinality(S) = Cardinality(keys)
  BY <1>4 DEF n
<1> HIDE DEF S
<1>7. order \in Surjection(S, keys)
  BY <1>3, <1>5, <1>6, FS_Injection
<1>8. \A key \in keys : \E i \in S : order[i] = key
  BY <1>7 DEF Surjection
<1>9. {order[i] : i \in S} = keys
  BY <1>2, <1>8
<1> QED BY <1>1, <1>2, <1>9 DEF keys, n, S

\* A list of n tools, declared one by one, and an empty one not at all.
Declares(json, offered, n, tools) ==
  /\ (json = <<>>) <=> (n = 0)
  /\ Len(offered) = n
  /\ DOMAIN offered = 1..n
  /\ \A i \in 1..n : offered[i].name = tools[i]

\* That is what tools_json does.
LEMMA Declared ==
  ASSUME NEW X, NEW n \in Nat, NEW tools \in [1..n -> X], NEW schema,
         NEW json, json = ToolsJson(tools, schema),
         NEW offered, offered = IF json = <<>> THEN <<>> ELSE json[1]
  PROVE  Declares(json, offered, n, tools)
<1>1. CASE n = 0
  <2>1. tools = <<>>
    BY <1>1
  <2>2. json = <<>>
    BY <2>1 DEF ToolsJson
  <2> QED BY <1>1, <2>2 DEF Declares
<1>2. CASE n # 0
  <2>1. DOMAIN tools = 1..n /\ 1 \in 1..n /\ tools # <<>>
    BY <1>2
  <2> DEFINE list == [i \in 1..n |-> [name |-> tools[i], schema |-> schema]]
  <2>2. json = <<list>>
    BY <2>1 DEF ToolsJson
  <2>3. json # <<>> /\ json[1] = list
    BY <2>2
  <2>4. list \in [1..n -> {[name |-> tools[i], schema |-> schema] : i \in 1..n}]
    OBVIOUS
  <2>5. Len(list) = n /\ DOMAIN list = 1..n
    BY <2>4
  <2>6. \A i \in 1..n : list[i].name = tools[i]
    OBVIOUS
  <2> HIDE DEF list
  <2> QED BY <1>2, <2>3, <2>5, <2>6 DEF Declares
<1> QED BY <1>1, <1>2

\* The tools registered are offered.
LEMMA ReadyOffered == Ready => ToolsOffered
<1> DEFINE calls == host[1].calls
           m == Len(calls)
           p == host[1].asks
           spec == LastRegistered("agent", p)
           tools == request[1].tools
           names == Registered("tool")
           map == Builder.tools
           offered == IF tools = <<>> THEN <<>> ELSE tools[1]
<1>1. SUFFICES ASSUME Ready, stage = "encoded"
               PROVE  /\ (tools = <<>>) = (names = {})
                      /\ Len(offered) = Cardinality(names)
                      /\ {offered[i].name : i \in DOMAIN offered} =
                           {LastRegistered("tool", n) : n \in names}
                      /\ Registered("memory") # {}
                      /\ manch[1].maxToolIters > 0
  BY DEF ToolsOffered
<1>2. /\ AreCalls(calls) /\ p \in Providers
      /\ spec.provider = p /\ AreSettings(p, spec.settings)
      /\ agent = <<Built(spec)>> /\ Buildable(Builder)
      /\ request = <<RequestOf(agent[1], turns, Schemas(manch[1]))>>
  BY <1>1, RequestIs
<1>3. PICK order \in Orders(map) : manch = <<Build(Builder, order)>>
  BY <1>1, RequestIs
<1>4. m \in Nat /\ \A n \in 1..m : IsBuilderCall(calls[n])
  BY <1>2 DEF AreCalls, IsSequence
<1>5. Builder = BuilderBy(calls, m)
  BY <1>4, BuilderIs DEF IsBuilderCall, Builder
<1>6. /\ map = RegistryBy(calls, "tool", m)
      /\ Builder.memory = FieldBy(calls, "memory", m)
      /\ Builder.maxToolIters = FieldBy(calls, "max_tool_iters", m)
  BY <1>5 DEF BuilderBy, BuilderWith
<1>7. /\ \A kind, id : LastRegistered(kind, id) = calls[LastOf(OfId(calls, kind, id, m))].value
      /\ \A kind : Registered(kind) = {calls[i].id : i \in OfKind(calls, kind, m)}
  BY <1>2, SaidOfCalls
<1>8. /\ DOMAIN map = names
      /\ \A n \in names : map[n] = LastRegistered("tool", n)
  BY <1>6, <1>7 DEF RegistryBy
<1>9. Registered("memory") # {}
  <2>1. FieldBy(calls, "memory", m) # <<>>
    BY <1>2, <1>6 DEF Buildable
  <2>2. OfKind(calls, "memory", m) # {}
    BY <2>1 DEF FieldBy
  <2> QED BY <1>7, <2>2
<1>10. manch[1].maxToolIters > 0
  <2> DEFINE iters == Builder.maxToolIters
             at == OfKind(calls, "max_tool_iters", m)
  <2>1. manch[1].maxToolIters = Budget(Builder) /\ Budget(Builder) # 0
    BY <1>2, <1>3 DEF Build, Buildable
  <2>2. Budget(Builder) = IF iters = <<>> THEN 8 ELSE iters[1]
    BY DEF Budget, SetOr, DefaultMaxToolIters
  <2>3. CASE at = {}
    <3>1. iters = <<>>
      BY <1>6, <2>3 DEF FieldBy
    <3> QED BY <2>1, <2>2, <3>1
  <2>4. CASE at # {}
    <3>1. LastOf(at) \in at
      <4>1. at \in SUBSET (1..m)
        BY DEF OfKind
      <4> QED BY <1>4, <2>4, <4>1, LastIn
    <3>2. LastOf(at) \in 1..m /\ calls[LastOf(at)].kind = "max_tool_iters"
      BY <3>1 DEF OfKind
    <3>3. calls[LastOf(at)].value \in Nat
      BY <1>4, <3>2 DEF IsBuilderCall
    <3>4. iters = <<calls[LastOf(at)].value>>
      BY <1>6, <2>4 DEF FieldBy
    <3>5. Budget(Builder) = calls[LastOf(at)].value
      BY <2>2, <3>4
    <3> QED BY <2>1, <3>3, <3>5
  <2> QED BY <2>3, <2>4
<1>11. IsFiniteSet(names)
  <2>1. IsFiniteSet({calls[i].id : i \in OfKind(calls, "tool", m)})
    BY <1>4, FiniteIds
  <2> QED BY <1>7, <2>1
<1> DEFINE size == Cardinality(names)
<1>12. /\ size \in Nat /\ order \in [1..size -> names]
       /\ {order[i] : i \in 1..size} = names
  BY <1>3, <1>8, <1>11, OrderNamesAll
<1> DEFINE schemas == Schemas(manch[1])
<1>13. schemas = [i \in 1..size |-> map[order[i]]]
  <2>1. manch[1].order = order /\ manch[1].tools = map
    BY <1>3 DEF Build
  <2>2. DOMAIN order = 1..size
    BY <1>12
  <2> QED BY <2>1, <2>2 DEF Schemas
<1>14. PICK schema : tools = ToolsJson(schemas, schema)
  <2> DEFINE n == Len(spec.settings)
             base == BaseBy(spec, n)
             cap == SetBy(spec, "max_output_tokens", n, 8192)
             cache == SetBy(spec, "cache_system_prompt", n, Caches)
             effort == EffortBy(spec, n)
             connect == SetBy(spec, "connect_timeout", n, 10)
             read == SetBy(spec, "read_timeout", n, 120)
             retries == SetBy(spec, "max_retries", n, 2)
             agent0 == agent[1]
             r == request[1]
  <2>1. spec.provider = p /\ AreSettings(p, spec.settings)
    BY <1>2
  <2>2. Built(spec) = AgentBy(spec, n)
    BY <1>2, <2>1, BuiltIs
  <2>3. /\ spec.provider \in Providers
        /\ agent0 = AgentOf(spec, base, cap, cache, effort, Http(connect, read, retries))
        /\ r = RequestOf(agent0, turns, schemas)
    BY <1>2, <2>1, <2>2 DEF AgentBy, HttpBy
  <2> HIDE DEF agent0, r, schemas, base, cap, cache, effort, connect, read, retries, spec
  <2>4. Says(r, spec, base, cap, cache, effort, connect, read, turns, schemas)
    BY <2>3, RequestSays
  <2>5. \E schema : r.tools = ToolsJson(schemas, schema)
    BY <2>4 DEF Says
  <2> QED BY <2>5 DEF r
<1> DEFINE X == {map[n] : n \in names}
<1> HIDE DEF schemas, size, names, map, tools, X
<1>15. schemas \in [1..size -> X] /\ \A i \in 1..size : schemas[i] = map[order[i]]
  BY <1>12, <1>13 DEF X
<1>16. /\ (tools = <<>>) <=> (size = 0)
       /\ Len(offered) = size
       /\ DOMAIN offered = 1..size
       /\ \A i \in 1..size : offered[i].name = schemas[i]
  <2>1. /\ size \in Nat /\ schemas \in [1..size -> X] /\ tools = ToolsJson(schemas, schema)
        /\ offered = IF tools = <<>> THEN <<>> ELSE tools[1]
    BY <1>12, <1>14, <1>15
  <2> HIDE DEF offered
  <2>2. Declares(tools, offered, size, schemas)
    BY <2>1, Declared
  <2> QED BY <2>2 DEF Declares
<1> HIDE DEF offered
<1>17. (size = 0) <=> (names = {})
  BY <1>11, FS_EmptySet DEF size
<1>18. {offered[i].name : i \in DOMAIN offered} = {LastRegistered("tool", n) : n \in names}
  <2>1. {offered[i].name : i \in DOMAIN offered} = {map[order[i]] : i \in 1..size}
    BY <1>15, <1>16
  <2>2. {map[order[i]] : i \in 1..size} = {map[n] : n \in names}
    BY <1>12
  <2>3. {map[n] : n \in names} = {LastRegistered("tool", n) : n \in names}
    BY <1>8
  <2> QED BY <2>1, <2>2, <2>3
<1> QED BY <1>9, <1>10, <1>16, <1>17, <1>18 DEF size

-----------------------------------------------------------------------------
(* Sequences joined: what Joined computes, by its recursion.                *)

\* The joins of the first parts, as the recursion has them.
Joins(parts, m, upto) ==
  upto = [n \in 0..m |-> IF n = 0 THEN <<>> ELSE upto[n - 1] \o parts[n]]

\* All the parts of a sequence, joined.
Whole(parts) == Joined(parts, Len(parts))

\* They are what the recursion says.
LEMMA JoinsAre ==
  ASSUME NEW parts, NEW m \in Nat, NEW upto, Joins(parts, m, upto)
  PROVE  /\ upto[0] = <<>>
         /\ \A n \in 1..m : upto[n] = upto[n - 1] \o parts[n]
<1>1. \A n \in 0..m : upto[n] = IF n = 0 THEN <<>> ELSE upto[n - 1] \o parts[n]
  BY DEF Joins
<1>2. 0 \in 0..m /\ \A n \in 1..m : n \in 0..m /\ n # 0
  OBVIOUS
<1> QED BY <1>1, <1>2

\* There are such joins.
LEMMA JoinsExist ==
  ASSUME NEW parts, NEW m \in Nat
  PROVE  \E upto : Joins(parts, m, upto)
<1> DEFINE S == {n \in 0..m : \E upto : Joins(parts, n, upto)}
<1>1. 0 \in S
  <2>1. Joins(parts, 0, [n \in 0..0 |-> <<>>])
    BY DEF Joins
  <2> QED BY <2>1
<1>2. ASSUME NEW n \in 0..m, n \in S, n < m PROVE n + 1 \in S
  <2>1. PICK upto : Joins(parts, n, upto)
    BY <1>2
  <2> DEFINE longer == [k \in 0..(n + 1) |-> IF k = n + 1 THEN upto[n] \o parts[n + 1] ELSE upto[k]]
  <2>2. upto = [k \in 0..n |-> IF k = 0 THEN <<>> ELSE upto[k - 1] \o parts[k]]
    BY <2>1 DEF Joins
  <2>3. \A k \in 0..(n + 1) : longer[k] = IF k = 0 THEN <<>> ELSE longer[k - 1] \o parts[k]
    <3> SUFFICES ASSUME NEW k \in 0..(n + 1)
                 PROVE  longer[k] = IF k = 0 THEN <<>> ELSE longer[k - 1] \o parts[k]
      OBVIOUS
    <3>1. CASE k = n + 1
      <4>1. longer[k] = upto[n] \o parts[k]
        BY <3>1
      <4>2. k # 0 /\ k - 1 \in 0..(n + 1) /\ k - 1 = n /\ k - 1 # n + 1
        BY <3>1
      <4>3. longer[k - 1] = upto[n]
        BY <4>2
      <4> QED BY <4>1, <4>2, <4>3
    <3>2. CASE k # n + 1
      <4>1. k \in 0..n /\ longer[k] = upto[k]
        BY <3>2
      <4>2. k # 0 => k - 1 \in 0..(n + 1) /\ k - 1 # n + 1
        BY <4>1
      <4>3. k # 0 => longer[k - 1] = upto[k - 1]
        BY <4>2
      <4>4. upto[k] = IF k = 0 THEN <<>> ELSE upto[k - 1] \o parts[k]
        BY <2>2, <4>1
      <4> QED BY <4>1, <4>3, <4>4
    <3> QED BY <3>1, <3>2
  <2>4. DOMAIN longer = 0..(n + 1) /\ longer = [k \in 0..(n + 1) |-> longer[k]]
    OBVIOUS
  <2> HIDE DEF longer
  <2>5. longer = [k \in 0..(n + 1) |-> IF k = 0 THEN <<>> ELSE longer[k - 1] \o parts[k]]
    BY <2>3, <2>4
  <2>6. Joins(parts, n + 1, longer)
    BY <2>5 DEF Joins
  <2>7. n + 1 \in 0..m
    BY <1>2
  <2> QED BY <2>6, <2>7
<1> HIDE DEF S
<1>3. 0..m \subseteq S
  BY <1>1, <1>2, Reached
<1>4. m \in S
  BY <1>3
<1> QED BY <1>4 DEF S

\* Joined is the last of them.
LEMMA JoinedIs ==
  ASSUME NEW parts, Len(parts) \in Nat
  PROVE  \E upto : Joins(parts, Len(parts), upto) /\ Whole(parts) = upto[Len(parts)]
<1> DEFINE upto == CHOOSE f : f = [n \in 0..Len(parts) |-> IF n = 0 THEN <<>> ELSE f[n - 1] \o parts[n]]
<1>2. \E f : f = [n \in 0..Len(parts) |-> IF n = 0 THEN <<>> ELSE f[n - 1] \o parts[n]]
  BY JoinsExist DEF Joins
<1>3. upto = [n \in 0..Len(parts) |-> IF n = 0 THEN <<>> ELSE upto[n - 1] \o parts[n]]
  BY <1>2
<1>4. Whole(parts) = upto[Len(parts)]
  BY DEF Joined, Whole
<1> HIDE DEF upto
<1>5. Joins(parts, Len(parts), upto)
  BY <1>3 DEF Joins
<1> QED BY <1>4, <1>5

\* Sequences that begin alike are joined alike that far.
LEMMA JoinsAgree ==
  ASSUME NEW s, NEW t, NEW k \in Nat, NEW m \in Nat, NEW n \in Nat, n <= k, n <= m,
         NEW f, Joins(s, k, f), NEW g, Joins(t, m, g),
         \A i \in 1..n : s[i] = t[i]
  PROVE  f[n] = g[n]
<1> DEFINE S == {i \in 0..n : f[i] = g[i]}
<1>1. /\ f[0] = <<>> /\ g[0] = <<>>
      /\ \A i \in 1..k : f[i] = f[i - 1] \o s[i]
      /\ \A i \in 1..m : g[i] = g[i - 1] \o t[i]
  BY JoinsAre
<1>2. 0 \in S
  BY <1>1
<1>3. ASSUME NEW i \in 0..n, i \in S, i < n PROVE i + 1 \in S
  <2>1. i + 1 \in 1..k /\ i + 1 \in 1..m /\ i + 1 \in 1..n /\ (i + 1) - 1 = i /\ i + 1 \in 0..n
    BY <1>3
  <2>2. f[i + 1] = f[i] \o s[i + 1] /\ g[i + 1] = g[i] \o t[i + 1]
    BY <1>1, <2>1
  <2> QED BY <1>3, <2>1, <2>2
<1> HIDE DEF S
<1>4. n \in S
  BY <1>2, <1>3, Reached
<1> QED BY <1>4 DEF S

\* No parts make nothing.
LEMMA JoinedNone == \A parts : Len(parts) = 0 => Whole(parts) = <<>>
<1> SUFFICES ASSUME NEW parts, Len(parts) = 0 PROVE Whole(parts) = <<>>
  OBVIOUS
<1>1. PICK upto : Joins(parts, Len(parts), upto) /\ Whole(parts) = upto[Len(parts)]
  BY JoinedIs
<1>2. Len(parts) \in Nat
  OBVIOUS
<1>3. upto[0] = <<>>
  BY <1>1, <1>2, JoinsAre
<1> QED BY <1>1, <1>3

\* A part at the end comes last.
LEMMA JoinedMore ==
  ASSUME NEW Q, NEW s \in Seq(Q), NEW x \in Q
  PROVE  Whole(Append(s, x)) = Whole(s) \o x
<1> DEFINE t == Append(s, x)
<1>1. /\ Len(t) = Len(s) + 1 /\ t[Len(s) + 1] = x
      /\ \A i \in 1..Len(s) : t[i] = s[i]
      /\ Len(s) \in Nat /\ Len(t) \in Nat
  OBVIOUS
<1> HIDE DEF t
<1>2. PICK f : Joins(s, Len(s), f) /\ Whole(s) = f[Len(s)]
  BY <1>1, JoinedIs
<1>3. PICK g : Joins(t, Len(t), g) /\ Whole(t) = g[Len(t)]
  BY <1>1, JoinedIs
<1>4. f[Len(s)] = g[Len(s)]
  <2>1. \A i \in 1..Len(s) : s[i] = t[i]
    BY <1>1
  <2>2. Len(s) <= Len(s) /\ Len(s) <= Len(t) /\ Len(s) \in Nat /\ Len(t) \in Nat
    BY <1>1
  <2> QED BY <1>2, <1>3, <2>1, <2>2, JoinsAgree
<1>5. g[Len(t)] = g[Len(t) - 1] \o t[Len(t)]
  <2>1. Len(t) \in 1..Len(t)
    BY <1>1
  <2>2. \A i \in 1..Len(t) : g[i] = g[i - 1] \o t[i]
    BY <1>1, <1>3, JoinsAre
  <2> QED BY <2>1, <2>2
<1>6. Len(t) - 1 = Len(s) /\ t[Len(t)] = x
  BY <1>1
<1>7. Whole(t) = Whole(s) \o x
  BY <1>2, <1>3, <1>4, <1>5, <1>6
<1> QED BY <1>7 DEF t

\* Induction along sequences, as a fact about sets: a set that holds the empty
\* one, and with each every longer by one, holds them all.
LEMMA EverySequence ==
  ASSUME NEW T, NEW P, <<>> \in P,
         \A s \in Seq(T) : s \in P => \A x \in T : Append(s, x) \in P
  PROVE  Seq(T) \subseteq P
<1> SUFFICES ASSUME NEW q \in Seq(T) PROVE q \in P
  OBVIOUS
<1> DEFINE S == {n \in 0..Len(q) : \A s \in Seq(T) : Len(s) = n => s \in P}
<1>1. 0 \in S
  <2>1. \A s \in Seq(T) : Len(s) = 0 => s = <<>>
    OBVIOUS
  <2> QED BY <2>1
<1>2. ASSUME NEW n \in 0..Len(q), n \in S, n < Len(q) PROVE n + 1 \in S
  <2>1. ASSUME NEW s \in Seq(T), Len(s) = n + 1 PROVE s \in P
    <3> DEFINE front == [i \in 1..n |-> s[i]]
    <3>1. n \in Nat /\ \A i \in 1..n : s[i] \in T
      BY <2>1
    <3>2. front \in Seq(T) /\ Len(front) = n
      BY <3>1
    <3>3. s[n + 1] \in T
      BY <2>1
    <3>4. s = Append(front, s[n + 1])
      BY <2>1, <3>1, <3>2, <3>3
    <3> HIDE DEF front
    <3>5. front \in P
      BY <1>2, <3>2
    <3>6. Append(front, s[n + 1]) \in P
      BY <3>2, <3>3, <3>5
    <3> QED BY <3>4, <3>6
  <2>2. n + 1 \in 0..Len(q)
    BY <1>2
  <2> QED BY <2>1, <2>2
<1> HIDE DEF S
<1>3. Len(q) \in Nat /\ Len(q) \in 0..Len(q)
  OBVIOUS
<1>4. Len(q) \in S
  BY <1>1, <1>2, <1>3, Reached
<1> QED BY <1>4 DEF S

\* Sequences of things make a sequence of them.
LEMMA JoinedTyped ==
  ASSUME NEW S, NEW parts \in Seq(Seq(S))
  PROVE  Whole(parts) \in Seq(S)
<1> DEFINE P == {p \in Seq(Seq(S)) : Whole(p) \in Seq(S)}
<1>1. <<>> \in P
  <2>1. Whole(<<>>) = <<>>
    BY JoinedNone
  <2>2. <<>> \in Seq(Seq(S)) /\ <<>> \in Seq(S)
    OBVIOUS
  <2>3. Whole(<<>>) \in Seq(S)
    BY <2>1, <2>2
  <2> QED BY <2>2, <2>3
<1>2. ASSUME NEW p \in Seq(Seq(S)), p \in P, NEW x \in Seq(S) PROVE Append(p, x) \in P
  <2>1. Whole(Append(p, x)) = Whole(p) \o x
    BY JoinedMore
  <2>2. Whole(p) \in Seq(S) /\ Append(p, x) \in Seq(Seq(S))
    BY <1>2
  <2>3. Whole(p) \o x \in Seq(S)
    BY <2>2
  <2> QED BY <2>1, <2>2, <2>3
<1> HIDE DEF P
<1>3. Seq(Seq(S)) \subseteq P
  BY <1>1, <1>2, EverySequence
<1> QED BY <1>3 DEF P

\* What is added on the right of a sequence is added on the right of the whole.
LEMMA Regroup ==
  ASSUME NEW S, NEW a \in Seq(S), NEW b \in Seq(S), NEW c \in Seq(S)
  PROVE  /\ (a \o b) \o c = a \o (b \o c)
         /\ a \o b \in Seq(S) /\ Len(a \o b) = Len(a) + Len(b)
         /\ a \o <<>> = a /\ <<>> \o a = a
<1>1. (a \o b) \o c = a \o (b \o c)
  BY ConcatAssociative
<1>2. a \o b \in Seq(S) /\ Len(a \o b) = Len(a) + Len(b)
  BY ConcatProperties
<1>3. a \o <<>> = a /\ <<>> \o a = a
  BY ConcatEmptySeq
<1> QED BY <1>1, <1>2, <1>3

\* Joins of two lists of parts, one after the other.
LEMMA JoinedBoth ==
  ASSUME NEW S, NEW a \in Seq(Seq(S)), NEW b \in Seq(Seq(S))
  PROVE  Whole(a \o b) = Whole(a) \o Whole(b)
<1> DEFINE P == {p \in Seq(Seq(S)) : Whole(a \o p) = Whole(a) \o Whole(p)}
<1>1. <<>> \in P
  <2>1. Whole(<<>>) = <<>> /\ <<>> \in Seq(Seq(S))
    BY JoinedNone
  <2>2. a \o <<>> = a
    BY Regroup, <2>1
  <2>3. Whole(a) \in Seq(S)
    BY JoinedTyped
  <2>4. Whole(a) \o <<>> = Whole(a)
    BY <2>3
  <2> QED BY <2>1, <2>2, <2>4
<1>2. ASSUME NEW p \in Seq(Seq(S)), p \in P, NEW x \in Seq(S) PROVE Append(p, x) \in P
  <2> DEFINE A == Whole(a)
             B == Whole(p)
             q == a \o p
  <2>1. Append(p, x) \in Seq(Seq(S)) /\ q \in Seq(Seq(S)) /\ a \o Append(p, x) = Append(q, x)
    OBVIOUS
  <2>2. A \in Seq(S) /\ B \in Seq(S)
    BY JoinedTyped
  <2>3. Whole(q) = A \o B
    BY <1>2
  <2> HIDE DEF q
  <2>4. Whole(Append(q, x)) = Whole(q) \o x
    BY <2>1, JoinedMore
  <2>5. Whole(Append(p, x)) = B \o x
    BY JoinedMore
  <2> HIDE DEF A, B
  <2>6. (A \o B) \o x = A \o (B \o x)
    BY <2>2, Regroup, SMTT(30)
  <2>7. Whole(a \o Append(p, x)) = A \o Whole(Append(p, x))
    BY <2>1, <2>3, <2>4, <2>5, <2>6
  <2> QED BY <2>1, <2>7 DEF A
<1> HIDE DEF P
<1>3. Seq(Seq(S)) \subseteq P
  BY <1>1, <1>2, EverySequence
<1> QED BY <1>3 DEF P

-----------------------------------------------------------------------------
(* What becomes of each element of a sequence.                              *)

\* A function along a sequence.
Mapped(s, g) == [i \in DOMAIN s |-> g[s[i]]]

\* A function that makes a sequence of each element, joined.
Each(s, g) == Joined(Mapped(s, g), Len(s))

\* g makes a sequence of us of each t.
Makes(g, T, U) == \A x \in T : g[x] \in Seq(U)

\* It is a sequence of its values.
LEMMA MappedTyped ==
  ASSUME NEW T, NEW U, NEW g, NEW s \in Seq(T), \A x \in T : g[x] \in U
  PROVE  Mapped(s, g) \in Seq(U) /\ Len(Mapped(s, g)) = Len(s)
BY DEF Mapped

\* An element at the end is mapped last.
LEMMA MappedMore ==
  ASSUME NEW T, NEW g, NEW s \in Seq(T), NEW x \in T
  PROVE  Mapped(Append(s, x), g) = Append(Mapped(s, g), g[x])
<1> DEFINE U == {g[y] : y \in T}
           t == Append(s, x)
           m == Mapped(s, g)
<1>1. t \in Seq(T) /\ Len(t) = Len(s) + 1 /\ t[Len(s) + 1] = x
      /\ (\A i \in 1..Len(s) : t[i] = s[i]) /\ Len(s) \in Nat
  OBVIOUS
<1>2. g[x] \in U /\ \A y \in T : g[y] \in U
  OBVIOUS
<1> HIDE DEF t, U
<1>3. m \in Seq(U) /\ Len(m) = Len(s) /\ Mapped(t, g) \in Seq(U) /\ Len(Mapped(t, g)) = Len(t)
  BY <1>1, <1>2, MappedTyped
<1>4. \A i \in 1..Len(s) : m[i] = g[s[i]]
  BY DEF Mapped
<1>5. \A i \in 1..Len(t) : Mapped(t, g)[i] = g[t[i]]
  BY <1>1 DEF Mapped
<1> HIDE DEF m
<1>6. Append(m, g[x]) \in Seq(U) /\ Len(Append(m, g[x])) = Len(s) + 1
      /\ \A i \in 1..(Len(s) + 1) : Append(m, g[x])[i] = g[t[i]]
  BY <1>1, <1>2, <1>3, <1>4
<1>7. Mapped(t, g) = Append(m, g[x])
  BY <1>1, <1>3, <1>5, <1>6, SeqEqual
<1> QED BY <1>7 DEF t, m

\* Nothing is made of nothing.
LEMMA EachNone == \A g : Mapped(<<>>, g) = <<>> /\ Each(<<>>, g) = <<>>
<1> SUFFICES ASSUME NEW g PROVE Mapped(<<>>, g) = <<>> /\ Each(<<>>, g) = <<>>
  OBVIOUS
<1>1. Mapped(<<>>, g) = <<>> /\ Len(<<>>) = 0
  BY DEF Mapped
<1> QED BY <1>1, JoinedNone DEF Each, Whole

\* What is made of an element at the end comes last.
LEMMA EachMore ==
  ASSUME NEW T, NEW g, NEW s \in Seq(T), NEW x \in T
  PROVE  Each(Append(s, x), g) = Each(s, g) \o g[x]
<1> DEFINE U == {g[y] : y \in T}
           m == Mapped(s, g)
<1>1. g[x] \in U /\ \A y \in T : g[y] \in U
  OBVIOUS
<1> HIDE DEF U
<1>2. m \in Seq(U) /\ Len(m) = Len(s) /\ Mapped(Append(s, x), g) = Append(m, g[x])
  BY <1>1, MappedTyped, MappedMore
<1> HIDE DEF m
<1>3. Whole(Append(m, g[x])) = Whole(m) \o g[x]
  BY <1>1, <1>2, JoinedMore
<1>4. Len(Append(m, g[x])) = Len(Append(s, x))
  BY <1>2
<1> QED BY <1>2, <1>3, <1>4 DEF Each, Whole, m

\* Sequences of things are joined to a sequence of them.
LEMMA EachTyped ==
  ASSUME NEW T, NEW U, NEW g, NEW s \in Seq(T), Makes(g, T, U)
  PROVE  Each(s, g) \in Seq(U)
<1>1. Mapped(s, g) \in Seq(Seq(U)) /\ Len(Mapped(s, g)) = Len(s)
  BY MappedTyped DEF Makes
<1> QED BY <1>1, JoinedTyped DEF Each, Whole

\* Elements that make nothing.
LEMMA EachNothing ==
  ASSUME NEW T, NEW g, NEW s \in Seq(T), \A i \in DOMAIN s : g[s[i]] = <<>>
  PROVE  Each(s, g) = <<>>
<1> DEFINE Q(p) == (\A i \in DOMAIN p : g[p[i]] = <<>>) => Each(p, g) = <<>>
           P == {p \in Seq(T) : Q(p)}
<1>1. <<>> \in P
  <2>1. <<>> \in Seq(T)
    OBVIOUS
  <2> QED BY <2>1, EachNone
<1>2. ASSUME NEW p \in Seq(T), p \in P, NEW x \in T PROVE Append(p, x) \in P
  <2>1. Append(p, x) \in Seq(T)
    OBVIOUS
  <2>2. ASSUME \A i \in DOMAIN Append(p, x) : g[Append(p, x)[i]] = <<>>
        PROVE  Each(Append(p, x), g) = <<>>
    <3>1. /\ \A i \in DOMAIN p : i \in DOMAIN Append(p, x) /\ Append(p, x)[i] = p[i]
          /\ Len(p) + 1 \in DOMAIN Append(p, x) /\ Append(p, x)[Len(p) + 1] = x
      OBVIOUS
    <3>2. Each(p, g) = <<>> /\ g[x] = <<>>
      BY <1>2, <2>2, <3>1
    <3>3. Each(Append(p, x), g) = Each(p, g) \o g[x]
      BY EachMore
    <3> QED BY <3>2, <3>3
  <2> QED BY <2>1, <2>2
<1> HIDE DEF P
<1>3. Seq(T) \subseteq P
  BY <1>1, <1>2, EverySequence
<1>4. s \in P
  BY <1>3
<1>5. Q(s)
  BY <1>4 DEF P
<1> QED BY <1>5

\* Elements that make a sequence of one are mapped.
LEMMA EachOne ==
  ASSUME NEW T, NEW g, NEW one, NEW s \in Seq(T), \A i \in DOMAIN s : g[s[i]] = <<one[s[i]]>>
  PROVE  Each(s, g) = Mapped(s, one)
<1> DEFINE Q(p) == (\A i \in DOMAIN p : g[p[i]] = <<one[p[i]]>>) => Each(p, g) = Mapped(p, one)
           P == {p \in Seq(T) : Q(p)}
           U == {one[y] : y \in T}
<1>1. <<>> \in P
  <2>1. <<>> \in Seq(T)
    OBVIOUS
  <2> QED BY <2>1, EachNone
<1>u. \A y \in T : one[y] \in U
  OBVIOUS
<1> HIDE DEF U
<1>2. ASSUME NEW p \in Seq(T), p \in P, NEW x \in T PROVE Append(p, x) \in P
  <2>1. Append(p, x) \in Seq(T)
    OBVIOUS
  <2>2. ASSUME \A i \in DOMAIN Append(p, x) : g[Append(p, x)[i]] = <<one[Append(p, x)[i]]>>
        PROVE  Each(Append(p, x), g) = Mapped(Append(p, x), one)
    <3>1. /\ \A i \in DOMAIN p : i \in DOMAIN Append(p, x) /\ Append(p, x)[i] = p[i]
          /\ Len(p) + 1 \in DOMAIN Append(p, x) /\ Append(p, x)[Len(p) + 1] = x
      OBVIOUS
    <3>2. Each(p, g) = Mapped(p, one) /\ g[x] = <<one[x]>>
      BY <1>2, <2>2, <3>1
    <3>3. Each(Append(p, x), g) = Each(p, g) \o g[x]
      BY EachMore
    <3> DEFINE m == Mapped(p, one)
               y == one[x]
    <3>4. Mapped(Append(p, x), one) = Append(m, y)
      BY MappedMore
    <3>5. m \in Seq(U) /\ y \in U
      BY <1>u, MappedTyped
    <3> HIDE DEF m, y
    <3>6. Append(m, y) = m \o <<y>>
      BY <3>5
    <3> QED BY <3>2, <3>3, <3>4, <3>6 DEF m, y
  <2> QED BY <2>1, <2>2
<1> HIDE DEF P
<1>3. Seq(T) \subseteq P
  BY <1>1, <1>2, EverySequence
<1>4. s \in P
  BY <1>3
<1>5. Q(s)
  BY <1>4 DEF P
<1> QED BY <1>5

\* Elements that stay are the sequence.
LEMMA EachKept ==
  ASSUME NEW T, NEW g, NEW s \in Seq(T), \A i \in DOMAIN s : g[s[i]] = <<s[i]>>
  PROVE  Each(s, g) = s
<1> DEFINE one == [x \in T |-> x]
<1>1. \A i \in DOMAIN s : g[s[i]] = <<one[s[i]]>>
  OBVIOUS
<1>2. Mapped(s, one) = s
  BY DEF Mapped
<1> HIDE DEF one
<1>3. Each(s, g) = Mapped(s, one)
  BY <1>1, EachOne
<1> QED BY <1>2, <1>3

\* Functions that agree on the elements.
LEMMA EachAlike ==
  ASSUME NEW s, NEW g, NEW h, \A i \in DOMAIN s : g[s[i]] = h[s[i]]
  PROVE  Each(s, g) = Each(s, h)
<1>1. Mapped(s, g) = Mapped(s, h)
  BY DEF Mapped
<1> QED BY <1>1 DEF Each

\* A function along two sequences, one after the other.
LEMMA EachBoth ==
  ASSUME NEW T, NEW U, NEW g, NEW a \in Seq(T), NEW b \in Seq(T), Makes(g, T, U)
  PROVE  Each(a \o b, g) = Each(a, g) \o Each(b, g)
<1> DEFINE P == {p \in Seq(T) : Each(a \o p, g) = Each(a, g) \o Each(p, g)}
           A == Each(a, g)
<1>a. A \in Seq(U)
  BY EachTyped
<1>1. <<>> \in P
  <2>1. <<>> \in Seq(T) /\ a \o <<>> = a
    OBVIOUS
  <2>2. Each(<<>>, g) = <<>>
    BY EachNone
  <2> HIDE DEF A
  <2>3. A \o <<>> = A
    BY <1>a
  <2> QED BY <2>1, <2>2, <2>3 DEF A
<1>2. ASSUME NEW p \in Seq(T), p \in P, NEW x \in T PROVE Append(p, x) \in P
  <2> DEFINE B == Each(p, g)
             q == a \o p
             c == g[x]
  <2>1. Append(p, x) \in Seq(T) /\ q \in Seq(T) /\ a \o Append(p, x) = Append(q, x)
    OBVIOUS
  <2>2. B \in Seq(U) /\ c \in Seq(U)
    BY EachTyped DEF Makes
  <2>3. Each(q, g) = A \o B
    BY <1>2
  <2> HIDE DEF q
  <2>4. Each(Append(q, x), g) = Each(q, g) \o c
    BY <2>1, EachMore
  <2>5. Each(Append(p, x), g) = B \o c
    BY EachMore
  <2> HIDE DEF A, B, c
  <2>6. (A \o B) \o c = A \o (B \o c)
    BY <1>a, <2>2, Regroup, SMTT(30)
  <2>7. Each(a \o Append(p, x), g) = A \o Each(Append(p, x), g)
    BY <2>1, <2>3, <2>4, <2>5, <2>6
  <2> QED BY <2>1, <2>7 DEF A
<1> HIDE DEF P
<1>3. Seq(T) \subseteq P
  BY <1>1, <1>2, EverySequence
<1> QED BY <1>3 DEF P

\* And along what was made of each of another.
LEMMA EachEach ==
  ASSUME NEW R, NEW T, NEW U, NEW f, NEW g, NEW h, NEW s \in Seq(R),
         Makes(f, R, T), Makes(g, T, U),
         \A x \in R : h[x] = Each(f[x], g)
  PROVE  Each(Each(s, f), g) = Each(s, h)
<1> DEFINE P == {p \in Seq(R) : Each(Each(p, f), g) = Each(p, h)}
<1>1. <<>> \in P
  <2>1. <<>> \in Seq(R)
    OBVIOUS
  <2> QED BY <2>1, EachNone
<1>2. ASSUME NEW p \in Seq(R), p \in P, NEW x \in R PROVE Append(p, x) \in P
  <2> DEFINE A == Each(p, f)
             c == f[x]
  <2>1. Append(p, x) \in Seq(R)
    OBVIOUS
  <2>2. A \in Seq(T) /\ c \in Seq(T)
    BY EachTyped DEF Makes
  <2>3. Each(Append(p, x), f) = A \o c
    BY EachMore
  <2>4. Each(Append(p, x), h) = Each(p, h) \o h[x]
    BY EachMore
  <2>5. Each(A, g) = Each(p, h) /\ h[x] = Each(c, g)
    BY <1>2
  <2> HIDE DEF A, c
  <2>6. Each(A \o c, g) = Each(A, g) \o Each(c, g)
    BY <2>2, EachBoth
  <2>7. Each(Each(Append(p, x), f), g) = Each(Append(p, x), h)
    BY <2>3, <2>4, <2>5, <2>6
  <2> QED BY <2>1, <2>7
<1> HIDE DEF P
<1>3. Seq(R) \subseteq P
  BY <1>1, <1>2, EverySequence
<1> QED BY <1>3 DEF P

\* What is made of one element.
LEMMA EachSingle ==
  ASSUME NEW T, NEW U, NEW g, NEW x \in T, g[x] \in Seq(U)
  PROVE  Each(<<x>>, g) = g[x]
<1>1. <<>> \in Seq(T) /\ Append(<<>>, x) = <<x>>
  OBVIOUS
<1>2. Each(Append(<<>>, x), g) = Each(<<>>, g) \o g[x]
  BY <1>1, EachMore
<1>3. <<>> \o g[x] = g[x]
  OBVIOUS
<1> QED BY <1>1, <1>2, <1>3, EachNone

\* The elements of a sequence that are in a set.
Within(s, T, A) == Each(s, [x \in T |-> IF x \in A THEN <<x>> ELSE <<>>])

\* They are elements of it.
LEMMA WithinTyped ==
  ASSUME NEW T, NEW A, NEW s \in Seq(T)
  PROVE  Within(s, T, A) \in Seq(T \cap A)
<1> DEFINE keep == [x \in T |-> IF x \in A THEN <<x>> ELSE <<>>]
<1>1. Makes(keep, T, T \cap A)
  <2>1. ASSUME NEW x \in T PROVE keep[x] \in Seq(T \cap A)
    <3>1. CASE x \in A
      <4>1. keep[x] = <<x>> /\ x \in T \cap A
        BY <3>1
      <4> HIDE DEF keep
      <4> QED BY <4>1
    <3>2. CASE x \notin A
      <4>1. keep[x] = <<>>
        BY <3>2
      <4> HIDE DEF keep
      <4> QED BY <4>1
    <3> QED BY <3>1, <3>2
  <2> QED BY <2>1 DEF Makes
<1> HIDE DEF keep
<1>2. Each(s, keep) \in Seq(T \cap A)
  BY <1>1, EachTyped
<1> QED BY <1>2 DEF Within, keep

\* What is made of each of them.
LEMMA EachWithin ==
  ASSUME NEW T, NEW U, NEW A, NEW g, NEW h, NEW s \in Seq(T), Makes(g, T, U),
         \A x \in T : h[x] = IF x \in A THEN g[x] ELSE <<>>
  PROVE  Each(Within(s, T, A), g) = Each(s, h)
<1> DEFINE keep == [x \in T |-> IF x \in A THEN <<x>> ELSE <<>>]
<1>1. Makes(keep, T, T)
  <2>1. ASSUME NEW x \in T PROVE keep[x] \in Seq(T)
    <3>1. CASE x \in A
      <4>1. keep[x] = <<x>>
        BY <3>1
      <4> HIDE DEF keep
      <4> QED BY <4>1
    <3>2. CASE x \notin A
      <4>1. keep[x] = <<>>
        BY <3>2
      <4> HIDE DEF keep
      <4> QED BY <4>1
    <3> QED BY <3>1, <3>2
  <2> QED BY <2>1 DEF Makes
<1>2. \A x \in T : h[x] = Each(keep[x], g)
  <2> SUFFICES ASSUME NEW x \in T PROVE h[x] = Each(keep[x], g)
    OBVIOUS
  <2>1. g[x] \in Seq(U)
    BY DEF Makes
  <2>2. Each(<<x>>, g) = g[x]
    BY <2>1, EachSingle
  <2>3. CASE x \in A
    <3>1. keep[x] = <<x>> /\ h[x] = g[x]
      BY <2>3
    <3> HIDE DEF keep
    <3> QED BY <2>2, <3>1
  <2>4. CASE x \notin A
    <3>1. keep[x] = <<>> /\ h[x] = <<>>
      BY <2>4
    <3> HIDE DEF keep
    <3> QED BY <3>1, EachNone
  <2> QED BY <2>3, <2>4
<1> HIDE DEF keep
<1>3. Each(Each(s, keep), g) = Each(s, h)
  BY <1>1, <1>2, EachEach
<1> QED BY <1>3 DEF Within, keep

\* Each of them stands in the sequence.
LEMMA WithinFrom ==
  ASSUME NEW T, NEW A, NEW s \in Seq(T)
  PROVE  Within(s, T, A) \in Seq({s[j] : j \in DOMAIN s} \cap A)
<1> DEFINE R == {s[j] : j \in DOMAIN s}
           keep == [x \in T |-> IF x \in A THEN <<x>> ELSE <<>>]
           less == [x \in R |-> IF x \in A THEN <<x>> ELSE <<>>]
<1>1. \A j \in DOMAIN s : s[j] \in R /\ s[j] \in T
  OBVIOUS
<1>2. s \in Seq(R)
  OBVIOUS
<1>3. \A j \in DOMAIN s : keep[s[j]] = less[s[j]]
  BY <1>1
<1> HIDE DEF keep, less, R
<1>4. Each(s, keep) = Each(s, less)
  BY <1>3, EachAlike
<1>5. Within(s, R, A) \in Seq(R \cap A)
  BY <1>2, WithinTyped
<1>6. Within(s, T, A) = Within(s, R, A)
  BY <1>4 DEF Within, keep, less
<1> QED BY <1>5, <1>6 DEF R

\* None is left out.
LEMMA WithinNone ==
  ASSUME NEW T, NEW A, NEW s \in Seq(T), Within(s, T, A) = <<>>
  PROVE  \A i \in DOMAIN s : s[i] \notin A
<1> DEFINE keep == [x \in T |-> IF x \in A THEN <<x>> ELSE <<>>]
           Q(p) == Each(p, keep) = <<>> => \A i \in DOMAIN p : p[i] \notin A
           P == {p \in Seq(T) : Q(p)}
<1>1. <<>> \in P
  OBVIOUS
<1>2. ASSUME NEW p \in Seq(T), p \in P, NEW x \in T PROVE Append(p, x) \in P
  <2>1. Append(p, x) \in Seq(T)
    OBVIOUS
  <2>2. ASSUME Each(Append(p, x), keep) = <<>>
        PROVE  \A i \in DOMAIN Append(p, x) : Append(p, x)[i] \notin A
    <3> DEFINE E == Each(p, keep)
               k == keep[x]
    <3>1. Each(Append(p, x), keep) = E \o k
      <4> HIDE DEF keep, P
      <4> QED BY EachMore
    <3>2. E \in Seq(T \cap A)
      BY WithinTyped DEF Within
    <3>3. CASE x \in A
      <4>1. k = <<x>> /\ x \in T \cap A
        BY <3>3
      <4> HIDE DEF E, k
      <4>2. Len(E \o k) = Len(E) + 1 /\ Len(E) \in Nat
        BY <3>2, <4>1
      <4>3. Len(<<>>) = 0
        OBVIOUS
      <4> QED BY <2>2, <3>1, <4>2, <4>3
    <3>4. CASE x \notin A
      <4>1. k = <<>>
        BY <3>4
      <4> HIDE DEF E, k
      <4>2. E \o k = E
        BY <3>2, <4>1
      <4>3. E = <<>>
        BY <2>2, <3>1, <4>2
      <4>4. \A i \in DOMAIN p : p[i] \notin A
        BY <1>2, <4>3 DEF E
      <4> HIDE <1>2
      <4> QED BY <3>4, <4>4
    <3> QED BY <3>3, <3>4
  <2> QED BY <2>1, <2>2
<1> HIDE DEF P, keep
<1>3. Seq(T) \subseteq P
  BY <1>1, <1>2, EverySequence
<1>4. Q(s)
  BY <1>3 DEF P
<1> QED BY <1>4 DEF Within, keep

-----------------------------------------------------------------------------
(* What is encoded: types.                                                  *)

\* What parts, messages and turns are made of.
WireParts ==
  [type : {"text", "image", "document", "inline", "call", "result"}, carries : Seq(Nat),
   mime : Words, id : Words, name : Words, meta : Words]

Messages == [role : {"user", "assistant", "system", "tool"}, parts : Seq(WireParts)]

Turns == [role : {"user", "assistant", "system"}, entries : Seq(LogEntries)]

\* What a part may say of its entries.
Describes(f) == f.mime \in Words /\ f.id \in Words /\ f.tool \in Words /\ f.meta \in Words

\* An entry describes itself, whatever is left out of it.
LEMMA Descriptions ==
  /\ Describes(NoEntry)
  /\ \A e \in LogEntries :
       /\ Describes(e)
       /\ Describes([e EXCEPT !.meta = Absent])
       /\ Describes([e EXCEPT !.id = Absent])
       /\ \A name \in Words : Describes([e EXCEPT !.id = Absent, !.tool = name])
<1>1. Absent \in Words
  BY DEF Words
<1>2. Describes(NoEntry)
  BY <1>1 DEF NoEntry, Block, Describes
<1>3. ASSUME NEW e \in LogEntries
      PROVE  /\ Describes(e)
             /\ Describes([e EXCEPT !.meta = Absent])
             /\ Describes([e EXCEPT !.id = Absent])
             /\ \A name \in Words : Describes([e EXCEPT !.id = Absent, !.tool = name])
  BY <1>1 DEF LogEntries, Describes
<1> QED BY <1>2, <1>3

\* Parts are parts.
LEMMA PartTyped ==
  ASSUME NEW type \in {"text", "image", "document", "inline", "call", "result"},
         NEW s \in Seq(LogEntries), NEW f, Describes(f)
  PROVE  WirePart(type, s, f) \in WireParts
<1>1. \A e \in LogEntries : e.n \in Nat
  BY DEF LogEntries
<1>2. \A i \in DOMAIN s : s[i] \in LogEntries
  OBVIOUS
<1> DEFINE carries == [i \in DOMAIN s |-> s[i].n]
<1>3. carries \in Seq(Nat)
  BY <1>1, <1>2
<1>4. WirePart(type, s, f) = [type |-> type, carries |-> carries, mime |-> f.mime,
                              id |-> f.id, name |-> f.tool, meta |-> f.meta]
  BY DEF WirePart
<1> HIDE DEF carries
<1> QED BY <1>3, <1>4 DEF WireParts, Describes

\* A part with one entry.
LEMMA OnePartTyped ==
  ASSUME NEW type \in {"text", "image", "document", "inline", "call", "result"},
         NEW e \in LogEntries, NEW f, Describes(f)
  PROVE  <<WirePart(type, <<e>>, f)>> \in Seq(WireParts)
<1>1. <<e>> \in Seq(LogEntries)
  OBVIOUS
<1> DEFINE part == WirePart(type, <<e>>, f)
<1>2. part \in WireParts
  BY <1>1, PartTyped
<1> HIDE DEF part
<1>3. <<part>> \in Seq(WireParts)
  BY <1>2
<1> QED BY <1>3 DEF part

\* The texts of a turn.
TextEntries == {e \in LogEntries : e.kind = "text"}

\* The text of a turn is made of its text entries.
LEMMA TextsAre ==
  ASSUME NEW t \in Turns
  PROVE  Texts(t) = Within(t.entries, LogEntries, TextEntries) /\ Texts(t) \in Seq(LogEntries)
<1> DEFINE keep == [x \in LogEntries |-> IF x \in TextEntries THEN <<x>> ELSE <<>>]
           s == t.entries
<1>1. s \in Seq(LogEntries)
  BY DEF Turns
<1>2. \A i \in DOMAIN s : (IF s[i].kind = "text" THEN <<s[i]>> ELSE <<>>) = keep[s[i]]
  BY <1>1 DEF TextEntries
<1> HIDE DEF keep
<1>3. [i \in DOMAIN s |-> IF s[i].kind = "text" THEN <<s[i]>> ELSE <<>>] = Mapped(s, keep)
  BY <1>2 DEF Mapped
<1>4. Texts(t) = Each(s, keep)
  BY <1>3 DEF Texts, Those, Over, Each
<1>5. Within(s, LogEntries, TextEntries) \in Seq(LogEntries \cap TextEntries)
  BY <1>1, WithinTyped
<1>6. Within(s, LogEntries, TextEntries) \in Seq(LogEntries)
  BY <1>5
<1> QED BY <1>4, <1>6 DEF Within, keep

\* It is a list of parts.
LEMMA TurnTextTyped ==
  ASSUME NEW t \in Turns
  PROVE  TurnText(t) \in Seq(WireParts)
<1> DEFINE part == WirePart("text", Texts(t), NoEntry)
<1>1. part \in WireParts
  BY TextsAre, Descriptions, PartTyped
<1>2. TurnText(t) = <<part>>
  BY DEF TurnText
<1> HIDE DEF part
<1> QED BY <1>1, <1>2

\* What Anthropic is told of an entry is a list of parts.
LEMMA EntryJsonTyped ==
  ASSUME NEW e \in LogEntries
  PROVE  EntryJson(e) \in Seq(WireParts)
<1> DEFINE f == [e EXCEPT !.meta = Absent]
<1>1. Describes(NoEntry) /\ Describes(e) /\ Describes(f)
  BY Descriptions
<1> HIDE DEF f
<1>3. /\ <<WirePart("text", <<e>>, NoEntry)>> \in Seq(WireParts)
      /\ <<WirePart("image", <<e>>, e)>> \in Seq(WireParts)
      /\ <<WirePart("document", <<e>>, e)>> \in Seq(WireParts)
      /\ <<WirePart("call", <<e>>, f)>> \in Seq(WireParts)
      /\ <<WirePart("result", <<e>>, e)>> \in Seq(WireParts)
      /\ <<>> \in Seq(WireParts)
  BY <1>1, OnePartTyped
<1> QED BY <1>3 DEF EntryJson, f

\* The calls of a turn under an id.
CallsWith(id) == {e \in LogEntries : e.kind = "call" /\ e.id = id}

\* The name of a result is that of a call of the turn before, or its id.
LEMMA NameTyped ==
  ASSUME NEW ts \in Seq(Turns), NEW i \in DOMAIN ts, NEW id \in Words
  PROVE  /\ ResolveToolName(ts, i, id) \in Words
         /\ \/ i # 1 /\ \E j \in DOMAIN ts[i - 1].entries :
                 /\ ts[i - 1].entries[j] \in CallsWith(id)
                 /\ ResolveToolName(ts, i, id) = ts[i - 1].entries[j].tool
            \/ /\ ResolveToolName(ts, i, id) = id
               /\ i # 1 => \A j \in DOMAIN ts[i - 1].entries :
                                ts[i - 1].entries[j] \notin CallsWith(id)
<1> DEFINE s == ts[i - 1].entries
           A == CallsWith(id)
           keep == [x \in LogEntries |-> IF x \in A THEN <<x>> ELSE <<>>]
           calls == Within(s, LogEntries, A)
<1>1. CASE i = 1
  <2>1. ResolveToolName(ts, i, id) = id
    BY <1>1 DEF ResolveToolName
  <2> QED BY <1>1, <2>1
<1>2. CASE i # 1
  <2>0. i - 1 \in DOMAIN ts
    BY <1>2
  <2>t. ts[i - 1] \in Turns
    BY <2>0
  <2>1. s \in Seq(LogEntries)
    BY <2>t DEF Turns
  <2>2. \A j \in DOMAIN s :
           (IF s[j].kind = "call" /\ s[j].id = id THEN <<s[j]>> ELSE <<>>) = keep[s[j]]
    BY <2>1 DEF CallsWith
  <2> HIDE DEF keep
  <2>3. [j \in DOMAIN s |-> IF s[j].kind = "call" /\ s[j].id = id THEN <<s[j]>> ELSE <<>>]
          = Mapped(s, keep)
    BY <2>2 DEF Mapped
  <2>4. calls = Each(s, keep)
    BY DEF Within, keep
  <2>5. ResolveToolName(ts, i, id) = IF calls = <<>> THEN id ELSE calls[1].tool
    BY <1>2, <2>3, <2>4 DEF ResolveToolName, Those, Over, Each
  <2>6. calls \in Seq({s[j] : j \in DOMAIN s} \cap A)
    BY <2>1, WithinFrom
  <2>7. calls = <<>> => \A j \in DOMAIN s : s[j] \notin A
    BY <2>1, WithinNone
  <2> HIDE DEF calls, s, A
  <2>8. CASE calls = <<>>
    BY <1>2, <2>5, <2>7, <2>8 DEF s, A
  <2>9. CASE calls # <<>>
    <3>1. calls[1] \in {s[j] : j \in DOMAIN s} \cap A
      BY <2>6, <2>9
    <3>2. PICK j \in DOMAIN s : calls[1] = s[j] /\ s[j] \in A
      BY <3>1
    <3>3. s[j] \in LogEntries
      BY <2>1
    <3>4. s[j].tool \in Words
      BY <3>3 DEF LogEntries
    <3>5. ResolveToolName(ts, i, id) = s[j].tool
      BY <2>5, <2>9, <3>2
    <3> QED BY <1>2, <3>2, <3>4, <3>5 DEF s, A
  <2> QED BY <2>8, <2>9
<1> QED BY <1>1, <1>2

\* So is what Gemini is told of it, wherever its turn stands.
LEMMA EntryPartTyped ==
  ASSUME NEW ts \in Seq(Turns), NEW i \in DOMAIN ts, NEW e \in LogEntries
  PROVE  EntryPart(e, ts, i) \in Seq(WireParts)
<1>0. e.id \in Words
  BY DEF LogEntries
<1>1. ResolveToolName(ts, i, e.id) \in Words
  BY <1>0, NameTyped
<1> DEFINE f == [e EXCEPT !.id = Absent]
           g == [e EXCEPT !.id = Absent, !.tool = ResolveToolName(ts, i, e.id)]
<1>2. Describes(NoEntry) /\ Describes(e) /\ Describes(f) /\ Describes(g)
  BY <1>1, Descriptions
<1> HIDE DEF f, g
<1>3. /\ <<WirePart("text", <<e>>, NoEntry)>> \in Seq(WireParts)
      /\ <<WirePart("inline", <<e>>, e)>> \in Seq(WireParts)
      /\ <<WirePart("call", <<e>>, f)>> \in Seq(WireParts)
      /\ <<WirePart("result", <<e>>, g)>> \in Seq(WireParts)
      /\ <<>> \in Seq(WireParts)
  BY <1>2, OnePartTyped
<1> QED BY <1>3 DEF EntryPart, f, g

\* So is what OpenAI is told of it.
LEMMA ContentPartTyped ==
  ASSUME NEW e \in LogEntries
  PROVE  ContentPart(e) \in Seq(WireParts)
<1>1. Describes(NoEntry) /\ Describes(e)
  BY Descriptions
<1>2. /\ <<WirePart("text", <<e>>, NoEntry)>> \in Seq(WireParts)
      /\ <<WirePart("image", <<e>>, e)>> \in Seq(WireParts)
      /\ <<>> \in Seq(WireParts)
  BY <1>1, OnePartTyped
<1> QED BY <1>2 DEF ContentPart

-----------------------------------------------------------------------------
(* What a turn becomes, as functions along its entries.                     *)

\* The parts of a call and the messages of a result, for OpenAI.
CallParts == [e \in LogEntries |-> <<WirePart("call", <<e>>, [e EXCEPT !.meta = Absent])>>]
ResultMessages == [e \in LogEntries |-> <<Message("tool", <<WirePart("result", <<e>>, e)>>)>>]

\* What each entry makes for each provider.
JsonOf == [e \in LogEntries |-> EntryJson(e)]
PartsOf(ts, i) == [e \in LogEntries |-> EntryPart(e, ts, i)]
BlocksOf == [e \in LogEntries |-> ContentPart(e)]
CallsOf == [e \in LogEntries |-> IF e.kind = "call" THEN CallParts[e] ELSE <<>>]
ResultsOf == [e \in LogEntries |-> IF e.kind = "result" THEN ResultMessages[e] ELSE <<>>]

\* Whatever a turn holds besides calls and results is text.
OnlyText(t) == \A i \in DOMAIN t.entries : IsBlock(t.entries[i]) => t.entries[i].kind = "text"

\* The functions make sequences of parts, and of messages.
LEMMA EntriesMake ==
  /\ Makes(JsonOf, LogEntries, WireParts)
  /\ Makes(BlocksOf, LogEntries, WireParts)
  /\ Makes(CallParts, LogEntries, WireParts)
  /\ Makes(CallsOf, LogEntries, WireParts)
  /\ Makes(ResultMessages, LogEntries, Messages)
  /\ Makes(ResultsOf, LogEntries, Messages)
  /\ \A ts \in Seq(Turns) : \A i \in DOMAIN ts : Makes(PartsOf(ts, i), LogEntries, WireParts)
<1>1. Makes(JsonOf, LogEntries, WireParts)
  BY EntryJsonTyped DEF JsonOf, Makes
<1>2. Makes(BlocksOf, LogEntries, WireParts)
  BY ContentPartTyped DEF BlocksOf, Makes
<1>3. ASSUME NEW ts \in Seq(Turns), NEW i \in DOMAIN ts
      PROVE  Makes(PartsOf(ts, i), LogEntries, WireParts)
  BY EntryPartTyped DEF PartsOf, Makes
<1>4. ASSUME NEW e \in LogEntries
      PROVE  CallParts[e] \in Seq(WireParts) /\ CallsOf[e] \in Seq(WireParts)
  <2> DEFINE f == [e EXCEPT !.meta = Absent]
  <2>1. Describes(f)
    BY Descriptions
  <2>2. CallParts[e] = <<WirePart("call", <<e>>, f)>>
    BY DEF CallParts
  <2> HIDE DEF f
  <2>3. <<WirePart("call", <<e>>, f)>> \in Seq(WireParts)
    BY <2>1, OnePartTyped
  <2>4. CallsOf[e] = CallParts[e] \/ CallsOf[e] = <<>>
    BY DEF CallsOf
  <2>5. <<>> \in Seq(WireParts)
    OBVIOUS
  <2> QED BY <2>2, <2>3, <2>4, <2>5
<1>5. ASSUME NEW e \in LogEntries
      PROVE  ResultMessages[e] \in Seq(Messages) /\ ResultsOf[e] \in Seq(Messages)
  <2> DEFINE parts == <<WirePart("result", <<e>>, e)>>
  <2>1. Describes(e)
    BY Descriptions
  <2>2. ResultMessages[e] = <<Message("tool", parts)>>
    BY DEF ResultMessages
  <2>3. parts \in Seq(WireParts)
    BY <2>1, OnePartTyped
  <2> HIDE DEF parts
  <2>4. Message("tool", parts) \in Messages
    BY <2>3 DEF Message, Messages
  <2>5. <<Message("tool", parts)>> \in Seq(Messages)
    BY <2>4
  <2>6. ResultsOf[e] = ResultMessages[e] \/ ResultsOf[e] = <<>>
    BY DEF ResultsOf
  <2>7. <<>> \in Seq(Messages)
    OBVIOUS
  <2> QED BY <2>2, <2>5, <2>6, <2>7
<1>6. Makes(CallParts, LogEntries, WireParts) /\ Makes(CallsOf, LogEntries, WireParts)
  BY <1>4 DEF Makes
<1>7. Makes(ResultMessages, LogEntries, Messages) /\ Makes(ResultsOf, LogEntries, Messages)
  BY <1>5 DEF Makes
<1> QED BY <1>1, <1>2, <1>3, <1>6, <1>7

\* The contents of a turn in the three dialects.
LEMMA ContentsAre ==
  ASSUME NEW t \in Turns
  PROVE  /\ AnthropicContent(t) = IF AllText(t) THEN TurnText(t) ELSE Each(t.entries, JsonOf)
         /\ OpenAiContent(t) = IF OnlyText(t) THEN TurnText(t) ELSE Each(t.entries, BlocksOf)
<1> DEFINE s == t.entries
<1>1. s \in Seq(LogEntries)
  BY DEF Turns
<1>2. [j \in DOMAIN s |-> EntryJson(s[j])] = Mapped(s, JsonOf)
  BY <1>1 DEF Mapped, JsonOf
<1>3. [j \in DOMAIN s |-> ContentPart(s[j])] = Mapped(s, BlocksOf)
  BY <1>1 DEF Mapped, BlocksOf
<1> QED BY <1>2, <1>3 DEF AnthropicContent, OpenAiContent, OnlyText, Over, Each

\* Gemini's content is what each entry of the turn makes, or the text in one.
LEMMA GeminiContentIs ==
  ASSUME NEW ts \in Seq(Turns), NEW i \in DOMAIN ts
  PROVE  GeminiContent(ts, i) =
           IF AllText(ts[i]) THEN TurnText(ts[i]) ELSE Each(ts[i].entries, PartsOf(ts, i))
<1> DEFINE s == ts[i].entries
<1>1. s \in Seq(LogEntries)
  <2>1. ts[i] \in Turns
    OBVIOUS
  <2> QED BY <2>1 DEF Turns
<1>2. [j \in DOMAIN s |-> EntryPart(s[j], ts, i)] = Mapped(s, PartsOf(ts, i))
  BY <1>1 DEF Mapped, PartsOf
<1> QED BY <1>2 DEF GeminiContent, Over, Each

\* The calls and the results of a turn.
LEMMA ToolsAre ==
  ASSUME NEW t \in Turns
  PROVE  /\ ToolCalls(t) = Each(t.entries, CallsOf)
         /\ ToolMessages(t) = Each(t.entries, ResultsOf)
<1> DEFINE s == t.entries
           C == {e \in LogEntries : e.kind = "call"}
           R == {e \in LogEntries : e.kind = "result"}
           ifCall == [x \in LogEntries |-> IF x \in C THEN <<x>> ELSE <<>>]
           ifResult == [x \in LogEntries |-> IF x \in R THEN <<x>> ELSE <<>>]
           calls == Within(s, LogEntries, C)
           results == Within(s, LogEntries, R)
<1>1. s \in Seq(LogEntries)
  BY DEF Turns
<1>2. /\ \A x \in LogEntries : CallsOf[x] = IF x \in C THEN CallParts[x] ELSE <<>>
      /\ \A x \in LogEntries : ResultsOf[x] = IF x \in R THEN ResultMessages[x] ELSE <<>>
  BY DEF CallsOf, ResultsOf
<1>3. /\ [j \in DOMAIN s |-> IF s[j].kind = "call" THEN <<s[j]>> ELSE <<>>] = Mapped(s, ifCall)
      /\ [j \in DOMAIN s |-> IF s[j].kind = "result" THEN <<s[j]>> ELSE <<>>] = Mapped(s, ifResult)
  BY <1>1 DEF Mapped
<1>4. calls = Each(s, ifCall) /\ results = Each(s, ifResult)
  BY DEF Within
<1> HIDE DEF ifCall, ifResult
<1>5. /\ Joined([j \in DOMAIN s |-> IF s[j].kind = "call" THEN <<s[j]>> ELSE <<>>], Len(s)) = calls
      /\ Joined([j \in DOMAIN s |-> IF s[j].kind = "result" THEN <<s[j]>> ELSE <<>>], Len(s)) = results
  BY <1>3, <1>4 DEF Each
<1>6. calls \in Seq(LogEntries \cap C) /\ results \in Seq(LogEntries \cap R)
  BY <1>1, WithinTyped
<1>7. Each(calls, CallParts) = Each(s, CallsOf)
  BY <1>1, <1>2, EntriesMake, EachWithin
<1>8. Each(results, ResultMessages) = Each(s, ResultsOf)
  BY <1>1, <1>2, EntriesMake, EachWithin
<1> HIDE DEF calls, results, s
<1>9. calls \in Seq(LogEntries) /\ results \in Seq(LogEntries)
  BY <1>6
<1>10. [j \in DOMAIN calls |-> <<WirePart("call", <<calls[j]>>, [calls[j] EXCEPT !.meta = Absent])>>]
         = Mapped(calls, CallParts)
  BY <1>9 DEF Mapped, CallParts
<1>11. [j \in DOMAIN results |-> <<Message("tool", <<WirePart("result", <<results[j]>>, results[j])>>)>>]
         = Mapped(results, ResultMessages)
  BY <1>9 DEF Mapped, ResultMessages
<1>12. ToolCalls(t) = Joined([j \in DOMAIN calls |-> <<WirePart("call", <<calls[j]>>, [calls[j] EXCEPT !.meta = Absent])>>], Len(calls))
  BY <1>5 DEF ToolCalls, Those, Over, s
<1>13. ToolMessages(t) = Joined([j \in DOMAIN results |-> <<Message("tool", <<WirePart("result", <<results[j]>>, results[j])>>)>>], Len(results))
  BY <1>5 DEF ToolMessages, Those, Over, s
<1> QED BY <1>7, <1>8, <1>10, <1>11, <1>12, <1>13 DEF Each, s

\* Contents are made of the parts of entries, and of texts.
LEMMA ContentsIn ==
  ASSUME NEW E \in SUBSET LogEntries, NEW P, NEW t \in Turns, t.entries \in Seq(E),
         TurnText(t) \in Seq(P)
  PROVE  /\ Makes(JsonOf, E, P) => AnthropicContent(t) \in Seq(P)
         /\ Makes(BlocksOf, E, P) => OpenAiContent(t) \in Seq(P)
         /\ Makes(CallsOf, E, P) => ToolCalls(t) \in Seq(P)
         /\ \A M : Makes(ResultsOf, E, M) => ToolMessages(t) \in Seq(M)
<1>1. ASSUME Makes(JsonOf, E, P) PROVE AnthropicContent(t) \in Seq(P)
  <2>1. Each(t.entries, JsonOf) \in Seq(P)
    BY <1>1, EachTyped
  <2> QED BY <2>1, ContentsAre
<1>2. ASSUME Makes(BlocksOf, E, P) PROVE OpenAiContent(t) \in Seq(P)
  <2>1. Each(t.entries, BlocksOf) \in Seq(P)
    BY <1>2, EachTyped
  <2> QED BY <2>1, ContentsAre
<1>3. ASSUME Makes(CallsOf, E, P) PROVE ToolCalls(t) \in Seq(P)
  <2>1. Each(t.entries, CallsOf) \in Seq(P)
    BY <1>3, EachTyped
  <2> QED BY <2>1, ToolsAre
<1>4. ASSUME NEW M, Makes(ResultsOf, E, M) PROVE ToolMessages(t) \in Seq(M)
  <2>1. Each(t.entries, ResultsOf) \in Seq(M)
    BY <1>4, EachTyped
  <2> QED BY <2>1, ToolsAre
<1> QED BY <1>1, <1>2, <1>3, <1>4

\* It is made of whatever the parts of the turn's entries are made of.
LEMMA GeminiContentIn ==
  ASSUME NEW E \in SUBSET LogEntries, NEW P, NEW ts \in Seq(Turns), NEW i \in DOMAIN ts,
         ts[i].entries \in Seq(E), TurnText(ts[i]) \in Seq(P), Makes(PartsOf(ts, i), E, P)
  PROVE  GeminiContent(ts, i) \in Seq(P)
<1>1. Each(ts[i].entries, PartsOf(ts, i)) \in Seq(P)
  BY EachTyped
<1> QED BY <1>1, GeminiContentIs

\* The messages of a turn, in order.
MessagesOf(d, ts, i) ==
  CASE d = "anthropic" -> <<Message(ts[i].role, AnthropicContent(ts[i]))>>
    [] d = "gemini" -> <<Message(ts[i].role, GeminiContent(ts, i))>>
    [] OTHER -> TurnMessages(ts[i])

\* What a body says turn by turn: the messages, and the system's part.
Encoded(d, ts) ==
  [i \in DOMAIN ts |-> IF IsSystem(ts[i]) THEN <<>> ELSE MessagesOf(d, ts, i)]
SystemSays(d, ts) ==
  [i \in DOMAIN ts |->
     IF ~IsSystem(ts[i]) THEN <<>>
     ELSE IF d = "openai" THEN Over(TurnMessages(ts[i]), LAMBDA m : m.parts)
     ELSE TurnText(ts[i])]

\* Messages made of parts in P.
MessagesIn(P) == [role : {"user", "assistant", "system", "tool"}, parts : Seq(P)]

\* A message holds what it is given.
LEMMA MessageIn ==
  ASSUME NEW P, NEW role \in {"user", "assistant", "system", "tool"}, NEW parts \in Seq(P)
  PROVE  Message(role, parts) \in MessagesIn(P) /\ <<Message(role, parts)>> \in Seq(MessagesIn(P))
BY DEF Message, MessagesIn

\* A turn in OpenAI's dialect.
LEMMA TurnMessagesIn ==
  ASSUME NEW E \in SUBSET LogEntries, NEW P, NEW t \in Turns, t.entries \in Seq(E),
         TurnText(t) \in Seq(P), Makes(BlocksOf, E, P), Makes(CallsOf, E, P),
         Makes(ResultsOf, E, MessagesIn(P))
  PROVE  TurnMessages(t) \in Seq(MessagesIn(P))
<1> DEFINE calls == ToolCalls(t)
           content == IF HasBlock(t) THEN OpenAiContent(t) ELSE <<>>
           results == ToolMessages(t)
           M == MessagesIn(P)
           one == Message("assistant", content \o calls)
           other == Message(t.role, content)
<1>1. calls \in Seq(P) /\ content \in Seq(P) /\ results \in Seq(M)
  <2>1. OpenAiContent(t) \in Seq(P) /\ <<>> \in Seq(P)
    BY ContentsIn
  <2> QED BY <2>1, ContentsIn
<1>2. t.role \in {"user", "assistant", "system", "tool"}
  BY DEF Turns
<1>3. TurnMessages(t) = IF calls # <<>> THEN <<one>> \o results
                        ELSE IF HasBlock(t) \/ results = <<>> THEN Append(results, other)
                        ELSE results
  BY DEF TurnMessages
<1> HIDE DEF calls, content, results
<1>4. content \o calls \in Seq(P)
  BY <1>1
<1>5. one \in M /\ other \in M
  BY <1>1, <1>2, <1>4, MessageIn
<1> HIDE DEF one, other, M
<1>6. <<one>> \o results \in Seq(M) /\ Append(results, other) \in Seq(M)
  BY <1>1, <1>5
<1> QED BY <1>1, <1>3, <1>6 DEF M

\* The messages of a turn.
LEMMA MessagesOfIn ==
  ASSUME NEW E \in SUBSET LogEntries, NEW P, NEW ts \in Seq(Turns), NEW i \in DOMAIN ts,
         NEW d, ts[i].entries \in Seq(E), TurnText(ts[i]) \in Seq(P),
         d = "anthropic" => Makes(JsonOf, E, P),
         d = "gemini" => Makes(PartsOf(ts, i), E, P),
         d \notin {"anthropic", "gemini"} =>
           Makes(BlocksOf, E, P) /\ Makes(CallsOf, E, P) /\ Makes(ResultsOf, E, MessagesIn(P))
  PROVE  MessagesOf(d, ts, i) \in Seq(MessagesIn(P))
<1> DEFINE t == ts[i]
<1>1. t \in Turns /\ t.role \in {"user", "assistant", "system", "tool"}
  <2>1. t \in Turns
    OBVIOUS
  <2> HIDE DEF t
  <2> QED BY <2>1 DEF Turns
<1>2. CASE d = "anthropic"
  <2>1. AnthropicContent(t) \in Seq(P)
    BY <1>1, <1>2, ContentsIn
  <2>2. <<Message(t.role, AnthropicContent(t))>> \in Seq(MessagesIn(P))
    BY <1>1, <2>1, MessageIn
  <2> QED BY <1>2, <2>2 DEF MessagesOf
<1>3. CASE d = "gemini"
  <2>1. GeminiContent(ts, i) \in Seq(P)
    BY <1>3, GeminiContentIn
  <2>2. <<Message(t.role, GeminiContent(ts, i))>> \in Seq(MessagesIn(P))
    BY <1>1, <2>1, MessageIn
  <2> QED BY <1>3, <2>2 DEF MessagesOf
<1>4. CASE d \notin {"anthropic", "gemini"}
  <2>1. TurnMessages(t) \in Seq(MessagesIn(P))
    BY <1>1, <1>4, TurnMessagesIn
  <2> QED BY <1>4, <2>1 DEF MessagesOf
<1> QED BY <1>2, <1>3, <1>4

\* Whatever the entries.
LEMMA EncodedTyped ==
  ASSUME NEW ts \in Seq(Turns), NEW d
  PROVE  /\ \A i \in DOMAIN ts : MessagesOf(d, ts, i) \in Seq(Messages)
         /\ \A t \in Turns : TurnMessages(t) \in Seq(Messages)
         /\ Encoded(d, ts) \in Seq(Seq(Messages)) /\ Len(Encoded(d, ts)) = Len(ts)
<1>1. Messages = MessagesIn(WireParts)
  BY DEF Messages, MessagesIn
<1>2. LogEntries \in SUBSET LogEntries
  OBVIOUS
<1>3. \A t \in Turns : t.entries \in Seq(LogEntries) /\ TurnText(t) \in Seq(WireParts)
  BY TurnTextTyped DEF Turns
<1>4. ASSUME NEW i \in DOMAIN ts PROVE MessagesOf(d, ts, i) \in Seq(Messages)
  <2>1. ts[i] \in Turns
    OBVIOUS
  <2>2. MessagesOf(d, ts, i) \in Seq(MessagesIn(WireParts))
    BY <1>1, <1>2, <1>3, <2>1, EntriesMake, MessagesOfIn
  <2> QED BY <1>1, <2>2
<1>5. ASSUME NEW t \in Turns PROVE TurnMessages(t) \in Seq(Messages)
  <2>1. TurnMessages(t) \in Seq(MessagesIn(WireParts))
    BY <1>1, <1>2, <1>3, EntriesMake, TurnMessagesIn
  <2> QED BY <1>1, <2>1
<1>6. \A i \in DOMAIN ts : Encoded(d, ts)[i] \in Seq(Messages)
  <2>1. <<>> \in Seq(Messages)
    OBVIOUS
  <2> QED BY <1>4, <2>1 DEF Encoded
<1>7. DOMAIN Encoded(d, ts) = 1..Len(ts) /\ Encoded(d, ts) = [i \in 1..Len(ts) |-> Encoded(d, ts)[i]]
  BY DEF Encoded
<1>8. Encoded(d, ts) \in Seq(Seq(Messages)) /\ Len(Encoded(d, ts)) = Len(ts)
  <2> DEFINE e == Encoded(d, ts)
             n == Len(ts)
             M == Seq(Messages)
  <2>1. n \in Nat /\ DOMAIN ts = 1..n
    OBVIOUS
  <2>3. DOMAIN e = 1..n /\ e = [i \in 1..n |-> e[i]]
    BY <1>7
  <2>4. \A i \in 1..n : e[i] \in M
    BY <1>6, <2>1
  <2> HIDE DEF e, n, M
  <2>2. e \in Seq(M) /\ Len(e) = n
    BY <2>1, <2>3, <2>4
  <2> QED BY <2>2 DEF e, n, M
<1> QED BY <1>4, <1>5, <1>8

\* The turns of the conversation and those of the system.
Spoken == {t \in Turns : ~IsSystem(t)}
Systems == {t \in Turns : IsSystem(t)}

\* Both are parted as the request builders do it.
LEMMA TurnsApart ==
  ASSUME NEW ts \in Seq(Turns)
  PROVE  /\ Conversational(ts) = Within(ts, Turns, Spoken)
         /\ Those(ts, IsSystem) = Within(ts, Turns, Systems)
         /\ Within(ts, Turns, Spoken) \in Seq(Turns)
         /\ Within(ts, Turns, Systems) \in Seq(Turns)
<1> DEFINE ifSpoken == [t \in Turns |-> IF t \in Spoken THEN <<t>> ELSE <<>>]
           ifSystem == [t \in Turns |-> IF t \in Systems THEN <<t>> ELSE <<>>]
           spoken == Within(ts, Turns, Spoken)
           systems == Within(ts, Turns, Systems)
<1>1. /\ [j \in DOMAIN ts |-> IF ~IsSystem(ts[j]) THEN <<ts[j]>> ELSE <<>>] = Mapped(ts, ifSpoken)
      /\ [j \in DOMAIN ts |-> IF IsSystem(ts[j]) THEN <<ts[j]>> ELSE <<>>] = Mapped(ts, ifSystem)
  BY DEF Mapped, Spoken, Systems
<1>2. spoken = Each(ts, ifSpoken) /\ systems = Each(ts, ifSystem)
  BY DEF Within
<1> HIDE DEF ifSpoken, ifSystem
<1>3. spoken \in Seq(Turns \cap Spoken) /\ systems \in Seq(Turns \cap Systems)
  BY WithinTyped
<1>4. Conversational(ts) = spoken /\ Those(ts, IsSystem) = systems
  BY <1>1, <1>2 DEF Conversational, Those, Over, Each
<1> HIDE DEF spoken, systems
<1>5. spoken \in Seq(Turns) /\ systems \in Seq(Turns)
  BY <1>3
<1> QED BY <1>4, <1>5 DEF spoken, systems

\* A body is its turns', one after the other.
LEMMA AnthropicIs ==
  ASSUME NEW ts \in Seq(Turns), NEW cache
  PROVE  AnthropicBody(ts, cache).messages = Whole(Encoded("anthropic", ts))
<1> DEFINE g == [t \in Turns |-> <<Message(t.role, AnthropicContent(t))>>]
           h == [t \in Turns |-> IF t \in Spoken THEN g[t] ELSE <<>>]
           spoken == Within(ts, Turns, Spoken)
<1>1. Makes(g, Turns, Messages)
  <2>1. ASSUME NEW t \in Turns PROVE g[t] \in Seq(Messages)
    <3>1. <<t>> \in Seq(Turns) /\ 1 \in DOMAIN <<t>> /\ <<t>>[1] = t
      OBVIOUS
    <3> DEFINE one == <<t>>
    <3> HIDE DEF one
    <3>2. MessagesOf("anthropic", one, 1) \in Seq(Messages)
      BY <3>1, EncodedTyped DEF one
    <3>3. MessagesOf("anthropic", one, 1) = <<Message(t.role, AnthropicContent(t))>>
      BY <3>1 DEF MessagesOf, one
    <3>4. g[t] = <<Message(t.role, AnthropicContent(t))>>
      OBVIOUS
    <3> QED BY <3>2, <3>3, <3>4
  <2> HIDE DEF g
  <2> QED BY <2>1 DEF Makes
<1>2. \A t \in Turns : h[t] = IF t \in Spoken THEN g[t] ELSE <<>>
  OBVIOUS
<1>3. spoken \in Seq(Turns) /\ Conversational(ts) = spoken
  BY TurnsApart
<1>4. Encoded("anthropic", ts) = Mapped(ts, h)
  BY DEF Encoded, MessagesOf, Mapped, Spoken
<1>5. [j \in DOMAIN spoken |-> <<Message(spoken[j].role, AnthropicContent(spoken[j]))>>] = Mapped(spoken, g)
  <2> HIDE DEF spoken
  <2> QED BY <1>3 DEF Mapped
<1> HIDE DEF g, h
<1>6. Each(spoken, g) = Each(ts, h)
  BY <1>1, <1>2, EachWithin
<1> HIDE DEF spoken
<1>7. AnthropicBody(ts, cache).messages
        = Joined([j \in DOMAIN spoken |-> <<Message(spoken[j].role, AnthropicContent(spoken[j]))>>], Len(spoken))
  BY <1>3 DEF AnthropicBody, Over
<1>8. Len(Encoded("anthropic", ts)) = Len(ts)
  BY EncodedTyped
<1> QED BY <1>4, <1>5, <1>6, <1>7, <1>8 DEF Each, Whole

\* Gemini's messages are the pieces of the turns, one after another.
LEMMA GeminiIs ==
  ASSUME NEW ts \in Seq(Turns)
  PROVE  GeminiBody(ts).messages = Whole(Encoded("gemini", ts))
<1> DEFINE places == [i \in DOMAIN ts |-> i]
<1>1. DOMAIN places = DOMAIN ts /\ Len(places) = Len(ts) /\ \A i \in DOMAIN ts : places[i] = i
  OBVIOUS
<1> HIDE DEF places
<1>2. [j \in DOMAIN places |-> IF IsSystem(ts[places[j]]) THEN <<>>
         ELSE <<Message(ts[places[j]].role, GeminiContent(ts, places[j]))>>] = Encoded("gemini", ts)
  BY <1>1 DEF Encoded, MessagesOf
<1>3. GeminiBody(ts).messages =
        Joined([j \in DOMAIN places |-> IF IsSystem(ts[places[j]]) THEN <<>>
                  ELSE <<Message(ts[places[j]].role, GeminiContent(ts, places[j]))>>], Len(places))
  BY DEF GeminiBody, Over, places
<1>4. Len(Encoded("gemini", ts)) = Len(ts)
  BY EncodedTyped
<1> QED BY <1>1, <1>2, <1>3, <1>4 DEF Whole

\* So are OpenAI's, with a tool message for each result.
LEMMA OpenAiIs ==
  ASSUME NEW ts \in Seq(Turns)
  PROVE  OpenAiBody(ts).messages = Whole(Encoded("openai", ts))
<1> DEFINE g == [t \in Turns |-> TurnMessages(t)]
           h == [t \in Turns |-> IF t \in Spoken THEN g[t] ELSE <<>>]
           spoken == Within(ts, Turns, Spoken)
<1>1. Makes(g, Turns, Messages)
  BY EncodedTyped DEF Makes
<1>2. \A t \in Turns : h[t] = IF t \in Spoken THEN g[t] ELSE <<>>
  OBVIOUS
<1>3. spoken \in Seq(Turns) /\ Conversational(ts) = spoken
  BY TurnsApart
<1>4. Encoded("openai", ts) = Mapped(ts, h)
  BY DEF Encoded, MessagesOf, Mapped, Spoken
<1>5. [j \in DOMAIN spoken |-> TurnMessages(spoken[j])] = Mapped(spoken, g)
  <2> HIDE DEF spoken
  <2> QED BY <1>3 DEF Mapped
<1> HIDE DEF g, h
<1>6. Each(spoken, g) = Each(ts, h)
  BY <1>1, <1>2, EachWithin
<1> HIDE DEF spoken
<1>7. OpenAiBody(ts).messages = Joined([j \in DOMAIN spoken |-> TurnMessages(spoken[j])], Len(spoken))
  BY <1>3 DEF OpenAiBody, Over
<1>8. Len(Encoded("openai", ts)) = Len(ts)
  BY EncodedTyped
<1> QED BY <1>4, <1>5, <1>6, <1>7, <1>8 DEF Each, Whole

\* The parts of messages.
PartsIn == [m \in Messages |-> m.parts]

\* And so is what the system said.
LEMMA SystemIs ==
  ASSUME NEW ts \in Seq(Turns), NEW d, d # "openai"
  PROVE  SystemParts(ts) = Whole(SystemSays(d, ts))
<1> DEFINE g == [t \in Turns |-> TurnText(t)]
           h == [t \in Turns |-> IF t \in Systems THEN g[t] ELSE <<>>]
           systems == Within(ts, Turns, Systems)
<1>1. Makes(g, Turns, WireParts)
  BY TurnTextTyped DEF Makes
<1>2. \A t \in Turns : h[t] = IF t \in Systems THEN g[t] ELSE <<>>
  OBVIOUS
<1>3. systems \in Seq(Turns) /\ Those(ts, IsSystem) = systems
  BY TurnsApart
<1>4. SystemSays(d, ts) = Mapped(ts, h)
  BY DEF SystemSays, Mapped, Systems
<1>5. [j \in DOMAIN systems |-> TurnText(systems[j])] = Mapped(systems, g)
  <2> HIDE DEF systems
  <2> QED BY <1>3 DEF Mapped
<1> HIDE DEF g, h
<1>6. Each(systems, g) = Each(ts, h)
  BY <1>1, <1>2, EachWithin
<1> HIDE DEF systems
<1>7. SystemParts(ts) = Joined([j \in DOMAIN systems |-> TurnText(systems[j])], Len(systems))
  BY <1>3 DEF SystemParts, Over
<1>8. Len(SystemSays(d, ts)) = Len(ts)
  BY DEF SystemSays
<1> QED BY <1>4, <1>5, <1>6, <1>7, <1>8 DEF Each, Whole

\* OpenAI's system slot is what the system's turns say, in order.
LEMMA OpenAiSystemIs ==
  ASSUME NEW ts \in Seq(Turns)
  PROVE  OpenAiBody(ts).system = Whole(SystemSays("openai", ts))
<1> DEFINE g == [t \in Turns |-> TurnMessages(t)]
           k == [t \in Turns |-> Each(g[t], PartsIn)]
           h == [t \in Turns |-> IF t \in Systems THEN k[t] ELSE <<>>]
           systems == Within(ts, Turns, Systems)
           said == Each(systems, g)
<1>1. Makes(g, Turns, Messages) /\ \A t \in Turns : g[t] \in Seq(Messages)
  BY EncodedTyped DEF Makes
<1>2. Makes(PartsIn, Messages, WireParts)
  BY DEF Makes, PartsIn, Messages
<1>k. \A t \in Turns : k[t] = Each(g[t], PartsIn)
  OBVIOUS
<1>3. Makes(k, Turns, WireParts)
  <2> HIDE DEF g, k
  <2>1. \A t \in Turns : Each(g[t], PartsIn) \in Seq(WireParts)
    BY <1>1, <1>2, EachTyped
  <2> QED BY <1>k, <2>1 DEF Makes
<1>4. \A t \in Turns : h[t] = IF t \in Systems THEN k[t] ELSE <<>>
  OBVIOUS
<1>5. systems \in Seq(Turns) /\ Those(ts, IsSystem) = systems
  BY TurnsApart
<1>6. \A t \in Turns : Over(TurnMessages(t), LAMBDA m : m.parts) = Each(g[t], PartsIn)
  <2> SUFFICES ASSUME NEW t \in Turns
               PROVE  Over(TurnMessages(t), LAMBDA m : m.parts) = Each(g[t], PartsIn)
    OBVIOUS
  <2> DEFINE q == TurnMessages(t)
  <2>1. q \in Seq(Messages) /\ g[t] = q
    BY EncodedTyped
  <2> HIDE DEF q
  <2>2. [j \in DOMAIN q |-> q[j].parts] = Mapped(q, PartsIn)
    BY <2>1 DEF Mapped, PartsIn
  <2>3. Over(TurnMessages(t), LAMBDA m : m.parts) = Joined([j \in DOMAIN q |-> q[j].parts], Len(q))
    BY DEF Over, q
  <2> QED BY <2>1, <2>2, <2>3 DEF Each
<1>7. SystemSays("openai", ts) = Mapped(ts, h)
  <2>1. ASSUME NEW i \in DOMAIN ts
        PROVE  (IF ~IsSystem(ts[i]) THEN <<>> ELSE Over(TurnMessages(ts[i]), LAMBDA m : m.parts)) = h[ts[i]]
    <3>1. ts[i] \in Turns
      OBVIOUS
    <3> HIDE DEF g
    <3>2. k[ts[i]] = Each(g[ts[i]], PartsIn)
      BY <1>k, <3>1
    <3>3. h[ts[i]] = IF ts[i] \in Systems THEN k[ts[i]] ELSE <<>>
      BY <3>1
    <3> HIDE DEF h, k
    <3>4. ts[i] \in Systems <=> IsSystem(ts[i])
      BY <3>1 DEF Systems
    <3> QED BY <1>6, <3>1, <3>2, <3>3, <3>4
  <2>2. SystemSays("openai", ts) =
          [i \in DOMAIN ts |-> IF ~IsSystem(ts[i]) THEN <<>> ELSE Over(TurnMessages(ts[i]), LAMBDA m : m.parts)]
    BY DEF SystemSays
  <2> HIDE DEF h
  <2> QED BY <2>1, <2>2 DEF Mapped
<1>8. [j \in DOMAIN systems |-> TurnMessages(systems[j])] = Mapped(systems, g)
  <2> HIDE DEF systems
  <2> QED BY <1>5 DEF Mapped
<1> HIDE DEF g, h, k
<1>9. Each(systems, k) = Each(ts, h)
  BY <1>3, <1>4, EachWithin
<1>10. Each(said, PartsIn) = Each(systems, k)
  BY <1>1, <1>2, <1>k, <1>5, EachEach
<1>11. said \in Seq(Messages)
  BY <1>1, <1>5, EachTyped
<1> HIDE DEF systems
<1>12. said = Joined([j \in DOMAIN systems |-> TurnMessages(systems[j])], Len(systems))
  BY <1>8 DEF Each
<1> HIDE DEF said
<1>13. [j \in DOMAIN said |-> said[j].parts] = Mapped(said, PartsIn)
  BY <1>11 DEF Mapped, PartsIn
<1>14. OpenAiBody(ts).system = Joined([j \in DOMAIN said |-> said[j].parts], Len(said))
  BY <1>5, <1>12 DEF OpenAiBody, Over
<1>15. Len(SystemSays("openai", ts)) = Len(ts)
  BY DEF SystemSays
<1> QED BY <1>7, <1>9, <1>10, <1>13, <1>14, <1>15 DEF Each, Whole

-----------------------------------------------------------------------------
(* The turns of a conversation, entry by entry.                             *)

\* What sequences are.
LEMMA SequenceIs ==
  ASSUME NEW T, NEW s \in Seq(T)
  PROVE  /\ Len(s) \in Nat /\ DOMAIN s = 1..Len(s)
         /\ \A k \in 1..Len(s) : s[k] \in T
         /\ (s = <<>>) <=> (Len(s) = 0)
OBVIOUS

\* A sequence over a set is one over any set that holds that set.
LEMMA SequenceIn ==
  ASSUME NEW S, NEW T, S \subseteq T, NEW s \in Seq(S)
  PROVE  s \in Seq(T)
OBVIOUS

\* What appending does to a sequence, place by place.
LEMMA AppendIs ==
  ASSUME NEW T, NEW s \in Seq(T), NEW x \in T
  PROVE  /\ Append(s, x) \in Seq(T) /\ Append(s, x) # <<>>
         /\ Len(Append(s, x)) = Len(s) + 1 /\ DOMAIN Append(s, x) = 1..(Len(s) + 1)
         /\ Append(s, x)[Len(s) + 1] = x /\ \A j \in 1..Len(s) : Append(s, x)[j] = s[j]
         /\ \A j \in DOMAIN Append(s, x) : j \in DOMAIN s \/ j = Len(s) + 1
<1> DEFINE a == Append(s, x)
           n == Len(s)
<1>1. a \in Seq(T) /\ a # <<>> /\ Len(a) = n + 1
  BY AppendProperties
<1>2. a[n + 1] = x /\ \A j \in 1..n : a[j] = s[j]
  BY AppendProperties
<1>3. n \in Nat /\ DOMAIN s = 1..n
  OBVIOUS
<1> HIDE DEF a, n
<1>4. DOMAIN a = 1..(n + 1)
  BY <1>1, <1>3
<1>5. \A j \in 1..(n + 1) : j \in 1..n \/ j = n + 1
  BY <1>3
<1> QED BY <1>1, <1>2, <1>3, <1>4, <1>5 DEF a, n

\* A function along 1..m.
IsList(f, m) == DOMAIN f = 1..m /\ f = [j \in 1..m |-> f[j]]

\* A sequence that is one element longer than another and begins with it.
LEMMA IsAppend ==
  ASSUME NEW T, NEW s \in Seq(T), NEW x \in T, NEW f, NEW m \in Nat, m = Len(s) + 1, IsList(f, m),
         f[m] = x, \A j \in 1..Len(s) : f[j] = s[j]
  PROVE  f = Append(s, x)
<1> DEFINE a == Append(s, x)
<1>1. a \in Seq(T) /\ Len(a) = m /\ DOMAIN a = 1..m /\ a[m] = x /\ \A j \in 1..Len(s) : a[j] = s[j]
  BY AppendIs
<1>2. \A j \in 1..m : j \in 1..Len(s) \/ j = m
  <2>1. Len(s) \in Nat
    OBVIOUS
  <2> QED BY <2>1
<1> HIDE DEF a
<1>3. a = [j \in 1..m |-> a[j]]
  BY <1>1
<1>4. \A j \in 1..m : a[j] = f[j]
  BY <1>1, <1>2
<1>5. a = f
  BY <1>3, <1>4 DEF IsList
<1> QED BY <1>5 DEF a

IsStart(log, i) == i = 1 \/ log[i].role # log[i - 1].role

\* Where turns start, and what the next entry adds to that.
StartsAt(log) == [j \in DOMAIN log |-> IF IsStart(log, j) THEN <<j>> ELSE <<>>]
Starts(log) == Joined(StartsAt(log), Len(log))
EndOf(log, k) == IF k = Len(Starts(log)) THEN Len(log) ELSE Starts(log)[k + 1] - 1
TurnAt(log, first, last) == [role |-> log[first].role, entries |-> SubSeq(log, first, last)]

\* Coalesced turns begin at the starts and end before the next.
LEMMA CoalescedIs ==
  ASSUME NEW T, NEW log \in Seq(T)
  PROVE  CoalesceTurns(log) =
           [k \in DOMAIN Starts(log) |-> TurnAt(log, Starts(log)[k], EndOf(log, k))]
<1> DEFINE places == [i \in DOMAIN log |-> i]
           starts == Those(places, LAMBDA i : i = 1 \/ log[i].role # log[i - 1].role)
<1>1. DOMAIN places = DOMAIN log /\ Len(places) = Len(log) /\ \A i \in DOMAIN log : places[i] = i
  OBVIOUS
<1> HIDE DEF places
<1>2. [j \in DOMAIN places |-> IF places[j] = 1 \/ log[places[j]].role # log[places[j] - 1].role
                               THEN <<places[j]>> ELSE <<>>] = StartsAt(log)
  BY <1>1 DEF StartsAt, IsStart
<1>3. starts = Starts(log)
  BY <1>1, <1>2 DEF Those, Over, Starts
<1>4. CoalesceTurns(log) =
        [k \in DOMAIN starts |->
           [role |-> log[starts[k]].role,
            entries |-> SubSeq(log, starts[k],
                               IF k = Len(starts) THEN Len(log) ELSE starts[k + 1] - 1)]]
  BY DEF CoalesceTurns, places
<1> HIDE DEF starts
<1> QED BY <1>3, <1>4 DEF EndOf, TurnAt

\* An entry more is a start more, if its role is another than the last's.
LEMMA StartsMore ==
  ASSUME NEW T, NEW log \in Seq(T), NEW e \in T
  PROVE  Starts(Append(log, e)) =
           IF IsStart(Append(log, e), Len(log) + 1) THEN Append(Starts(log), Len(log) + 1)
           ELSE Starts(log)
<1> DEFINE n == Len(log)
           new == Append(log, e)
           old == StartsAt(log)
           one == IF IsStart(new, n + 1) THEN <<n + 1>> ELSE <<>>
<1>1. n \in Nat /\ DOMAIN log = 1..n /\ Len(new) = n + 1 /\ DOMAIN new = 1..(n + 1)
  OBVIOUS
<1>2. \A j \in 1..n : new[j] = log[j]
  OBVIOUS
<1> HIDE DEF new, n
<1>3. \A j \in 1..n : IsStart(new, j) <=> IsStart(log, j)
  BY <1>1, <1>2 DEF IsStart
<1>4. \A j \in 1..n : (IF IsStart(log, j) THEN <<j>> ELSE <<>>) \in Seq(Nat)
  BY <1>1
<1>5. old \in Seq(Seq(Nat)) /\ Len(old) = n
  BY <1>1, <1>4 DEF StartsAt
<1>6. one \in Seq(Nat)
  BY <1>1
<1>7. old = [j \in 1..n |-> IF IsStart(log, j) THEN <<j>> ELSE <<>>]
  BY <1>1 DEF StartsAt
<1>8. StartsAt(new) = [j \in 1..(n + 1) |-> IF IsStart(new, j) THEN <<j>> ELSE <<>>]
  BY <1>1 DEF StartsAt
<1>m. StartsAt(new)[n + 1] = one
  BY <1>1, <1>8
<1>o. \A j \in 1..n : StartsAt(new)[j] = old[j]
  BY <1>1, <1>3, <1>7, <1>8
<1>d. DOMAIN StartsAt(new) = 1..(n + 1) /\ StartsAt(new) = [j \in 1..(n + 1) |-> StartsAt(new)[j]]
  BY <1>8
<1> HIDE DEF old, one
<1>9. StartsAt(new) = Append(old, one)
  <2> DEFINE M == Seq(Nat)
             f == StartsAt(new)
  <2>1. old \in Seq(M) /\ one \in M /\ n + 1 \in Nat /\ n + 1 = Len(old) + 1 /\ Len(old) = n
    BY <1>1, <1>5, <1>6
  <2>2. IsList(f, n + 1)
    BY <1>d DEF IsList
  <2>3. f[n + 1] = one /\ \A j \in 1..Len(old) : f[j] = old[j]
    BY <1>m, <1>o, <2>1
  <2> HIDE DEF M, f
  <2>4. f = Append(old, one)
    BY <2>1, <2>2, <2>3, IsAppend
  <2> QED BY <2>4 DEF f
<1>10. Whole(Append(old, one)) = Whole(old) \o one
  BY <1>5, <1>6, JoinedMore
<1>11. Len(Append(old, one)) = n + 1
  BY <1>5, <1>6
<1>12. Starts(new) = Starts(log) \o one
  BY <1>1, <1>5, <1>9, <1>10, <1>11 DEF Starts, Whole, old, n
<1>13. Starts(log) \in Seq(Nat)
  BY <1>5, JoinedTyped DEF Starts, Whole, old, n
<1>14. Starts(log) \o <<n + 1>> = Append(Starts(log), n + 1) /\ Starts(log) \o <<>> = Starts(log)
  BY <1>1, <1>13
<1> QED BY <1>12, <1>14 DEF one, new, n

\* Starts are places of the log, and only an empty log has none.
LEMMA StartsTyped ==
  ASSUME NEW T, NEW log \in Seq(T)
  PROVE  Starts(log) \in Seq(1..Len(log)) /\ (Starts(log) = <<>> => log = <<>>)
<1> DEFINE Q(p) == Starts(p) \in Seq(1..Len(p)) /\ (Starts(p) = <<>> => p = <<>>)
           P == {p \in Seq(T) : Q(p)}
<1>1. <<>> \in P
  <2>1. Starts(<<>>) = Whole(StartsAt(<<>>))
    BY DEF Starts, Whole, StartsAt
  <2>2. Len(StartsAt(<<>>)) = 0
    BY DEF StartsAt
  <2>3. Starts(<<>>) = <<>>
    BY <2>1, <2>2, JoinedNone
  <2>4. <<>> \in Seq(1..Len(<<>>)) /\ <<>> \in Seq(T)
    OBVIOUS
  <2> QED BY <2>3, <2>4
<1>2. ASSUME NEW p \in Seq(T), p \in P, NEW x \in T PROVE Append(p, x) \in P
  <2> DEFINE new == Append(p, x)
             n == Len(p)
  <2>1. n \in Nat /\ new \in Seq(T) /\ Len(new) = n + 1 /\ (p = <<>> => n = 0)
    OBVIOUS
  <2>2. Starts(new) = IF IsStart(new, n + 1) THEN Append(Starts(p), n + 1) ELSE Starts(p)
    BY StartsMore
  <2>3. Q(p)
    BY <1>2
  <2>4. p = <<>> => IsStart(new, n + 1)
    BY <2>1 DEF IsStart
  <2> HIDE DEF new, n
  <2>5. Starts(p) \in Seq(1..(n + 1))
    <3>1. Starts(p) \in Seq(1..n) /\ 1..n \subseteq 1..(n + 1)
      BY <2>1, <2>3 DEF n
    <3> HIDE <2>3
    <3> QED BY <3>1, SequenceIn
  <2>6. Append(Starts(p), n + 1) \in Seq(1..(n + 1)) /\ Append(Starts(p), n + 1) # <<>>
    <3>1. n + 1 \in 1..(n + 1)
      BY <2>1
    <3> QED BY <2>5, <3>1, AppendIs
  <2> QED BY <2>1, <2>2, <2>3, <2>4, <2>5, <2>6 DEF new
<1> HIDE DEF P
<1>3. Seq(T) \subseteq P
  BY <1>1, <1>2, EverySequence
<1> QED BY <1>3 DEF P

\* A piece of one element.
LEMMA OneCut ==
  ASSUME NEW T, NEW s \in Seq(T), NEW k \in 1..Len(s)
  PROVE  SubSeq(s, k, k) = <<s[k]>>
<1> DEFINE c == SubSeq(s, k, k)
<1>1. k \in Int /\ \A i \in k..k : s[i] \in T
  OBVIOUS
<1>2. c \in Seq(T) /\ Len(c) = k - k + 1 /\ \A i \in 1..(k - k + 1) : c[i] = s[k + i - 1]
  BY <1>1, SubSeqProperties
<1>3. k - k + 1 = 1 /\ k + 1 - 1 = k
  OBVIOUS
<1> HIDE DEF c
<1>4. c \in Seq(T) /\ Len(c) = 1 /\ c[1] = s[k]
  BY <1>2, <1>3
<1>5. c = <<s[k]>>
  BY <1>4
<1> QED BY <1>5 DEF c

\* Pieces of a sequence that grows.
LEMMA CutMore ==
  ASSUME NEW T, NEW log \in Seq(T), NEW e \in T, NEW first \in 1..(Len(log) + 1), NEW last \in 0..Len(log)
  PROVE  /\ SubSeq(Append(log, e), first, last) = SubSeq(log, first, last)
         /\ SubSeq(Append(log, e), first, Len(log) + 1) = Append(SubSeq(log, first, Len(log)), e)
         /\ SubSeq(log, first, last) \in Seq(T)
<1> DEFINE n == Len(log)
           new == Append(log, e)
           cut == SubSeq(log, first, n)
           more == SubSeq(new, first, n + 1)
<1>1. n \in Nat /\ new \in Seq(T) /\ Len(new) = n + 1 /\ DOMAIN new = 1..(n + 1) /\ DOMAIN log = 1..n
  OBVIOUS
<1>2. (\A j \in 1..n : new[j] = log[j]) /\ new[n + 1] = e
  OBVIOUS
<1>n. first \in 1..(n + 1) /\ last \in 0..n
  OBVIOUS
<1> HIDE DEF n, new
<1>3. /\ SubSeq(new, first, last) = [j \in 1..(last - first + 1) |-> new[first + j - 1]]
      /\ SubSeq(log, first, last) = [j \in 1..(last - first + 1) |-> log[first + j - 1]]
  BY <1>1
<1>4. SubSeq(new, first, last) = SubSeq(log, first, last)
  <2>1. \A j \in 1..(last - first + 1) : first + j - 1 \in 1..n
    BY <1>1, <1>n
  <2> QED BY <1>2, <1>3, <2>1
<1>5. cut = [j \in 1..(n - first + 1) |-> log[first + j - 1]]
  BY <1>1
<1>6. more = [j \in 1..(n + 1 - first + 1) |-> new[first + j - 1]]
  BY <1>1
<1>7. cut \in Seq(T) /\ Len(cut) = n - first + 1 /\ SubSeq(log, first, last) \in Seq(T)
  BY <1>1, <1>n
<1>8. Append(cut, e) = more
  <2>1. Append(cut, e) = [j \in 1..(n - first + 2) |-> IF j = n - first + 2 THEN e ELSE cut[j]]
    BY <1>1, <1>7
  <2>2. \A j \in 1..(n - first + 2) : j # n - first + 2 => j \in 1..(n - first + 1) /\ first + j - 1 \in 1..n
    BY <1>1, <1>n
  <2>3. \A j \in 1..(n - first + 2) : j # n - first + 2 => cut[j] = new[first + j - 1]
    BY <1>2, <1>5, <2>2
  <2>4. first + (n - first + 2) - 1 = n + 1 /\ n + 1 - first + 1 = n - first + 2
    BY <1>1, <1>n
  <2>5. \A j \in 1..(n - first + 2) : (IF j = n - first + 2 THEN e ELSE cut[j]) = new[first + j - 1]
    BY <1>2, <2>3, <2>4
  <2> HIDE DEF cut, more
  <2> QED BY <1>6, <2>1, <2>4, <2>5
<1> QED BY <1>4, <1>7, <1>8 DEF n, new

\* A turn of one entry, and the turns with an entry added to the last.
OneTurn(e) == [role |-> e.role, entries |-> <<e>>]
Extended(ts, e) ==
  [k \in DOMAIN ts |->
     IF k = Len(ts) THEN [role |-> ts[k].role, entries |-> Append(ts[k].entries, e)] ELSE ts[k]]

\* An entry more begins a turn of its own or goes to the last one.
LEMMA CoalescedMore ==
  ASSUME NEW T, NEW log \in Seq(T), NEW e \in T
  PROVE  CoalesceTurns(Append(log, e)) =
           IF IsStart(Append(log, e), Len(log) + 1) THEN Append(CoalesceTurns(log), OneTurn(e))
           ELSE Extended(CoalesceTurns(log), e)
<1> DEFINE n == Len(log)
           new == Append(log, e)
           S == Starts(log)
           N == Starts(new)
           m == Len(S)
           old == CoalesceTurns(log)
           ts == CoalesceTurns(new)
<1>1. n \in Nat /\ new \in Seq(T) /\ Len(new) = n + 1
  OBVIOUS
<1>2. (\A j \in 1..n : new[j] = log[j]) /\ new[n + 1] = e
  OBVIOUS
<1>3. S \in Seq(1..n) /\ m \in Nat /\ DOMAIN S = 1..m /\ \A k \in 1..m : S[k] \in 1..n
  <2>1. S \in Seq(1..n)
    BY StartsTyped
  <2> HIDE DEF S, n
  <2> QED BY <2>1, SequenceIs
<1>4. old = [k \in 1..m |-> TurnAt(log, S[k], EndOf(log, k))]
  BY <1>3, CoalescedIs
<1>5. ts = [k \in DOMAIN N |-> TurnAt(new, N[k], EndOf(new, k))]
  BY <1>1, CoalescedIs
<1>6. N = IF IsStart(new, n + 1) THEN Append(S, n + 1) ELSE S
  BY StartsMore
<1>7. \A a \in 1..n : \A b \in 0..n : TurnAt(new, a, b) = TurnAt(log, a, b)
  <2>1. \A a \in 1..n : \A b \in 0..n : SubSeq(new, a, b) = SubSeq(log, a, b)
    BY <1>1, CutMore
  <2> QED BY <1>2, <2>1 DEF TurnAt
<1>8. \A k \in 1..m : EndOf(log, k) \in 0..n /\ (k = m => EndOf(log, k) = n)
  <2>1. \A k \in 1..m : k # m => k + 1 \in 1..m /\ S[k + 1] - 1 \in 0..n
    <3> HIDE DEF S, n, m
    <3>1. \A k \in 1..m : k # m => k + 1 \in 1..m
      BY <1>3
    <3>2. \A x \in 1..n : x - 1 \in 0..n
      BY <1>1
    <3> QED BY <1>3, <3>1, <3>2
  <2> HIDE DEF S, n
  <2> QED BY <1>1, <2>1 DEF EndOf, S, n
<1> HIDE DEF new, n, old, ts
<1>9. CASE IsStart(new, n + 1)
  <2>1. /\ N \in Seq(1..(n + 1)) /\ Len(N) = m + 1 /\ DOMAIN N = 1..(m + 1)
        /\ N[m + 1] = n + 1 /\ \A k \in 1..m : N[k] = S[k]
    <3>1. S \in Seq(1..(n + 1)) /\ n + 1 \in 1..(n + 1)
      <4>1. 1..n \subseteq 1..(n + 1) /\ n + 1 \in 1..(n + 1)
        BY <1>1
      <4> HIDE DEF S
      <4> QED BY <1>3, <4>1
    <3> HIDE DEF S, N
    <3> QED BY <1>3, <1>6, <1>9, <3>1 DEF S
  <2>2. \A k \in 1..m : EndOf(new, k) = EndOf(log, k)
    <3>1. \A k \in 1..m : k # m + 1 /\ k + 1 \in 1..(m + 1)
      BY <1>3
    <3>2. \A k \in 1..m : EndOf(new, k) = N[k + 1] - 1
      BY <1>1, <2>1, <3>1 DEF EndOf
    <3>3. \A k \in 1..m : k # m => k + 1 \in 1..m /\ EndOf(log, k) = S[k + 1] - 1
      <4>1. \A k : k # m => EndOf(log, k) = S[k + 1] - 1
        BY DEF EndOf
      <4> HIDE DEF m
      <4>2. \A k \in 1..m : k # m => k + 1 \in 1..m
        BY <1>3
      <4> QED BY <4>1, <4>2
    <3>4. N[m + 1] - 1 = n
      <4>1. N[m + 1] = n + 1
        BY <2>1
      <4> HIDE DEF N, m
      <4> QED BY <1>1, <4>1
    <3> HIDE DEF S, N
    <3> QED BY <1>8, <2>1, <3>2, <3>3, <3>4
  <2>3. \A k \in 1..m : TurnAt(new, N[k], EndOf(new, k)) = TurnAt(log, S[k], EndOf(log, k))
    BY <1>3, <1>7, <1>8, <2>1, <2>2
  <2>4. TurnAt(new, n + 1, n + 1) = OneTurn(e)
    <3>1. SubSeq(new, n + 1, n + 1) = <<new[n + 1]>>
      <4>1. n + 1 \in 1..Len(new)
        BY <1>1
      <4> DEFINE k == n + 1
      <4> HIDE DEF k
      <4>2. k \in 1..Len(new)
        BY <4>1 DEF k
      <4>3. SubSeq(new, k, k) = <<new[k]>>
        BY <1>1, <4>2, OneCut
      <4> QED BY <4>3 DEF k
    <3> QED BY <1>2, <3>1 DEF TurnAt, OneTurn
  <2>5. EndOf(new, m + 1) = n + 1
    BY <1>1, <2>1 DEF EndOf
  <2>6. ts = [k \in 1..(m + 1) |-> TurnAt(new, N[k], EndOf(new, k))]
    BY <1>5, <2>1
  <2>7. ts[m + 1] = OneTurn(e) /\ \A k \in 1..m : ts[k] = old[k]
    <3>1. \A k \in 1..m : k \in 1..(m + 1)
      BY <1>3
    <3>2. m + 1 \in 1..(m + 1)
      BY <1>3
    <3>3. \A k \in 1..m : old[k] = TurnAt(log, S[k], EndOf(log, k))
      BY <1>4
    <3> HIDE DEF S, N, m
    <3> QED BY <2>1, <2>3, <2>4, <2>5, <2>6, <3>1, <3>2, <3>3
  <2>8. ts = Append(old, OneTurn(e))
    <3> DEFINE O == {old[k] : k \in 1..m} \cup {OneTurn(e)}
    <3>1. m \in Nat /\ m + 1 \in Nat
      BY <1>3
    <3>2. old \in [1..m -> O] /\ OneTurn(e) \in O
      BY <1>4
    <3>3. IsList(ts, m + 1)
      BY <2>6 DEF IsList
    <3> HIDE DEF O, m
    <3>4. old \in Seq(O) /\ Len(old) = m
      BY <3>1, <3>2
    <3> QED BY <2>7, <3>1, <3>2, <3>3, <3>4, IsAppend
  <2> QED BY <1>9, <2>8 DEF new, n, old, ts
<1>10. CASE ~IsStart(new, n + 1)
  <2>1. N = S
    BY <1>6, <1>10
  <2>2. m # 0
    <3>1. n # 0
      BY <1>10 DEF IsStart
    <3>2. S = <<>> => log = <<>>
      BY StartsTyped
    <3>3. m = 0 => S = <<>>
      BY <1>3
    <3> QED BY <3>1, <3>2, <3>3 DEF n
  <2>3. \A k \in 1..m : k # m => EndOf(new, k) = EndOf(log, k)
    BY <2>1 DEF EndOf
  <2>4. EndOf(new, m) = n + 1
    BY <1>1, <2>1 DEF EndOf
  <2>5. \A a \in 1..n : SubSeq(new, a, n + 1) = Append(SubSeq(log, a, n), e)
    <3>1. \A a \in 1..n : a \in 1..(n + 1) /\ n \in 0..n
      BY <1>1
    <3> QED BY <3>1, CutMore DEF new, n
  <2>6. \A a \in 1..n : TurnAt(new, a, n + 1) =
          [role |-> TurnAt(log, a, n).role, entries |-> Append(TurnAt(log, a, n).entries, e)]
    BY <1>2, <2>5 DEF TurnAt
  <2>7. m \in 1..m /\ DOMAIN old = 1..m /\ Len(old) = m
    <3>1. m \in Nat
      BY <1>3
    <3> HIDE DEF m
    <3>2. DOMAIN old = 1..m
      BY <1>4
    <3>3. old \in Seq({old[k] : k \in 1..m}) /\ Len(old) = m
      BY <1>4, <3>1
    <3> QED BY <2>2, <3>1, <3>2, <3>3
  <2>8. \A k \in 1..m : TurnAt(new, N[k], EndOf(new, k)) = Extended(old, e)[k]
    <3> SUFFICES ASSUME NEW k \in 1..m
                 PROVE  TurnAt(new, S[k], EndOf(new, k)) = Extended(old, e)[k]
      BY <2>1
    <3>1. old[k] = TurnAt(log, S[k], EndOf(log, k))
      BY <1>4
    <3>2. Extended(old, e)[k] =
            IF k = m THEN [role |-> old[k].role, entries |-> Append(old[k].entries, e)] ELSE old[k]
      BY <2>7 DEF Extended
    <3>3. S[k] \in 1..n
      BY <1>3
    <3> HIDE DEF S, N, m
    <3>4. CASE k = m
      BY <1>8, <2>4, <2>6, <3>1, <3>2, <3>3, <3>4
    <3>5. CASE k # m
      BY <1>7, <1>8, <2>3, <3>1, <3>2, <3>3, <3>5
    <3> QED BY <3>4, <3>5
  <2>9. Extended(old, e) = [k \in 1..m |-> Extended(old, e)[k]]
    BY <2>7 DEF Extended
  <2>10. ts = [k \in 1..m |-> TurnAt(new, N[k], EndOf(new, k))]
    BY <1>3, <1>5, <2>1
  <2> HIDE DEF S, N, m
  <2> QED BY <1>10, <2>8, <2>9, <2>10 DEF new, n, old, ts
<1> QED BY <1>9, <1>10 DEF new, n

EntriesIn == [t \in Turns |-> t.entries]
Uniform(t) == \A j \in DOMAIN t.entries : t.entries[j].role = t.role

\* The turns of a conversation hold its entries, each under its own role.
AreTurnsOf(ts, log) ==
  /\ ts \in Seq(Turns)
  /\ Each(ts, EntriesIn) = log
  /\ \A i \in DOMAIN ts : Uniform(ts[i])
  /\ log # <<>> => ts # <<>> /\ ts[Len(ts)].role = log[Len(log)].role

\* The entries of a turn are entries of a log.
LEMMA EntriesTyped == Makes(EntriesIn, Turns, LogEntries) /\ \A t \in Turns : t.entries \in Seq(LogEntries)
<1>1. \A t \in Turns : EntriesIn[t] = t.entries /\ t.entries \in Seq(LogEntries)
  BY DEF EntriesIn, Turns
<1> QED BY <1>1 DEF Makes

\* A turn of one entry is a turn with that entry, under its role.
LEMMA OneTurnIs ==
  ASSUME NEW e \in LogEntries
  PROVE  /\ OneTurn(e) \in Turns /\ Uniform(OneTurn(e))
         /\ OneTurn(e).role = e.role /\ EntriesIn[OneTurn(e)] = <<e>>
<1> DEFINE entries == <<e>>
<1>1. entries \in Seq(LogEntries) /\ DOMAIN entries = {1} /\ entries[1] = e
  OBVIOUS
<1>2. e.role \in {"user", "assistant", "system"}
  BY DEF LogEntries
<1>3. OneTurn(e) = [role |-> e.role, entries |-> entries]
  BY DEF OneTurn
<1> HIDE DEF entries
<1>4. OneTurn(e) \in Turns /\ OneTurn(e).role = e.role /\ OneTurn(e).entries = entries
  BY <1>1, <1>2, <1>3 DEF Turns
<1> QED BY <1>1, <1>4 DEF EntriesIn, Uniform, entries

\* The last turn with an entry more.
Longer(t, e) == [role |-> t.role, entries |-> Append(t.entries, e)]

\* It has that entry last, and is still of one role if the entry has it.
LEMMA LongerIs ==
  ASSUME NEW t \in Turns, NEW e \in LogEntries
  PROVE  /\ Longer(t, e) \in Turns /\ Longer(t, e).role = t.role
         /\ EntriesIn[Longer(t, e)] = t.entries \o <<e>>
         /\ Uniform(t) /\ t.role = e.role => Uniform(Longer(t, e))
<1> DEFINE s == t.entries
           entries == Append(s, e)
<1>1. s \in Seq(LogEntries) /\ t.role \in {"user", "assistant", "system"}
  BY DEF Turns
<1> HIDE DEF s
<1>2. entries \in Seq(LogEntries) /\ entries = s \o <<e>>
  BY <1>1
<1>3. DOMAIN entries = 1..(Len(s) + 1) /\ DOMAIN s = 1..Len(s) /\ Len(s) \in Nat
  BY <1>1
<1>4. entries[Len(s) + 1] = e /\ \A j \in 1..Len(s) : entries[j] = s[j]
  BY <1>1
<1>5. Longer(t, e) = [role |-> t.role, entries |-> entries]
  BY DEF Longer, s
<1> HIDE DEF entries
<1>6. Longer(t, e) \in Turns /\ Longer(t, e).role = t.role /\ Longer(t, e).entries = entries
  BY <1>1, <1>2, <1>5 DEF Turns
<1>7. ASSUME Uniform(t), t.role = e.role PROVE Uniform(Longer(t, e))
  <2>1. \A j \in 1..Len(s) : s[j].role = t.role
    BY <1>3, <1>7 DEF Uniform, s
  <2>2. \A j \in 1..(Len(s) + 1) : j \in 1..Len(s) \/ j = Len(s) + 1
    BY <1>3
  <2>3. \A j \in 1..(Len(s) + 1) : entries[j].role = t.role
    BY <1>4, <1>7, <2>1, <2>2
  <2> QED BY <1>3, <1>6, <2>3 DEF Uniform
<1> QED BY <1>2, <1>6, <1>7 DEF EntriesIn, s

\* Extending the turns of a log lengthens the last and leaves the others.
LEMMA ExtendedIs ==
  ASSUME NEW ts \in Seq(Turns), ts # <<>>, NEW e \in LogEntries
  PROVE  \E front \in Seq(Turns) :
           /\ Len(front) = Len(ts) - 1
           /\ ts[Len(ts)] \in Turns
           /\ ts = Append(front, ts[Len(ts)])
           /\ Extended(ts, e) = Append(front, Longer(ts[Len(ts)], e))
<1> DEFINE m == Len(ts)
           front == SubSeq(ts, 1, m - 1)
           last == ts[m]
           more == Longer(last, e)
<1>1. m \in Nat /\ m # 0 /\ DOMAIN ts = 1..m
  OBVIOUS
<1>2. last \in Turns
  BY <1>1
<1>3. more \in Turns
  BY <1>2, LongerIs
<1>4. front \in Seq(Turns) /\ Len(front) = m - 1 /\ \A j \in 1..(m - 1) : front[j] = ts[j]
  BY <1>1
<1>5. Len(front) \in Nat /\ m = Len(front) + 1 /\ \A j \in 1..Len(front) : j # m /\ front[j] = ts[j]
  <2> HIDE DEF front, m
  <2>1. Len(front) \in Nat /\ m = Len(front) + 1 /\ \A j \in 1..(m - 1) : j # m
    BY <1>1, <1>4
  <2> QED BY <1>4, <2>1
<1> DEFINE new == Extended(ts, e)
<1>6. IsList(ts, m) /\ IsList(new, m)
  <2>1. ts = [j \in 1..m |-> ts[j]]
    BY <1>1
  <2>2. new = [j \in 1..m |-> IF j = m THEN more ELSE ts[j]]
    BY <1>1 DEF Extended, Longer
  <2> HIDE DEF m, more
  <2> QED BY <1>1, <2>1, <2>2 DEF IsList
<1>7. ts = Append(front, last)
  <2> HIDE DEF front, m
  <2> QED BY <1>1, <1>2, <1>4, <1>5, <1>6, IsAppend
<1>8. new = Append(front, more)
  <2>1. new[m] = more /\ \A j \in 1..m : j # m => new[j] = ts[j]
    <3>1. \A j \in 1..m : new[j] = IF j = m THEN more ELSE ts[j]
      BY <1>1 DEF Extended, Longer
    <3>2. m \in 1..m
      BY <1>1
    <3> HIDE DEF m, more, new
    <3> QED BY <3>1, <3>2
  <2> HIDE DEF front, m, more, new
  <2>2. \A j \in 1..Len(front) : j \in 1..m
    BY <1>1, <1>5
  <2>3. \A j \in 1..Len(front) : new[j] = front[j]
    BY <1>5, <2>1, <2>2
  <2> QED BY <1>1, <1>3, <1>4, <1>5, <1>6, <2>1, <2>3, IsAppend
<1> HIDE DEF front
<1> QED BY <1>2, <1>4, <1>7, <1>8

\* Turns that say what one more entry does to them.
LEMMA TurnsMore ==
  ASSUME NEW log \in Seq(LogEntries), NEW e \in LogEntries, AreTurnsOf(CoalesceTurns(log), log)
  PROVE  LET ts == CoalesceTurns(log)
             next == CoalesceTurns(Append(log, e))
         IN  \/ next = Append(ts, OneTurn(e))
             \/ ts # <<>> /\ ts[Len(ts)].role = e.role /\ next = Extended(ts, e)
<1> DEFINE ts == CoalesceTurns(log)
           n == Len(log)
           new == Append(log, e)
<1>1. CoalesceTurns(new) = IF IsStart(new, n + 1) THEN Append(ts, OneTurn(e)) ELSE Extended(ts, e)
  BY CoalescedMore
<1>2. CASE IsStart(new, n + 1)
  BY <1>1, <1>2
<1>3. CASE ~IsStart(new, n + 1)
  <2>1. n \in Nat /\ new[n + 1] = e /\ \A j \in 1..n : new[j] = log[j]
    OBVIOUS
  <2> HIDE DEF new
  <2>2. n # 0 /\ new[n + 1].role = new[n + 1 - 1].role
    BY <1>3 DEF IsStart
  <2>3. n + 1 - 1 = n /\ n \in 1..n
    BY <2>1, <2>2
  <2>4. e.role = log[n].role
    BY <2>1, <2>2, <2>3
  <2>5. log # <<>>
    BY <2>2
  <2> HIDE DEF ts
  <2>6. ts # <<>> /\ ts[Len(ts)].role = log[n].role
    BY <2>5 DEF AreTurnsOf, ts
  <2> QED BY <1>1, <1>3, <2>4, <2>6 DEF ts, new
<1> QED BY <1>2, <1>3

\* Coalescing keeps every entry of the log, in order, in turns of one role.
LEMMA TurnsOf ==
  ASSUME NEW log \in Seq(LogEntries)
  PROVE  AreTurnsOf(CoalesceTurns(log), log)
<1> DEFINE Q(p) == AreTurnsOf(CoalesceTurns(p), p)
           P == {p \in Seq(LogEntries) : Q(p)}
<1>1. <<>> \in P
  <2>1. <<>> \in Seq(LogEntries)
    OBVIOUS
  <2> DEFINE none == <<>>
             S == Starts(none)
             ts == CoalesceTurns(none)
  <2>2. Len(StartsAt(<<>>)) = 0 /\ Starts(<<>>) = Whole(StartsAt(<<>>))
    BY DEF StartsAt, Starts, Whole
  <2>3. S = <<>> /\ DOMAIN S = {}
    <3>1. S = <<>>
      BY <2>2, JoinedNone
    <3> HIDE DEF S
    <3> QED BY <3>1
  <2>4. ts = [k \in DOMAIN S |-> TurnAt(none, S[k], EndOf(none, k))]
    BY <2>1, CoalescedIs
  <2>5. ts = <<>>
    <3> HIDE DEF S, ts, none
    <3>1. ts = [k \in {} |-> TurnAt(none, S[k], EndOf(none, k))]
      BY <2>3, <2>4
    <3> QED BY <3>1
  <2>6. Each(<<>>, EntriesIn) = <<>> /\ <<>> \in Seq(Turns) /\ DOMAIN <<>> = {}
    BY EachNone
  <2> HIDE DEF ts
  <2>7. AreTurnsOf(ts, <<>>)
    BY <2>5, <2>6 DEF AreTurnsOf
  <2> QED BY <2>1, <2>7 DEF ts
<1>2. ASSUME NEW p \in Seq(LogEntries), p \in P, NEW e \in LogEntries PROVE Append(p, e) \in P
  <2> DEFINE ts == CoalesceTurns(p)
             new == Append(p, e)
             next == CoalesceTurns(new)
  <2>1. new \in Seq(LogEntries) /\ Len(new) = Len(p) + 1 /\ new[Len(p) + 1] = e /\ new = p \o <<e>>
    OBVIOUS
  <2>2. AreTurnsOf(ts, p)
    BY <1>2
  <2>3. ts \in Seq(Turns) /\ Each(ts, EntriesIn) = p /\ \A i \in DOMAIN ts : Uniform(ts[i])
    BY <2>2 DEF AreTurnsOf
  <2>4. \/ next = Append(ts, OneTurn(e))
        \/ ts # <<>> /\ ts[Len(ts)].role = e.role /\ next = Extended(ts, e)
    BY <2>2, TurnsMore
  <2> HIDE DEF new, ts, next
  <2>5. CASE next = Append(ts, OneTurn(e))
    <3> DEFINE one == OneTurn(e)
    <3>1. one \in Turns /\ Uniform(one) /\ one.role = e.role /\ EntriesIn[one] = <<e>>
      BY OneTurnIs
    <3> HIDE DEF one
    <3>2. Each(next, EntriesIn) = Each(ts, EntriesIn) \o EntriesIn[one]
      BY <2>3, <2>5, <3>1, EachMore DEF one
    <3>3. /\ next \in Seq(Turns) /\ next # <<>> /\ Len(next) = Len(ts) + 1
          /\ next[Len(ts) + 1] = one /\ \A j \in 1..Len(ts) : next[j] = ts[j]
          /\ \A j \in DOMAIN next : j \in DOMAIN ts \/ j = Len(ts) + 1
      BY <2>3, <2>5, <3>1, AppendIs DEF one
    <3>4. \A i \in DOMAIN next : Uniform(next[i])
      <4>1. \A i \in DOMAIN next : (i \in DOMAIN ts /\ next[i] = ts[i]) \/ next[i] = one
        <5>1. DOMAIN ts = 1..Len(ts)
          BY <2>3
        <5> QED BY <3>3, <5>1
      <4> QED BY <2>3, <3>1, <4>1
    <3>5. Each(next, EntriesIn) = new
      BY <2>1, <2>3, <3>1, <3>2
    <3>6. next[Len(next)].role = e.role /\ new[Len(new)] = e
      BY <2>1, <3>1, <3>3
    <3>7. AreTurnsOf(next, new)
      BY <3>3, <3>4, <3>5, <3>6 DEF AreTurnsOf
    <3> QED BY <2>1, <3>7 DEF next, new
  <2>6. CASE ts # <<>> /\ ts[Len(ts)].role = e.role /\ next = Extended(ts, e)
    <3> DEFINE last == ts[Len(ts)]
               more == Longer(last, e)
    <3>1. PICK front \in Seq(Turns) :
            /\ Len(front) = Len(ts) - 1 /\ last \in Turns
            /\ ts = Append(front, last) /\ next = Append(front, more)
      BY <2>3, <2>6, ExtendedIs
    <3>2. Uniform(last)
      BY <2>3, <2>6
    <3> HIDE DEF last
    <3>3. more \in Turns /\ more.role = last.role /\ EntriesIn[more] = last.entries \o <<e>> /\ Uniform(more)
      BY <2>6, <3>1, <3>2, LongerIs DEF last
    <3> HIDE DEF more
    <3>4. /\ Each(ts, EntriesIn) = Each(front, EntriesIn) \o EntriesIn[last]
          /\ Each(next, EntriesIn) = Each(front, EntriesIn) \o EntriesIn[more]
      BY <3>1, <3>3, EachMore
    <3>5. EntriesIn[last] = last.entries
      BY <3>1 DEF EntriesIn
    <3> DEFINE a == Each(front, EntriesIn)
               b == last.entries
               c == <<e>>
    <3>6. a \in Seq(LogEntries) /\ b \in Seq(LogEntries) /\ c \in Seq(LogEntries)
      BY <3>1, EntriesTyped, EachTyped
    <3>7. Each(next, EntriesIn) = new
      <4>1. Each(next, EntriesIn) = a \o (b \o c) /\ p = a \o b /\ new = p \o c
        BY <2>1, <2>3, <3>3, <3>4, <3>5
      <4> HIDE DEF a, b, c
      <4>2. (a \o b) \o c = a \o (b \o c)
        BY <3>6, Regroup, SMTT(30)
      <4> QED BY <4>1, <4>2
    <3>8. next \in Seq(Turns) /\ next # <<>> /\ next[Len(next)] = more
      BY <3>1, <3>3
    <3>9. \A i \in DOMAIN next : Uniform(next[i])
      <4>1. \A i \in DOMAIN next : (i \in DOMAIN ts /\ next[i] = ts[i]) \/ next[i] = more
        BY <3>1, <3>3
      <4> QED BY <2>3, <3>3, <4>1
    <3>10. last.role = e.role
      BY <2>6 DEF last
    <3>11. next[Len(next)].role = e.role /\ new[Len(new)] = e
      BY <2>1, <3>3, <3>8, <3>10
    <3>12. AreTurnsOf(next, new)
      BY <3>7, <3>8, <3>9, <3>11 DEF AreTurnsOf
    <3> QED BY <2>1, <3>12 DEF next, new
  <2> QED BY <2>1, <2>4, <2>5, <2>6 DEF new, next
<1> HIDE DEF P
<1>3. Seq(LogEntries) \subseteq P
  BY <1>1, <1>2, EverySequence
<1> QED BY <1>3 DEF P

-----------------------------------------------------------------------------
(* What a turn's messages carry.                                            *)

\* Nothing comes of a sequence only if nothing comes of its members.
LEMMA EachEmpty ==
  ASSUME NEW T, NEW U, NEW g, NEW s \in Seq(T), Makes(g, T, U), Each(s, g) = <<>>
  PROVE  \A i \in DOMAIN s : g[s[i]] = <<>>
<1> DEFINE Q(p) == Each(p, g) = <<>> => \A i \in DOMAIN p : g[p[i]] = <<>>
           P == {p \in Seq(T) : Q(p)}
<1>1. <<>> \in P
  OBVIOUS
<1>2. ASSUME NEW p \in Seq(T), p \in P, NEW x \in T PROVE Append(p, x) \in P
  <2> DEFINE a == Each(p, g)
             b == g[x]
             new == Append(p, x)
  <2>1. new \in Seq(T) /\ \A i \in DOMAIN new : new[i] = x \/ (i \in DOMAIN p /\ new[i] = p[i])
    OBVIOUS
  <2>2. Each(new, g) = a \o b
    BY EachMore
  <2>3. a \in Seq(U) /\ b \in Seq(U)
    BY EachTyped DEF Makes
  <2>4. Q(p)
    BY <1>2
  <2> HIDE DEF a, b, new
  <2>5. a \o b = <<>> => a = <<>> /\ b = <<>>
    BY <2>3
  <2>6. ASSUME Each(new, g) = <<>>, NEW i \in DOMAIN new PROVE g[new[i]] = <<>>
    <3>1. a = <<>> /\ b = <<>>
      BY <2>2, <2>5, <2>6
    <3>2. \A j \in DOMAIN p : g[p[j]] = <<>>
      BY <2>4, <3>1 DEF a
    <3> QED BY <2>1, <3>1, <3>2 DEF b
  <2> QED BY <2>1, <2>6 DEF new
<1> HIDE DEF P
<1>3. Seq(T) \subseteq P
  BY <1>1, <1>2, EverySequence
<1> QED BY <1>3 DEF P

\* What f makes and then what g makes is what h makes in one go, where nothing
\* of f's stands behind anything of g's.
LEMMA EachSorted ==
  ASSUME NEW T, NEW U, NEW f, NEW g, NEW h, NEW s \in Seq(T),
         Makes(f, T, U), Makes(g, T, U),
         \A x \in T : (f[x] = <<>> /\ h[x] = g[x]) \/ (g[x] = <<>> /\ h[x] = f[x]),
         \A j \in DOMAIN s : f[s[j]] # <<>> => \A i \in 1..(j - 1) : g[s[i]] = <<>>
  PROVE  Each(s, f) \o Each(s, g) = Each(s, h)
<1> DEFINE Sorted(p) == \A j \in DOMAIN p : f[p[j]] # <<>> => \A i \in 1..(j - 1) : g[p[i]] = <<>>
           Q(p) == Sorted(p) => Each(p, f) \o Each(p, g) = Each(p, h)
           P == {p \in Seq(T) : Q(p)}
<1>1. <<>> \in P
  <2>1. Each(<<>>, f) = <<>> /\ Each(<<>>, g) = <<>> /\ Each(<<>>, h) = <<>>
    BY EachNone
  <2>2. <<>> \o <<>> = <<>> /\ <<>> \in Seq(T)
    OBVIOUS
  <2>3. Each(<<>>, f) \o Each(<<>>, g) = Each(<<>>, h)
    BY <2>1, <2>2
  <2> QED BY <2>2, <2>3
<1>2. ASSUME NEW p \in Seq(T), p \in P, NEW x \in T PROVE Append(p, x) \in P
  <2> DEFINE a == Each(p, f)
             b == Each(p, g)
             c == Each(p, h)
             new == Append(p, x)
             n == Len(p)
  <2>1. /\ n \in Nat /\ new \in Seq(T) /\ DOMAIN new = 1..(n + 1) /\ DOMAIN p = 1..n
        /\ new[n + 1] = x /\ \A i \in 1..n : new[i] = p[i]
    OBVIOUS
  <2>2. Each(new, f) = a \o f[x] /\ Each(new, g) = b \o g[x] /\ Each(new, h) = c \o h[x]
    <3> HIDE DEF P
    <3>1. Each(Append(p, x), f) = Each(p, f) \o f[x]
      BY EachMore
    <3>2. Each(Append(p, x), g) = Each(p, g) \o g[x]
      BY EachMore
    <3>3. Each(Append(p, x), h) = Each(p, h) \o h[x]
      BY EachMore
    <3> QED BY <3>1, <3>2, <3>3
  <2>3. a \in Seq(U) /\ b \in Seq(U) /\ f[x] \in Seq(U) /\ g[x] \in Seq(U)
    BY EachTyped DEF Makes
  <2>4. Q(p)
    BY <1>2
  <2>5. ASSUME Sorted(new) PROVE Each(new, f) \o Each(new, g) = Each(new, h)
    <3>1. Sorted(p)
      <4>1. \A j \in 1..n : j \in 1..(n + 1) /\ \A i \in 1..(j - 1) : i \in 1..n
        BY <2>1
      <4>2. \A j \in 1..n : f[p[j]] # <<>> => \A i \in 1..(j - 1) : g[p[i]] = <<>>
        <5> HIDE DEF new
        <5> QED BY <2>1, <2>5, <4>1
      <4> QED BY <2>1, <4>2
    <3>2. a \o b = c
      BY <2>4, <3>1
    <3>3. CASE f[x] = <<>> /\ h[x] = g[x]
      <4> DEFINE z == g[x]
      <4>1. a \o f[x] = a /\ Each(new, f) = a
        BY <2>2, <2>3, <3>3
      <4>2. Each(new, g) = b \o z /\ Each(new, h) = c \o z /\ z \in Seq(U)
        BY <2>2, <2>3, <3>3
      <4>0. a \in Seq(U) /\ b \in Seq(U) /\ z \in Seq(U)
        BY <2>3, <4>2
      <4> HIDE DEF a, b, c, z, new
      <4>3. (a \o b) \o z = a \o (b \o z)
        BY <4>0, Regroup
      <4> QED BY <3>2, <4>1, <4>2, <4>3
    <3>4. CASE f[x] # <<>> /\ g[x] = <<>> /\ h[x] = f[x]
      <4> DEFINE z == f[x]
      <4>1. \A i \in 1..(n + 1 - 1) : g[new[i]] = <<>>
        <5> HIDE DEF new
        <5> QED BY <2>1, <2>5, <3>4
      <4>2. \A i \in DOMAIN p : g[p[i]] = <<>>
        BY <2>1, <4>1
      <4>3. b = <<>>
        BY <4>2, EachNothing
      <4>4. Each(new, f) = a \o z /\ Each(new, g) = <<>> \o <<>> /\ Each(new, h) = c \o z
        BY <2>2, <3>4, <4>3
      <4>5. z \in Seq(U)
        BY <2>3
      <4> HIDE DEF a, b, c, z, new
      <4>6. c = a
        BY <2>3, <3>2, <4>3
      <4>7. a \o z \in Seq(U) /\ <<>> \o <<>> = <<>>
        BY <2>3, <4>5
      <4>8. (a \o z) \o <<>> = a \o z
        BY <4>7, Regroup
      <4> QED BY <4>4, <4>6, <4>7, <4>8
    <3> QED BY <3>3, <3>4
  <2> QED BY <2>1, <2>5
<1> HIDE DEF P
<1>3. Seq(T) \subseteq P
  BY <1>1, <1>2, EverySequence
<1>4. Q(s)
  BY <1>3 DEF P
<1> QED BY <1>4

\* The numbers of the entries that a part, a message and a set of entries stand for.
CarriesIn == [p \in WireParts |-> p.carries]
CarriedBy == [m \in Messages |-> Each(m.parts, CarriesIn)]
NumbersOf(A) == [e \in LogEntries |-> IF e \in A THEN <<e.n>> ELSE <<>>]

\* Entries that are not refused, and those that are not dropped.
Fitting(d) ==
  {e \in LogEntries :
     /\ e.kind \in {"blob", "document"} => BinaryBlock(e) /\ Accepts(d, e.mime)
     /\ e.kind = "image" => e.mime = "image"}
Lasting == {e \in LogEntries : e.kind \notin Dropped}
Blocks == {e \in Lasting : IsBlock(e)}
CallEntries == {e \in LogEntries : e.kind = "call"}
ResultEntries == {e \in LogEntries : e.kind = "result"}

\* What parts and messages carry are numbers, in order.
LEMMA CarriesTyped ==
  /\ Makes(CarriesIn, WireParts, Nat) /\ Makes(CarriedBy, Messages, Nat)
  /\ \A A : Makes(NumbersOf(A), LogEntries, Nat)
<1>1. Makes(CarriesIn, WireParts, Nat)
  BY DEF Makes, CarriesIn, WireParts
<1>2. \A m \in Messages : m.parts \in Seq(WireParts)
  BY DEF Messages
<1>3. \A m \in Messages : Each(m.parts, CarriesIn) \in Seq(Nat)
  BY <1>1, <1>2, EachTyped
<1>4. Makes(CarriedBy, Messages, Nat)
  BY <1>3 DEF Makes, CarriedBy
<1>5. ASSUME NEW A, NEW e \in LogEntries PROVE NumbersOf(A)[e] \in Seq(Nat)
  <2>1. e.n \in Nat
    BY DEF LogEntries
  <2>2. <<e.n>> \in Seq(Nat) /\ <<>> \in Seq(Nat)
    BY <2>1
  <2> QED BY <2>2 DEF NumbersOf
<1> QED BY <1>1, <1>4, <1>5 DEF Makes

\* A part with one entry carries its number.
LEMMA OneCarries ==
  ASSUME NEW type \in {"text", "image", "document", "inline", "call", "result"},
         NEW e \in LogEntries, NEW f, Describes(f)
  PROVE  Each(<<WirePart(type, <<e>>, f)>>, CarriesIn) = <<e.n>>
<1> DEFINE part == WirePart(type, <<e>>, f)
<1>1. <<e>> \in Seq(LogEntries)
  OBVIOUS
<1>2. part \in WireParts
  BY <1>1, PartTyped
<1>3. part.carries = <<e.n>>
  <2>1. part.carries = [i \in DOMAIN <<e>> |-> <<e>>[i].n]
    BY DEF WirePart
  <2> QED BY <2>1
<1> HIDE DEF part
<1>4. CarriesIn[part] = part.carries /\ CarriesIn[part] \in Seq(Nat)
  BY <1>2 DEF CarriesIn, WireParts
<1>5. Each(<<part>>, CarriesIn) = CarriesIn[part]
  BY <1>2, <1>4, EachSingle
<1> QED BY <1>3, <1>4, <1>5 DEF part

\* The text of a turn carries its text entries.
LEMMA TextCarries ==
  ASSUME NEW t \in Turns
  PROVE  Each(TurnText(t), CarriesIn) = Each(t.entries, NumbersOf(TextEntries))
<1> DEFINE texts == Texts(t)
           part == WirePart("text", texts, NoEntry)
           number == [e \in LogEntries |-> <<e.n>>]
           n == [e \in LogEntries |-> e.n]
<1>1. texts = Within(t.entries, LogEntries, TextEntries) /\ texts \in Seq(LogEntries)
  BY TextsAre
<1>2. part \in WireParts
  BY <1>1, Descriptions, PartTyped
<1>3. part.carries = [i \in DOMAIN texts |-> texts[i].n]
  BY DEF WirePart
<1>4. TurnText(t) = <<part>>
  BY DEF TurnText
<1> HIDE DEF part, texts
<1>5. CarriesIn[part] = part.carries /\ CarriesIn[part] \in Seq(Nat)
  BY <1>2 DEF CarriesIn, WireParts
<1>6. Each(TurnText(t), CarriesIn) = [i \in DOMAIN texts |-> texts[i].n]
  <2>1. Each(<<part>>, CarriesIn) = CarriesIn[part]
    BY <1>2, <1>5, EachSingle
  <2> QED BY <1>3, <1>4, <1>5, <2>1
<1>7. [i \in DOMAIN texts |-> texts[i].n] = Mapped(texts, n)
  BY <1>1 DEF Mapped
<1>8. \A i \in DOMAIN texts : number[texts[i]] = <<n[texts[i]]>>
  BY <1>1
<1>9. Each(texts, number) = Mapped(texts, n)
  <2> HIDE DEF number, n
  <2> QED BY <1>1, <1>8, EachOne
<1>10. Makes(number, LogEntries, Nat)
  <2>1. \A e \in LogEntries : e.n \in Nat
    BY DEF LogEntries
  <2>2. \A e \in LogEntries : <<e.n>> \in Seq(Nat)
    BY <2>1
  <2> QED BY <2>2 DEF Makes
<1>11. \A e \in LogEntries : NumbersOf(TextEntries)[e] = IF e \in TextEntries THEN number[e] ELSE <<>>
  BY DEF NumbersOf
<1> HIDE DEF number, n
<1>12. t.entries \in Seq(LogEntries)
  BY EntriesTyped
<1>13. Each(Within(t.entries, LogEntries, TextEntries), number) = Each(t.entries, NumbersOf(TextEntries))
  BY <1>10, <1>11, <1>12, EachWithin
<1> QED BY <1>1, <1>6, <1>7, <1>9, <1>13

\* What one entry becomes carries its number, unless it is dropped.
LEMMA EntryCarries ==
  ASSUME NEW d, NEW e \in Fitting(d)
  PROVE  /\ Each(JsonOf[e], CarriesIn) = NumbersOf(Lasting)[e]
         /\ Each(BlocksOf[e], CarriesIn) = NumbersOf(Blocks)[e]
         /\ Each(CallsOf[e], CarriesIn) = NumbersOf(CallEntries)[e]
         /\ Each(ResultsOf[e], CarriedBy) = NumbersOf(ResultEntries)[e]
         /\ \A ts \in Seq(Turns) : \A i \in DOMAIN ts :
              Each(PartsOf(ts, i)[e], CarriesIn) = NumbersOf(Lasting)[e]
<1>1. e \in LogEntries /\ e.kind \in EntryKinds /\ e.id \in Words
  BY DEF Fitting, LogEntries
<1>2. e.kind # "document" /\ (e.kind \in {"image", "blob"} <=> BinaryBlock(e))
  BY DEF Fitting, BinaryBlock, Absent
<1>3. Each(<<>>, CarriesIn) = <<>> /\ Each(<<>>, CarriedBy) = <<>>
  BY EachNone
<1> DEFINE f == [e EXCEPT !.meta = Absent]
           g == [e EXCEPT !.id = Absent]
<1>4. Describes(NoEntry) /\ Describes(e) /\ Describes(f) /\ Describes(g)
  BY <1>1, Descriptions
<1> HIDE DEF f, g
<1>5. /\ Each(<<WirePart("text", <<e>>, NoEntry)>>, CarriesIn) = <<e.n>>
      /\ Each(<<WirePart("image", <<e>>, e)>>, CarriesIn) = <<e.n>>
      /\ Each(<<WirePart("document", <<e>>, e)>>, CarriesIn) = <<e.n>>
      /\ Each(<<WirePart("inline", <<e>>, e)>>, CarriesIn) = <<e.n>>
      /\ Each(<<WirePart("result", <<e>>, e)>>, CarriesIn) = <<e.n>>
      /\ Each(<<WirePart("call", <<e>>, f)>>, CarriesIn) = <<e.n>>
      /\ Each(<<WirePart("call", <<e>>, g)>>, CarriesIn) = <<e.n>>
  BY <1>1, <1>4, OneCarries
<1>6. /\ NumbersOf(Lasting)[e] = IF e.kind \in Dropped THEN <<>> ELSE <<e.n>>
      /\ NumbersOf(Blocks)[e] =
           IF e.kind \in Dropped \/ e.kind \in {"call", "result"} THEN <<>> ELSE <<e.n>>
      /\ NumbersOf(CallEntries)[e] = IF e.kind = "call" THEN <<e.n>> ELSE <<>>
      /\ NumbersOf(ResultEntries)[e] = IF e.kind = "result" THEN <<e.n>> ELSE <<>>
  BY <1>1 DEF NumbersOf, Lasting, Blocks, IsBlock, CallEntries, ResultEntries
<1>7. JsonOf[e] = EntryJson(e) /\ BlocksOf[e] = ContentPart(e)
  BY <1>1 DEF JsonOf, BlocksOf
<1>8. Each(JsonOf[e], CarriesIn) = NumbersOf(Lasting)[e]
  <2>1. CASE e.kind = "text"
    BY <1>5, <1>6, <1>7, <2>1 DEF EntryJson, Dropped
  <2>2. CASE e.kind \in {"image", "blob"}
    <3>1. JsonOf[e] = <<WirePart("image", <<e>>, e)>> \/ JsonOf[e] = <<WirePart("document", <<e>>, e)>>
      BY <1>2, <1>7, <2>2 DEF EntryJson
    <3> QED BY <1>5, <1>6, <2>2, <3>1 DEF Dropped
  <2>3. CASE e.kind = "call"
    <3>1. JsonOf[e] = <<WirePart("call", <<e>>, f)>>
      BY <1>2, <1>7, <2>3 DEF EntryJson, f
    <3> QED BY <1>5, <1>6, <2>3, <3>1 DEF Dropped
  <2>4. CASE e.kind = "result"
    <3>1. JsonOf[e] = <<WirePart("result", <<e>>, e)>>
      BY <1>2, <1>7, <2>4 DEF EntryJson
    <3> QED BY <1>5, <1>6, <2>4, <3>1 DEF Dropped
  <2>5. CASE e.kind \in {"audio", "link"}
    <3>1. JsonOf[e] = <<>>
      BY <1>2, <1>7, <2>5 DEF EntryJson
    <3> QED BY <1>3, <1>6, <2>5, <3>1 DEF Dropped
  <2> QED BY <1>1, <1>2, <2>1, <2>2, <2>3, <2>4, <2>5 DEF EntryKinds
<1>9. Each(BlocksOf[e], CarriesIn) = NumbersOf(Blocks)[e]
  <2>1. CASE e.kind = "text"
    BY <1>5, <1>6, <1>7, <2>1 DEF ContentPart, Dropped
  <2>2. CASE e.kind \in {"image", "blob"}
    <3>1. BlocksOf[e] = <<WirePart("image", <<e>>, e)>>
      BY <1>2, <1>7, <2>2 DEF ContentPart
    <3> QED BY <1>5, <1>6, <2>2, <3>1 DEF Dropped
  <2>3. CASE e.kind \in {"call", "result", "audio", "link"}
    <3>1. BlocksOf[e] = <<>>
      BY <1>2, <1>7, <2>3 DEF ContentPart
    <3> QED BY <1>3, <1>6, <2>3, <3>1 DEF Dropped
  <2> QED BY <1>1, <1>2, <2>1, <2>2, <2>3 DEF EntryKinds
<1>10. Each(CallsOf[e], CarriesIn) = NumbersOf(CallEntries)[e]
  <2>1. CallsOf[e] = IF e.kind = "call" THEN <<WirePart("call", <<e>>, f)>> ELSE <<>>
    BY <1>1 DEF CallsOf, CallParts, f
  <2> QED BY <1>3, <1>5, <1>6, <2>1
<1>11. Each(ResultsOf[e], CarriedBy) = NumbersOf(ResultEntries)[e]
  <2> DEFINE parts == <<WirePart("result", <<e>>, e)>>
             m == Message("tool", parts)
  <2>1. ResultsOf[e] = IF e.kind = "result" THEN <<m>> ELSE <<>>
    BY <1>1 DEF ResultsOf, ResultMessages
  <2>2. parts \in Seq(WireParts) /\ Each(parts, CarriesIn) = <<e.n>>
    BY <1>1, <1>4, <1>5, OnePartTyped
  <2> HIDE DEF parts
  <2>3. m \in Messages /\ m.parts = parts
    BY <2>2 DEF Message, Messages
  <2> HIDE DEF m
  <2>4. CarriedBy[m] = <<e.n>>
    BY <2>2, <2>3 DEF CarriedBy
  <2>5. CarriedBy[m] \in Seq(Nat)
    BY <2>3, CarriesTyped DEF Makes
  <2>6. Each(<<m>>, CarriedBy) = <<e.n>>
    BY <2>3, <2>4, <2>5, EachSingle
  <2> QED BY <1>3, <1>6, <2>1, <2>6
<1>12. ASSUME NEW ts \in Seq(Turns), NEW i \in DOMAIN ts
       PROVE  Each(PartsOf(ts, i)[e], CarriesIn) = NumbersOf(Lasting)[e]
  <2> DEFINE h == [e EXCEPT !.id = Absent, !.tool = ResolveToolName(ts, i, e.id)]
             part == PartsOf(ts, i)[e]
  <2>1. ResolveToolName(ts, i, e.id) \in Words
    BY <1>1, NameTyped
  <2>2. Describes(h)
    BY <1>1, <2>1, Descriptions
  <2>3. part = EntryPart(e, ts, i)
    BY <1>1 DEF PartsOf
  <2> HIDE DEF h, part
  <2>4. Each(<<WirePart("result", <<e>>, h)>>, CarriesIn) = <<e.n>>
    BY <1>1, <2>2, OneCarries
  <2>5. CASE e.kind = "text"
    BY <1>5, <1>6, <2>3, <2>5 DEF EntryPart, Dropped, part
  <2>6. CASE e.kind \in {"image", "blob"}
    <3>1. part = <<WirePart("inline", <<e>>, e)>>
      BY <1>2, <2>3, <2>6 DEF EntryPart
    <3> QED BY <1>5, <1>6, <2>6, <3>1 DEF Dropped, part
  <2>7. CASE e.kind = "call"
    <3>1. part = <<WirePart("call", <<e>>, g)>>
      BY <1>2, <2>3, <2>7 DEF EntryPart, g
    <3> QED BY <1>5, <1>6, <2>7, <3>1 DEF Dropped, part
  <2>8. CASE e.kind = "result"
    <3>1. part = <<WirePart("result", <<e>>, h)>>
      BY <1>2, <2>3, <2>8 DEF EntryPart, h
    <3> QED BY <1>6, <2>4, <2>8, <3>1 DEF Dropped, part
  <2>9. CASE e.kind \in {"audio", "link"}
    <3>1. part = <<>>
      BY <1>2, <2>3, <2>9 DEF EntryPart
    <3> QED BY <1>3, <1>6, <2>9, <3>1 DEF Dropped, part
  <2> QED BY <1>1, <1>2, <2>5, <2>6, <2>7, <2>8, <2>9 DEF EntryKinds
<1> QED BY <1>8, <1>9, <1>10, <1>11, <1>12

\* Entries that no step refuses, under the roles and in the order of a store.
Fits(d, t) ==
  /\ t \in Turns /\ Uniform(t) /\ InOrder(t)
  /\ \A j \in DOMAIN t.entries : t.entries[j] \in Fitting(d) /\ AsStored(t.entries[j])

\* A turn that fits is a list of entries that fit.
LEMMA FitsTyped ==
  ASSUME NEW d, NEW t, Fits(d, t)
  PROVE  t \in Turns /\ t.entries \in Seq(LogEntries) /\ t.entries \in Seq(Fitting(d))
<1> DEFINE s == t.entries
<1>1. t \in Turns /\ s \in Seq(LogEntries) /\ \A j \in DOMAIN s : s[j] \in Fitting(d)
  BY EntriesTyped DEF Fits
<1> HIDE DEF s
<1>2. s \in Seq(Fitting(d))
  BY <1>1
<1> QED BY <1>1, <1>2 DEF s

\* What entries become carries what they are numbered.
LEMMA EntriesCarry ==
  ASSUME NEW d, NEW t, Fits(d, t)
  PROVE  /\ Each(Each(t.entries, JsonOf), CarriesIn) = Each(t.entries, NumbersOf(Lasting))
         /\ Each(Each(t.entries, BlocksOf), CarriesIn) = Each(t.entries, NumbersOf(Blocks))
         /\ Each(Each(t.entries, CallsOf), CarriesIn) = Each(t.entries, NumbersOf(CallEntries))
         /\ Each(Each(t.entries, ResultsOf), CarriedBy) = Each(t.entries, NumbersOf(ResultEntries))
         /\ \A ts \in Seq(Turns) : \A i \in DOMAIN ts :
              Each(Each(t.entries, PartsOf(ts, i)), CarriesIn) = Each(t.entries, NumbersOf(Lasting))
<1> DEFINE s == t.entries
           F == Fitting(d)
<1>1. s \in Seq(F) /\ F \subseteq LogEntries
  BY FitsTyped DEF Fitting
<1> HIDE DEF s, F
<1>2. /\ Makes(JsonOf, F, WireParts) /\ Makes(BlocksOf, F, WireParts)
      /\ Makes(CallsOf, F, WireParts) /\ Makes(ResultsOf, F, Messages)
      /\ \A ts \in Seq(Turns) : \A i \in DOMAIN ts : Makes(PartsOf(ts, i), F, WireParts)
  BY <1>1, EntriesMake DEF Makes
<1>3. Makes(CarriesIn, WireParts, Nat) /\ Makes(CarriedBy, Messages, Nat)
  BY CarriesTyped
<1>4. \A e \in F :
        /\ NumbersOf(Lasting)[e] = Each(JsonOf[e], CarriesIn)
        /\ NumbersOf(Blocks)[e] = Each(BlocksOf[e], CarriesIn)
        /\ NumbersOf(CallEntries)[e] = Each(CallsOf[e], CarriesIn)
        /\ NumbersOf(ResultEntries)[e] = Each(ResultsOf[e], CarriedBy)
        /\ \A ts \in Seq(Turns) : \A i \in DOMAIN ts :
             NumbersOf(Lasting)[e] = Each(PartsOf(ts, i)[e], CarriesIn)
  BY EntryCarries DEF F
<1>5. Each(Each(s, JsonOf), CarriesIn) = Each(s, NumbersOf(Lasting))
  BY <1>1, <1>2, <1>3, <1>4, EachEach
<1>6. Each(Each(s, BlocksOf), CarriesIn) = Each(s, NumbersOf(Blocks))
  BY <1>1, <1>2, <1>3, <1>4, EachEach
<1>7. Each(Each(s, CallsOf), CarriesIn) = Each(s, NumbersOf(CallEntries))
  BY <1>1, <1>2, <1>3, <1>4, EachEach
<1>8. Each(Each(s, ResultsOf), CarriedBy) = Each(s, NumbersOf(ResultEntries))
  BY <1>1, <1>2, <1>3, <1>4, EachEach
<1>9. ASSUME NEW ts \in Seq(Turns), NEW i \in DOMAIN ts
      PROVE  Each(Each(s, PartsOf(ts, i)), CarriesIn) = Each(s, NumbersOf(Lasting))
  <2> DEFINE g == PartsOf(ts, i)
  <2>1. Makes(g, F, WireParts) /\ \A e \in F : NumbersOf(Lasting)[e] = Each(g[e], CarriesIn)
    BY <1>2, <1>4
  <2> HIDE DEF g
  <2>2. Each(Each(s, g), CarriesIn) = Each(s, NumbersOf(Lasting))
    BY <1>1, <1>3, <2>1, EachEach
  <2> QED BY <2>2 DEF g
<1> QED BY <1>5, <1>6, <1>7, <1>8, <1>9 DEF s

\* The contents of a turn.
LEMMA ContentCarries ==
  ASSUME NEW d, NEW t, Fits(d, t)
  PROVE  /\ AllText(t) => Each(TurnText(t), CarriesIn) = Each(t.entries, NumbersOf(Lasting))
         /\ Each(AnthropicContent(t), CarriesIn) = Each(t.entries, NumbersOf(Lasting))
         /\ Each(OpenAiContent(t), CarriesIn) = Each(t.entries, NumbersOf(Blocks))
         /\ ~HasBlock(t) => Each(t.entries, NumbersOf(Blocks)) = <<>>
<1> DEFINE s == t.entries
<1>1. t \in Turns /\ s \in Seq(LogEntries)
  BY FitsTyped
<1>2. \A j \in DOMAIN s : s[j] \in LogEntries
  BY <1>1
<1>3. /\ Each(Each(s, JsonOf), CarriesIn) = Each(s, NumbersOf(Lasting))
      /\ Each(Each(s, BlocksOf), CarriesIn) = Each(s, NumbersOf(Blocks))
  BY EntriesCarry
<1>4. Each(TurnText(t), CarriesIn) = Each(s, NumbersOf(TextEntries))
  BY <1>1, TextCarries
<1>5. ASSUME AllText(t) PROVE Each(TurnText(t), CarriesIn) = Each(s, NumbersOf(Lasting))
  <2>1. \A j \in DOMAIN s : NumbersOf(TextEntries)[s[j]] = NumbersOf(Lasting)[s[j]]
    BY <1>2, <1>5 DEF AllText, NumbersOf, TextEntries, Lasting, Dropped
  <2>2. Each(s, NumbersOf(TextEntries)) = Each(s, NumbersOf(Lasting))
    BY <2>1, EachAlike
  <2> QED BY <1>4, <2>2
<1>6. ASSUME OnlyText(t) PROVE Each(TurnText(t), CarriesIn) = Each(s, NumbersOf(Blocks))
  <2>1. \A j \in DOMAIN s : NumbersOf(TextEntries)[s[j]] = NumbersOf(Blocks)[s[j]]
    BY <1>2, <1>6 DEF OnlyText, IsBlock, NumbersOf, TextEntries, Lasting, Blocks, Dropped
  <2>2. Each(s, NumbersOf(TextEntries)) = Each(s, NumbersOf(Blocks))
    BY <2>1, EachAlike
  <2> QED BY <1>4, <2>2
<1>7. ASSUME ~HasBlock(t) PROVE Each(s, NumbersOf(Blocks)) = <<>>
  <2>1. \A j \in DOMAIN s : NumbersOf(Blocks)[s[j]] = <<>>
    BY <1>2, <1>7 DEF HasBlock, NumbersOf, Blocks
  <2> QED BY <1>1, <2>1, EachNothing
<1>8. Each(AnthropicContent(t), CarriesIn) = Each(s, NumbersOf(Lasting))
  BY <1>1, <1>3, <1>5, ContentsAre
<1>9. Each(OpenAiContent(t), CarriesIn) = Each(s, NumbersOf(Blocks))
  BY <1>1, <1>3, <1>6, ContentsAre
<1> QED BY <1>5, <1>7, <1>8, <1>9

\* A turn Gemini does not refuse is carried whole, but for what is dropped.
LEMMA GeminiCarries ==
  ASSUME NEW d, NEW ts \in Seq(Turns), NEW i \in DOMAIN ts, Fits(d, ts[i])
  PROVE  Each(GeminiContent(ts, i), CarriesIn) = Each(ts[i].entries, NumbersOf(Lasting))
<1>1. Each(Each(ts[i].entries, PartsOf(ts, i)), CarriesIn) = Each(ts[i].entries, NumbersOf(Lasting))
  BY EntriesCarry
<1>2. AllText(ts[i]) => Each(TurnText(ts[i]), CarriesIn) = Each(ts[i].entries, NumbersOf(Lasting))
  BY ContentCarries
<1> QED BY <1>1, <1>2, GeminiContentIs

\* A message carries what its parts do.
LEMMA MessageCarries ==
  ASSUME NEW role \in {"user", "assistant", "system", "tool"}, NEW parts \in Seq(WireParts)
  PROVE  /\ Message(role, parts) \in Messages
         /\ CarriedBy[Message(role, parts)] = Each(parts, CarriesIn)
         /\ Each(<<Message(role, parts)>>, CarriedBy) = Each(parts, CarriesIn)
<1> DEFINE m == Message(role, parts)
<1>1. m \in Messages /\ m.parts = parts
  BY DEF Message, Messages
<1> HIDE DEF m
<1>2. CarriedBy[m] = Each(parts, CarriesIn)
  BY <1>1 DEF CarriedBy
<1>3. CarriedBy[m] \in Seq(Nat)
  BY <1>1, CarriesTyped DEF Makes
<1>4. Each(<<m>>, CarriedBy) = CarriedBy[m]
  BY <1>1, <1>3, EachSingle
<1> QED BY <1>1, <1>2, <1>4 DEF m

\* A turn has calls or results, but not both: they have different roles.
LEMMA CallsOrResults ==
  ASSUME NEW t \in Turns, Uniform(t), \A j \in DOMAIN t.entries : AsStored(t.entries[j])
  PROVE  /\ (\E j \in DOMAIN t.entries : t.entries[j].kind = "call") =>
              t.role = "assistant" /\ \A j \in DOMAIN t.entries : t.entries[j].kind # "result"
         /\ ToolCalls(t) # <<>> => t.role = "assistant" /\ ToolMessages(t) = <<>>
         /\ ToolCalls(t) = <<>> => \A j \in DOMAIN t.entries : t.entries[j].kind # "call"
<1> DEFINE s == t.entries
<1>1. s \in Seq(LogEntries) /\ \A j \in DOMAIN s : s[j] \in LogEntries
  BY EntriesTyped
<1>2. ToolCalls(t) = Each(s, CallsOf) /\ ToolMessages(t) = Each(s, ResultsOf)
  BY ToolsAre
<1>3. ASSUME NEW j \in DOMAIN s, s[j].kind = "call"
      PROVE  t.role = "assistant" /\ \A k \in DOMAIN s : s[k].kind # "result"
  <2>1. t.role = "assistant"
    BY <1>3 DEF Uniform, AsStored
  <2>2. \A k \in DOMAIN s : s[k].kind = "result" => t.role = "user"
    BY DEF Uniform, AsStored
  <2> QED BY <2>1, <2>2
<1>4. \A e \in LogEntries : e.kind # "call" => CallsOf[e] = <<>>
  BY DEF CallsOf
<1>5. \A e \in LogEntries : e.kind # "result" => ResultsOf[e] = <<>>
  BY DEF ResultsOf
<1>6. ASSUME \A j \in DOMAIN s : s[j].kind # "call" PROVE ToolCalls(t) = <<>>
  <2>1. \A j \in DOMAIN s : CallsOf[s[j]] = <<>>
    BY <1>1, <1>4, <1>6
  <2> QED BY <1>1, <1>2, <2>1, EachNothing
<1>7. ASSUME \A j \in DOMAIN s : s[j].kind # "result" PROVE ToolMessages(t) = <<>>
  <2>1. \A j \in DOMAIN s : ResultsOf[s[j]] = <<>>
    BY <1>1, <1>5, <1>7
  <2> QED BY <1>1, <1>2, <2>1, EachNothing
<1>8. ASSUME ToolCalls(t) = <<>>, NEW j \in DOMAIN s PROVE s[j].kind # "call"
  <2>1. CallsOf[s[j]] = <<>>
    <3>1. Each(s, CallsOf) = <<>> /\ Makes(CallsOf, LogEntries, WireParts)
      BY <1>2, <1>8, EntriesMake
    <3> HIDE DEF s
    <3>2. \A k \in DOMAIN s : CallsOf[s[k]] = <<>>
      BY <1>1, <3>1, EachEmpty
    <3> QED BY <3>2
  <2>2. s[j] \in LogEntries
    BY <1>1
  <2>3. s[j].kind = "call" =>
          CallsOf[s[j]] = <<WirePart("call", <<s[j]>>, [s[j] EXCEPT !.meta = Absent])>>
    BY <2>2 DEF CallsOf, CallParts
  <2>4. \A x : <<x>> # <<>>
    OBVIOUS
  <2> QED BY <2>1, <2>3, <2>4
<1> QED BY <1>3, <1>6, <1>7, <1>8

\* A turn in OpenAI's dialect.
LEMMA TurnMessagesCarry ==
  ASSUME NEW d, NEW t, Fits(d, t)
  PROVE  Each(TurnMessages(t), CarriedBy) = Each(t.entries, NumbersOf(Lasting))
<1> DEFINE s == t.entries
           calls == ToolCalls(t)
           content == IF HasBlock(t) THEN OpenAiContent(t) ELSE <<>>
           results == ToolMessages(t)
           one == Message("assistant", content \o calls)
           other == Message(t.role, content)
           B == NumbersOf(Blocks)
           C == NumbersOf(CallEntries)
           R == NumbersOf(ResultEntries)
           L == NumbersOf(Lasting)
<1>1. /\ t \in Turns /\ s \in Seq(LogEntries) /\ Uniform(t) /\ InOrder(t)
      /\ t.role \in {"user", "assistant", "system", "tool"}
      /\ \A j \in DOMAIN s : s[j] \in LogEntries /\ AsStored(s[j])
  <2>1. t \in Turns /\ s \in Seq(LogEntries) /\ t.role \in {"user", "assistant", "system", "tool"}
    BY FitsTyped DEF Turns
  <2> QED BY <2>1 DEF Fits
<1>2. TurnMessages(t) = IF calls # <<>> THEN <<one>> \o results
                        ELSE IF HasBlock(t) \/ results = <<>> THEN Append(results, other)
                        ELSE results
  BY DEF TurnMessages
<1>3. /\ Each(content, CarriesIn) = Each(s, B)
      /\ Each(calls, CarriesIn) = Each(s, C)
      /\ Each(results, CarriedBy) = Each(s, R)
      /\ ~HasBlock(t) => content = <<>> /\ Each(s, B) = <<>>
  <2>1. Each(calls, CarriesIn) = Each(s, C) /\ Each(results, CarriedBy) = Each(s, R)
    BY <1>1, EntriesCarry, ToolsAre
  <2>2. Each(OpenAiContent(t), CarriesIn) = Each(s, B) /\ (~HasBlock(t) => Each(s, B) = <<>>)
    BY ContentCarries
  <2>3. Each(<<>>, CarriesIn) = <<>>
    BY EachNone
  <2> QED BY <2>1, <2>2, <2>3
<1>4. content \in Seq(WireParts) /\ calls \in Seq(WireParts) /\ results \in Seq(Messages)
  <2>1. Messages = MessagesIn(WireParts)
    BY DEF Messages, MessagesIn
  <2>2. LogEntries \in SUBSET LogEntries /\ TurnText(t) \in Seq(WireParts)
    BY <1>1, TurnTextTyped
  <2>3. OpenAiContent(t) \in Seq(WireParts) /\ calls \in Seq(WireParts) /\ results \in Seq(Messages)
    BY <1>1, <2>1, <2>2, ContentsIn, EntriesMake
  <2>4. <<>> \in Seq(WireParts)
    OBVIOUS
  <2> QED BY <2>3, <2>4
<1>5. /\ Makes(B, LogEntries, Nat) /\ Makes(C, LogEntries, Nat) /\ Makes(R, LogEntries, Nat)
      /\ Makes(CarriesIn, WireParts, Nat) /\ Makes(CarriedBy, Messages, Nat)
  BY CarriesTyped
<1>6. \A j \in DOMAIN s : \A i \in 1..(j - 1) :
        i \in DOMAIN s /\ (s[i].kind = "call" => ~IsBlock(s[j])) /\ (IsBlock(s[i]) => s[j].kind # "result")
  BY <1>1 DEF InOrder
<1>7. CASE calls # <<>>
  <2> DEFINE A == Lasting \ ResultEntries
             K == NumbersOf(A)
  <2>1. results = <<>> /\ \A j \in DOMAIN s : s[j].kind # "result"
    <3>1. results = <<>>
      BY <1>1, <1>7, CallsOrResults
    <3>2. Each(s, R) = <<>>
      BY <1>3, <3>1, EachNone
    <3>3. \A j \in DOMAIN s : R[s[j]] = <<>>
      BY <1>1, <1>5, <3>2, EachEmpty
    <3>4. \A x : <<x>> # <<>>
      OBVIOUS
    <3>5. \A j \in DOMAIN s : s[j] \notin ResultEntries
      BY <1>1, <3>3, <3>4 DEF NumbersOf
    <3> QED BY <1>1, <3>1, <3>5 DEF ResultEntries
  <2>2. content \o calls \in Seq(WireParts)
    BY <1>4
  <2>3. one \in Messages /\ Each(<<one>>, CarriedBy) = Each(content \o calls, CarriesIn)
    BY <2>2, MessageCarries
  <2>4. Each(content \o calls, CarriesIn) = Each(s, B) \o Each(s, C)
    <3> HIDE DEF content, calls, s
    <3>1. Each(content \o calls, CarriesIn) = Each(content, CarriesIn) \o Each(calls, CarriesIn)
      BY <1>4, <1>5, EachBoth
    <3> QED BY <1>3, <3>1
  <2>5. TurnMessages(t) = <<one>>
    <3> HIDE DEF one, results
    <3>1. <<one>> \o <<>> = <<one>>
      OBVIOUS
    <3> QED BY <1>2, <1>7, <2>1, <3>1
  <2>6. \A e \in LogEntries : (B[e] = <<>> /\ K[e] = C[e]) \/ (C[e] = <<>> /\ K[e] = B[e])
    BY DEF NumbersOf, Blocks, CallEntries, Lasting, ResultEntries, IsBlock, Dropped
  <2>7. \A j \in DOMAIN s : B[s[j]] # <<>> => \A i \in 1..(j - 1) : C[s[i]] = <<>>
    <3> SUFFICES ASSUME NEW j \in DOMAIN s, B[s[j]] # <<>>, NEW i \in 1..(j - 1) PROVE C[s[i]] = <<>>
      OBVIOUS
    <3>1. s[j] \in Blocks
      BY <1>1 DEF NumbersOf
    <3>2. i \in DOMAIN s /\ s[i].kind # "call"
      BY <1>6, <3>1 DEF Blocks
    <3> QED BY <1>1, <3>2 DEF NumbersOf, CallEntries
  <2> HIDE DEF s, K
  <2>8. Each(s, B) \o Each(s, C) = Each(s, K)
    BY <1>1, <1>5, <2>6, <2>7, EachSorted, SMTT(30)
  <2>9. \A j \in DOMAIN s : K[s[j]] = L[s[j]]
    BY <1>1, <2>1 DEF K, NumbersOf, ResultEntries
  <2>10. Each(s, K) = Each(s, L)
    BY <2>9, EachAlike
  <2> QED BY <2>3, <2>4, <2>5, <2>8, <2>10 DEF s
<1>8. CASE calls = <<>>
  <2> DEFINE A == Lasting \ CallEntries
             K == NumbersOf(A)
  <2>1. \A j \in DOMAIN s : s[j].kind # "call"
    BY <1>1, <1>8, CallsOrResults
  <2>2. other \in Messages /\ CarriedBy[other] = Each(content, CarriesIn)
    BY <1>1, <1>4, MessageCarries
  <2>3. Each(TurnMessages(t), CarriedBy) = Each(s, R) \o Each(s, B)
    <3>1. CASE HasBlock(t) \/ results = <<>>
      <4>1. TurnMessages(t) = Append(results, other)
        BY <1>2, <1>8, <3>1
      <4> HIDE DEF results, other, content, s
      <4>2. Each(Append(results, other), CarriedBy) = Each(results, CarriedBy) \o CarriedBy[other]
        BY <1>4, <2>2, EachMore
      <4> QED BY <1>3, <2>2, <4>1, <4>2
    <3>2. CASE ~(HasBlock(t) \/ results = <<>>)
      <4>1. TurnMessages(t) = results
        BY <1>2, <1>8, <3>2
      <4>2. Each(s, R) \in Seq(Nat)
        BY <1>1, <1>5, EachTyped
      <4>3. Each(s, R) \o <<>> = Each(s, R)
        <5> DEFINE r == Each(s, R)
        <5> HIDE DEF r
        <5>1. r \o <<>> = r
          BY <4>2 DEF r
        <5> QED BY <5>1 DEF r
      <4> QED BY <1>3, <3>2, <4>1, <4>3
    <3> QED BY <3>1, <3>2
  <2>4. \A e \in LogEntries : (R[e] = <<>> /\ K[e] = B[e]) \/ (B[e] = <<>> /\ K[e] = R[e])
    BY DEF NumbersOf, Blocks, CallEntries, Lasting, ResultEntries, IsBlock, Dropped
  <2>5. \A j \in DOMAIN s : R[s[j]] # <<>> => \A i \in 1..(j - 1) : B[s[i]] = <<>>
    <3> SUFFICES ASSUME NEW j \in DOMAIN s, R[s[j]] # <<>>, NEW i \in 1..(j - 1) PROVE B[s[i]] = <<>>
      OBVIOUS
    <3>1. s[j].kind = "result"
      BY <1>1 DEF NumbersOf, ResultEntries
    <3>2. i \in DOMAIN s /\ ~IsBlock(s[i])
      BY <1>6, <3>1
    <3> QED BY <1>1, <3>2 DEF NumbersOf, Blocks
  <2> HIDE DEF s, K
  <2>6. Each(s, R) \o Each(s, B) = Each(s, K)
    BY <1>1, <1>5, <2>4, <2>5, EachSorted
  <2>7. \A j \in DOMAIN s : K[s[j]] = L[s[j]]
    BY <1>1, <2>1 DEF K, NumbersOf, CallEntries
  <2>8. Each(s, K) = Each(s, L)
    BY <2>7, EachAlike
  <2> QED BY <2>3, <2>6, <2>8 DEF s
<1> QED BY <1>7, <1>8

\* A turn in any dialect.
LEMMA TurnCarries ==
  ASSUME NEW d, NEW ts \in Seq(Turns), NEW i \in DOMAIN ts, Fits(d, ts[i])
  PROVE  Each(MessagesOf(d, ts, i), CarriedBy) = Each(ts[i].entries, NumbersOf(Lasting))
<1> DEFINE t == ts[i]
<1>1. t \in Turns
  OBVIOUS
<1>2. t.role \in {"user", "assistant", "system", "tool"}
  BY <1>1 DEF Turns
<1>3. TurnText(t) \in Seq(WireParts) /\ LogEntries \in SUBSET LogEntries /\ t.entries \in Seq(LogEntries)
  BY <1>1, TurnTextTyped, EntriesTyped
<1>4. CASE d = "anthropic"
  <2>1. AnthropicContent(t) \in Seq(WireParts)
    BY <1>1, <1>3, EntriesMake, ContentsIn
  <2>2. Each(<<Message(t.role, AnthropicContent(t))>>, CarriedBy) = Each(AnthropicContent(t), CarriesIn)
    BY <1>2, <2>1, MessageCarries
  <2>3. MessagesOf(d, ts, i) = <<Message(t.role, AnthropicContent(t))>>
    BY <1>4 DEF MessagesOf
  <2>4. Each(AnthropicContent(t), CarriesIn) = Each(t.entries, NumbersOf(Lasting))
    BY ContentCarries
  <2> QED BY <2>2, <2>3, <2>4
<1>5. CASE d = "gemini"
  <2>1. GeminiContent(ts, i) \in Seq(WireParts)
    BY <1>3, EntriesMake, GeminiContentIn
  <2>2. Each(<<Message(t.role, GeminiContent(ts, i))>>, CarriedBy) = Each(GeminiContent(ts, i), CarriesIn)
    BY <1>2, <2>1, MessageCarries
  <2>3. MessagesOf(d, ts, i) = <<Message(t.role, GeminiContent(ts, i))>>
    BY <1>5 DEF MessagesOf
  <2>4. Each(GeminiContent(ts, i), CarriesIn) = Each(t.entries, NumbersOf(Lasting))
    BY GeminiCarries
  <2> QED BY <2>2, <2>3, <2>4
<1>6. CASE d \notin {"anthropic", "gemini"}
  <2>1. MessagesOf(d, ts, i) = TurnMessages(t)
    BY <1>6 DEF MessagesOf
  <2> QED BY <2>1, TurnMessagesCarry
<1> QED BY <1>4, <1>5, <1>6

-----------------------------------------------------------------------------
(* What a body carries.                                                     *)

\* What a joined list carries is what its pieces carry, joined.
LEMMA JoinedEach ==
  ASSUME NEW T, NEW U, NEW g, NEW parts \in Seq(Seq(T)), Makes(g, T, U)
  PROVE  Each(Whole(parts), g) = Joined([i \in DOMAIN parts |-> Each(parts[i], g)], Len(parts))
<1> DEFINE S == Seq(T)
           self == [x \in S |-> x]
           h == [x \in S |-> Each(x, g)]
<1>1. parts \in Seq(S) /\ \A i \in DOMAIN parts : parts[i] \in S
  OBVIOUS
<1>2. Makes(self, S, T) /\ \A x \in S : h[x] = Each(self[x], g)
  BY DEF Makes
<1>3. Mapped(parts, self) = parts
  <2>1. Mapped(parts, self) = [i \in DOMAIN parts |-> parts[i]]
    BY <1>1 DEF Mapped
  <2>2. parts = [i \in DOMAIN parts |-> parts[i]]
    BY <1>1
  <2> QED BY <2>1, <2>2
<1>4. Mapped(parts, h) = [i \in DOMAIN parts |-> Each(parts[i], g)]
  BY <1>1 DEF Mapped
<1> HIDE DEF S, self, h
<1>5. Each(Each(parts, self), g) = Each(parts, h)
  BY <1>1, <1>2, EachEach
<1>6. Each(parts, self) = Whole(parts)
  BY <1>3 DEF Each, Whole
<1> QED BY <1>4, <1>5, <1>6 DEF Each

\* What the system said, and what the others said that is not dropped.
Instructions == {e \in LogEntries : e.role = "system"}
Heard == {e \in Lasting : e.role # "system"}

\* The entries of the turns that are in a set.
LEMMA TurnsNumbered ==
  ASSUME NEW ts \in Seq(Turns), NEW A
  PROVE  Each(Each(ts, EntriesIn), NumbersOf(A)) =
           Joined([i \in DOMAIN ts |-> Each(ts[i].entries, NumbersOf(A))], Len(ts))
<1> DEFINE h == [t \in Turns |-> Each(EntriesIn[t], NumbersOf(A))]
<1>1. \A t \in Turns : h[t] = Each(EntriesIn[t], NumbersOf(A))
  OBVIOUS
<1> HIDE DEF h
<1>2. Each(Each(ts, EntriesIn), NumbersOf(A)) = Each(ts, h)
  BY <1>1, EntriesTyped, CarriesTyped, EachEach
<1>3. \A i \in DOMAIN ts : h[ts[i]] = Each(ts[i].entries, NumbersOf(A))
  <2> SUFFICES ASSUME NEW i \in DOMAIN ts PROVE h[ts[i]] = Each(ts[i].entries, NumbersOf(A))
    OBVIOUS
  <2>1. ts[i] \in Turns
    OBVIOUS
  <2> QED BY <1>1, <2>1 DEF EntriesIn
<1>4. Mapped(ts, h) = [i \in DOMAIN ts |-> Each(ts[i].entries, NumbersOf(A))]
  BY <1>3 DEF Mapped
<1> QED BY <1>2, <1>4 DEF Each

\* Messages of turns that fit carry what the turns hold and no system entry.
LEMMA MessagesCarry ==
  ASSUME NEW d, NEW ts \in Seq(Turns), \A i \in DOMAIN ts : Fits(d, ts[i])
  PROVE  Each(Whole(Encoded(d, ts)), CarriedBy) = Each(Each(ts, EntriesIn), NumbersOf(Heard))
<1> DEFINE enc == Encoded(d, ts)
           carried == [i \in DOMAIN ts |-> Each(ts[i].entries, NumbersOf(Heard))]
<1>1. enc \in Seq(Seq(Messages)) /\ Len(enc) = Len(ts)
  BY EncodedTyped
<1>2. DOMAIN enc = DOMAIN ts
  BY DEF Encoded
<1>3. \A i \in DOMAIN ts : Each(enc[i], CarriedBy) = Each(ts[i].entries, NumbersOf(Heard))
  <2> SUFFICES ASSUME NEW i \in DOMAIN ts
               PROVE  Each(enc[i], CarriedBy) = Each(ts[i].entries, NumbersOf(Heard))
    OBVIOUS
  <2> DEFINE t == ts[i]
             s == t.entries
  <2>1. Fits(d, t)
    OBVIOUS
  <2>2. t \in Turns /\ s \in Seq(LogEntries)
    BY <2>1, FitsTyped
  <2>3. \A j \in DOMAIN s : s[j] \in LogEntries /\ s[j].role = t.role
    BY <2>1, <2>2 DEF Fits, Uniform
  <2>4. enc[i] = IF IsSystem(t) THEN <<>> ELSE MessagesOf(d, ts, i)
    BY DEF Encoded
  <2> HIDE DEF t, s, enc
  <2>5. CASE IsSystem(t)
    <3>1. \A j \in DOMAIN s : NumbersOf(Heard)[s[j]] = <<>>
      BY <2>3, <2>5 DEF IsSystem, NumbersOf, Heard
    <3>2. Each(s, NumbersOf(Heard)) = <<>>
      BY <2>2, <3>1, EachNothing
    <3> QED BY <2>4, <2>5, <3>2, EachNone DEF s, t
  <2>6. CASE ~IsSystem(t)
    <3>1. Each(MessagesOf(d, ts, i), CarriedBy) = Each(s, NumbersOf(Lasting))
      BY <2>1, TurnCarries DEF s, t
    <3>2. \A j \in DOMAIN s : NumbersOf(Lasting)[s[j]] = NumbersOf(Heard)[s[j]]
      BY <2>3, <2>6 DEF IsSystem, NumbersOf, Heard
    <3>3. Each(s, NumbersOf(Lasting)) = Each(s, NumbersOf(Heard))
      BY <3>2, EachAlike
    <3> QED BY <2>4, <2>6, <3>1, <3>3 DEF s, t
  <2> QED BY <2>5, <2>6
<1> HIDE DEF enc
<1>4. Each(Whole(enc), CarriedBy) = Joined([i \in DOMAIN enc |-> Each(enc[i], CarriedBy)], Len(enc))
  BY <1>1, CarriesTyped, JoinedEach
<1>5. [i \in DOMAIN enc |-> Each(enc[i], CarriedBy)] = carried
  BY <1>2, <1>3
<1> QED BY <1>1, <1>4, <1>5, TurnsNumbered DEF enc

\* What the system said, in its slot.
LEMMA SystemCarries ==
  ASSUME NEW d, NEW ts \in Seq(Turns), \A i \in DOMAIN ts : Fits(d, ts[i])
  PROVE  /\ Whole(SystemSays(d, ts)) \in Seq(WireParts)
         /\ Each(Whole(SystemSays(d, ts)), CarriesIn) =
              Each(Each(ts, EntriesIn), NumbersOf(Instructions))
<1> DEFINE said == SystemSays(d, ts)
           carried == [i \in DOMAIN ts |-> Each(ts[i].entries, NumbersOf(Instructions))]
<1>1. DOMAIN said = DOMAIN ts
  BY DEF SystemSays
<1>2. ASSUME NEW i \in DOMAIN ts
      PROVE  /\ said[i] \in Seq(WireParts)
             /\ Each(said[i], CarriesIn) = Each(ts[i].entries, NumbersOf(Instructions))
  <2> DEFINE t == ts[i]
             s == t.entries
             ms == TurnMessages(t)
  <2>1. Fits(d, t)
    OBVIOUS
  <2>2. t \in Turns /\ s \in Seq(LogEntries)
    BY <2>1, FitsTyped
  <2>3. \A j \in DOMAIN s : s[j] \in LogEntries /\ s[j].role = t.role /\ AsStored(s[j])
    BY <2>1, <2>2 DEF Fits, Uniform
  <2>4. said[i] = IF ~IsSystem(t) THEN <<>>
                  ELSE IF d = "openai" THEN Over(ms, LAMBDA m : m.parts)
                  ELSE TurnText(t)
    BY DEF SystemSays
  <2> HIDE DEF t, s, ms, said
  <2>5. CASE ~IsSystem(t)
    <3>1. \A j \in DOMAIN s : NumbersOf(Instructions)[s[j]] = <<>>
      BY <2>3, <2>5 DEF IsSystem, NumbersOf, Instructions
    <3>2. Each(s, NumbersOf(Instructions)) = <<>>
      BY <2>2, <3>1, EachNothing
    <3>3. said[i] = <<>> /\ <<>> \in Seq(WireParts)
      BY <2>4, <2>5
    <3> QED BY <3>2, <3>3, EachNone DEF s, t
  <2>6. CASE IsSystem(t)
    <3>1. \A j \in DOMAIN s : s[j].kind = "text" /\ s[j].role = "system"
      BY <2>3, <2>6 DEF IsSystem, AsStored
    <3>2. \A j \in DOMAIN s :
            /\ NumbersOf(TextEntries)[s[j]] = NumbersOf(Instructions)[s[j]]
            /\ NumbersOf(Lasting)[s[j]] = NumbersOf(Instructions)[s[j]]
      BY <2>3, <3>1 DEF NumbersOf, Instructions, TextEntries, Lasting, Dropped
    <3>3. /\ Each(s, NumbersOf(TextEntries)) = Each(s, NumbersOf(Instructions))
          /\ Each(s, NumbersOf(Lasting)) = Each(s, NumbersOf(Instructions))
      BY <3>2, EachAlike
    <3>4. CASE d = "openai"
      <4>1. ms \in Seq(Messages)
        BY <2>2, EncodedTyped DEF ms
      <4>2. [j \in DOMAIN ms |-> ms[j].parts] = Mapped(ms, PartsIn)
        BY <4>1 DEF Mapped, PartsIn
      <4>3. said[i] = Each(ms, PartsIn)
        BY <2>4, <2>6, <3>4, <4>2 DEF Over, Each
      <4>4. Makes(PartsIn, Messages, WireParts) /\ \A m \in Messages : CarriedBy[m] = Each(PartsIn[m], CarriesIn)
        BY DEF Makes, PartsIn, CarriedBy, Messages
      <4>5. Each(Each(ms, PartsIn), CarriesIn) = Each(ms, CarriedBy)
        BY <4>1, <4>4, CarriesTyped, EachEach
      <4>6. Each(ms, PartsIn) \in Seq(WireParts)
        BY <4>1, <4>4, EachTyped
      <4>7. Each(ms, CarriedBy) = Each(s, NumbersOf(Lasting))
        BY <2>1, TurnMessagesCarry DEF ms, s
      <4> QED BY <3>3, <4>3, <4>5, <4>6, <4>7 DEF s, t
    <3>5. CASE d # "openai"
      <4>1. said[i] = TurnText(t)
        BY <2>4, <2>6, <3>5
      <4>2. TurnText(t) \in Seq(WireParts) /\ Each(TurnText(t), CarriesIn) = Each(s, NumbersOf(TextEntries))
        BY <2>2, TurnTextTyped, TextCarries DEF s
      <4> QED BY <3>3, <4>1, <4>2 DEF s, t
    <3> QED BY <3>4, <3>5
  <2> QED BY <2>5, <2>6
<1>3. said \in Seq(Seq(WireParts)) /\ Len(said) = Len(ts)
  <2> DEFINE W == Seq(WireParts)
             n == Len(ts)
  <2>1. n \in Nat /\ DOMAIN ts = 1..n
    OBVIOUS
  <2>2. said = [i \in DOMAIN ts |-> said[i]]
    BY DEF SystemSays
  <2>3. \A i \in 1..n : said[i] \in W
    BY <1>2, <2>1
  <2> HIDE DEF said, W, n
  <2>4. said \in Seq(W) /\ Len(said) = n
    BY <2>1, <2>2, <2>3
  <2> QED BY <2>4 DEF W, n
<1> HIDE DEF said
<1>4. Whole(said) \in Seq(WireParts)
  BY <1>3, JoinedTyped
<1>5. Each(Whole(said), CarriesIn) = Joined([i \in DOMAIN said |-> Each(said[i], CarriesIn)], Len(said))
  BY <1>3, CarriesTyped, JoinedEach
<1>6. [i \in DOMAIN said |-> Each(said[i], CarriesIn)] = carried
  BY <1>1, <1>2
<1> QED BY <1>3, <1>4, <1>5, <1>6, TurnsNumbered DEF said

-----------------------------------------------------------------------------
(* What the parts of a body say.                                            *)

\* Parts that say what they should of the entries they carry.
TrueParts(d, log) ==
  {p \in WireParts :
     /\ p.type = "image" => p.mime = "image"
     /\ p.type = "document" => p.mime \in {"pdf", "plain"}
     /\ p.type = "inline" => p.mime \in {"image", "pdf"}
     /\ p.type = "call" /\ d = "gemini" => p.meta = log[p.carries[1]].meta}

\* Entries that are what the log has under their number.
Kept(d, log) == {e \in Fitting(d) : log[e.n] = e}

\* One part that tells of one entry is true if its kind and its type agree.
LEMMA OneTrue ==
  ASSUME NEW d, NEW log, NEW e \in LogEntries, NEW f, Describes(f),
         NEW type \in {"text", "image", "document", "inline", "call", "result"},
         type = "image" => f.mime = "image",
         type = "document" => f.mime \in {"pdf", "plain"},
         type = "inline" => f.mime \in {"image", "pdf"},
         type = "call" /\ d = "gemini" => f.meta = log[e.n].meta
  PROVE  <<WirePart(type, <<e>>, f)>> \in Seq(TrueParts(d, log))
<1> DEFINE part == WirePart(type, <<e>>, f)
<1>1. <<e>> \in Seq(LogEntries)
  OBVIOUS
<1>2. part \in WireParts
  BY <1>1, PartTyped
<1>3. part.type = type /\ part.mime = f.mime /\ part.meta = f.meta
  BY DEF WirePart
<1>4. part.carries[1] = e.n
  <2>1. part.carries = [i \in DOMAIN <<e>> |-> <<e>>[i].n]
    BY DEF WirePart
  <2> QED BY <2>1
<1> HIDE DEF part
<1>5. part \in TrueParts(d, log)
  BY <1>2, <1>3, <1>4 DEF TrueParts
<1>6. <<part>> \in Seq(TrueParts(d, log))
  BY <1>5
<1> QED BY <1>6 DEF part

\* The text of a turn is a true part.
LEMMA TextTrue ==
  ASSUME NEW d, NEW log, NEW t \in Turns
  PROVE  TurnText(t) \in Seq(TrueParts(d, log))
<1> DEFINE part == WirePart("text", Texts(t), NoEntry)
<1>1. part \in WireParts
  BY TextsAre, Descriptions, PartTyped
<1>2. part.type = "text" /\ TurnText(t) = <<part>>
  BY DEF WirePart, TurnText
<1> HIDE DEF part
<1>3. part \in TrueParts(d, log)
  BY <1>1, <1>2 DEF TrueParts
<1> QED BY <1>2, <1>3

\* What a provider is told of an entry it takes is true of that entry.
LEMMA EntryTrue ==
  ASSUME NEW d \in {"anthropic", "gemini", "openai"}, NEW log, NEW e \in Kept(d, log)
  PROVE  /\ d = "anthropic" => JsonOf[e] \in Seq(TrueParts(d, log))
         /\ d = "openai" => BlocksOf[e] \in Seq(TrueParts(d, log))
         /\ d = "openai" => CallsOf[e] \in Seq(TrueParts(d, log))
         /\ d = "openai" => ResultsOf[e] \in Seq(MessagesIn(TrueParts(d, log)))
         /\ d = "gemini" => \A ts \in Seq(Turns) : \A i \in DOMAIN ts :
                              PartsOf(ts, i)[e] \in Seq(TrueParts(d, log))
<1> DEFINE P == TrueParts(d, log)
           f == [e EXCEPT !.meta = Absent]
           g == [e EXCEPT !.id = Absent]
<1>1. e \in LogEntries /\ e.id \in Words /\ log[e.n] = e
  BY DEF Kept, Fitting, LogEntries
<1>2. /\ e.kind # "document" /\ (BinaryBlock(e) => e.kind \in {"image", "blob"})
      /\ e.kind = "image" => e.mime = "image"
      /\ e.kind = "blob" => Accepts(d, e.mime)
  BY DEF Kept, Fitting, BinaryBlock, Absent
<1>3. Describes(NoEntry) /\ Describes(e) /\ Describes(f) /\ Describes(g) /\ g.meta = e.meta
  BY <1>1, Descriptions DEF LogEntries
<1> HIDE DEF f, g
<1>4. /\ <<>> \in Seq(P)
      /\ <<WirePart("text", <<e>>, NoEntry)>> \in Seq(P)
      /\ <<WirePart("result", <<e>>, e)>> \in Seq(P)
  <2>1. <<WirePart("text", <<e>>, NoEntry)>> \in Seq(P)
    BY <1>1, <1>3, OneTrue
  <2>2. <<WirePart("result", <<e>>, e)>> \in Seq(P)
    BY <1>1, <1>3, OneTrue
  <2> HIDE DEF P
  <2> QED BY <2>1, <2>2
<1>5. ASSUME d = "anthropic" PROVE JsonOf[e] \in Seq(P)
  <2>1. JsonOf[e] = EntryJson(e)
    BY <1>1 DEF JsonOf
  <2>2. <<WirePart("call", <<e>>, f)>> \in Seq(P)
    BY <1>1, <1>3, <1>5, OneTrue
  <2>3. BinaryBlock(e) => e.mime \in {"image", "pdf", "plain"}
    BY <1>2, <1>5 DEF Accepts, AnthropicAccepts
  <2>4. e.mime = "image" => <<WirePart("image", <<e>>, e)>> \in Seq(P)
    BY <1>1, <1>3, OneTrue
  <2>5. e.mime \in {"pdf", "plain"} => <<WirePart("document", <<e>>, e)>> \in Seq(P)
    BY <1>1, <1>3, OneTrue
  <2>6. CASE BinaryBlock(e)
    <3>1. JsonOf[e] = <<WirePart(IF e.mime = "image" THEN "image" ELSE "document", <<e>>, e)>>
      <4>1. e.kind # "text"
        BY <1>2, <2>6
      <4> QED BY <1>2, <2>1, <2>6, <4>1 DEF EntryJson
    <3>2. CASE e.mime = "image"
      BY <2>4, <3>1, <3>2
    <3>3. CASE e.mime # "image"
      BY <2>3, <2>5, <2>6, <3>1, <3>3
    <3> QED BY <3>2, <3>3
  <2>7. CASE ~BinaryBlock(e)
    <3> HIDE DEF P
    <3> QED BY <1>4, <2>1, <2>2, <2>7 DEF EntryJson, f
  <2> QED BY <2>6, <2>7
<1>6. ASSUME d = "openai" PROVE BlocksOf[e] \in Seq(P)
  <2>1. BlocksOf[e] = ContentPart(e)
    BY <1>1 DEF BlocksOf
  <2>2. BinaryBlock(e) => e.mime = "image"
    BY <1>2, <1>6 DEF Accepts, OpenAiAccepts
  <2>3. BinaryBlock(e) => <<WirePart("image", <<e>>, e)>> \in Seq(P)
    BY <1>1, <1>3, <2>2, OneTrue
  <2> HIDE DEF P
  <2> QED BY <1>4, <2>1, <2>3 DEF ContentPart
<1>7. ASSUME d = "openai" PROVE CallsOf[e] \in Seq(P)
  <2>1. <<WirePart("call", <<e>>, f)>> \in Seq(P)
    BY <1>1, <1>3, <1>7, OneTrue
  <2>2. CallsOf[e] = IF e.kind = "call" THEN <<WirePart("call", <<e>>, f)>> ELSE <<>>
    BY <1>1 DEF CallsOf, CallParts, f
  <2> HIDE DEF P
  <2> QED BY <1>4, <2>1, <2>2
<1>8. ASSUME d = "openai" PROVE ResultsOf[e] \in Seq(MessagesIn(P))
  <2> DEFINE parts == <<WirePart("result", <<e>>, e)>>
             m == Message("tool", parts)
             M == MessagesIn(P)
  <2>1. ResultsOf[e] = IF e.kind = "result" THEN <<m>> ELSE <<>>
    BY <1>1 DEF ResultsOf, ResultMessages
  <2>2. parts \in Seq(P)
    BY <1>4
  <2> HIDE DEF parts, P
  <2>3. <<m>> \in Seq(M)
    BY <2>2, MessageIn
  <2> HIDE DEF m, M
  <2>4. <<>> \in Seq(M)
    OBVIOUS
  <2> QED BY <2>1, <2>3, <2>4 DEF M
<1>9. ASSUME d = "gemini", NEW ts \in Seq(Turns), NEW i \in DOMAIN ts
      PROVE  PartsOf(ts, i)[e] \in Seq(P)
  <2> DEFINE h == [e EXCEPT !.id = Absent, !.tool = ResolveToolName(ts, i, e.id)]
             part == PartsOf(ts, i)[e]
  <2>1. ResolveToolName(ts, i, e.id) \in Words
    BY <1>1, NameTyped
  <2>2. Describes(h)
    BY <1>1, <2>1, Descriptions
  <2>3. part = EntryPart(e, ts, i)
    BY <1>1 DEF PartsOf
  <2> HIDE DEF h, part
  <2>4. <<WirePart("result", <<e>>, h)>> \in Seq(P)
    BY <1>1, <2>2, OneTrue
  <2>5. BinaryBlock(e) => e.mime \in {"image", "pdf"}
    BY <1>2, <1>9 DEF Accepts, GeminiAccepts
  <2>6. BinaryBlock(e) => <<WirePart("inline", <<e>>, e)>> \in Seq(P)
    BY <1>1, <1>3, <2>5, OneTrue
  <2>7. <<WirePart("call", <<e>>, g)>> \in Seq(P)
    BY <1>1, <1>3, OneTrue
  <2> HIDE DEF P
  <2>8. part \in Seq(P)
    BY <1>4, <2>3, <2>4, <2>6, <2>7 DEF EntryPart, g, h
  <2> QED BY <2>8 DEF part
<1> QED BY <1>5, <1>6, <1>7, <1>8, <1>9

\* Every part of a body says so.
LEMMA BodyTrue ==
  ASSUME NEW d \in {"anthropic", "gemini", "openai"}, NEW ts \in Seq(Turns), NEW log,
         \A i \in DOMAIN ts : Fits(d, ts[i]) /\ \A j \in DOMAIN ts[i].entries :
                                log[ts[i].entries[j].n] = ts[i].entries[j]
  PROVE  Whole(Encoded(d, ts)) \in Seq(MessagesIn(TrueParts(d, log)))
<1> DEFINE P == TrueParts(d, log)
           E == Kept(d, log)
           M == MessagesIn(P)
           enc == Encoded(d, ts)
<1>1. E \in SUBSET LogEntries
  BY DEF Kept, Fitting
<1>2. /\ d = "anthropic" => Makes(JsonOf, E, P)
      /\ d = "openai" => Makes(BlocksOf, E, P) /\ Makes(CallsOf, E, P) /\ Makes(ResultsOf, E, M)
      /\ d = "gemini" => \A i \in DOMAIN ts : Makes(PartsOf(ts, i), E, P)
  BY EntryTrue DEF Makes
<1>3. ASSUME NEW i \in DOMAIN ts PROVE enc[i] \in Seq(M)
  <2> DEFINE s == ts[i].entries
  <2>1. ts[i] \in Turns /\ Fits(d, ts[i])
    OBVIOUS
  <2>2. s \in Seq(E)
    <3>1. s \in Seq(LogEntries)
      BY <2>1, EntriesTyped
    <3>2. \A j \in DOMAIN s : s[j] \in E
      BY <2>1 DEF Fits, Kept
    <3> HIDE DEF s, E
    <3> QED BY <3>1, <3>2
  <2>3. TurnText(ts[i]) \in Seq(P)
    BY <2>1, TextTrue
  <2>4. MessagesOf(d, ts, i) \in Seq(M)
    <3> HIDE DEF s, E, P
    <3> QED BY <1>1, <1>2, <2>2, <2>3, MessagesOfIn DEF s
  <2> HIDE DEF M
  <2>5. <<>> \in Seq(M)
    OBVIOUS
  <2> QED BY <2>4, <2>5 DEF Encoded
<1>4. Len(enc) = Len(ts) /\ DOMAIN enc = 1..Len(ts) /\ enc = [i \in 1..Len(ts) |-> enc[i]]
  BY EncodedTyped DEF Encoded
<1>5. enc \in Seq(Seq(M))
  <2> DEFINE S == Seq(M)
             n == Len(ts)
  <2>1. n \in Nat /\ DOMAIN ts = 1..n
    OBVIOUS
  <2> HIDE DEF enc, S, n, M
  <2>2. enc \in Seq(S)
    BY <1>3, <1>4, <2>1 DEF S, n
  <2> QED BY <2>2 DEF S
<1> HIDE DEF M, enc
<1>6. Whole(enc) \in Seq(M)
  BY <1>5, JoinedTyped
<1> QED BY <1>6 DEF M, P, enc

-----------------------------------------------------------------------------
(* The conversation of a request.                                           *)

\* What a member becomes is found in what the sequence becomes.
LEMMA EachHolds ==
  ASSUME NEW T, NEW U, NEW g, NEW s \in Seq(T), Makes(g, T, U)
  PROVE  \A i \in DOMAIN s : \A j \in DOMAIN g[s[i]] :
           \E k \in DOMAIN Each(s, g) : Each(s, g)[k] = g[s[i]][j]
<1> DEFINE Q(p) == \A i \in DOMAIN p : \A j \in DOMAIN g[p[i]] :
                     \E k \in DOMAIN Each(p, g) : Each(p, g)[k] = g[p[i]][j]
           P == {p \in Seq(T) : Q(p)}
<1>1. <<>> \in P
  OBVIOUS
<1>2. ASSUME NEW p \in Seq(T), p \in P, NEW x \in T PROVE Append(p, x) \in P
  <2> DEFINE a == Each(p, g)
             b == g[x]
             new == Append(p, x)
             whole == Each(new, g)
  <2>1. /\ new \in Seq(T) /\ DOMAIN new = 1..(Len(p) + 1) /\ DOMAIN p = 1..Len(p)
        /\ new[Len(p) + 1] = x /\ \A j \in 1..Len(p) : new[j] = p[j]
        /\ \A j \in DOMAIN new : j \in DOMAIN p \/ j = Len(p) + 1
    BY AppendIs
  <2>2. whole = a \o b
    BY EachMore
  <2>3. a \in Seq(U) /\ b \in Seq(U)
    BY EachTyped DEF Makes
  <2>4. Q(p)
    BY <1>2
  <2> HIDE DEF a, b, new
  <2>5. \A k \in DOMAIN a : k \in DOMAIN whole /\ whole[k] = a[k]
    BY <2>2, <2>3
  <2>6. \A k \in DOMAIN b : Len(a) + k \in DOMAIN whole /\ whole[Len(a) + k] = b[k]
    BY <2>2, <2>3
  <2> HIDE DEF whole
  <2>7. ASSUME NEW i \in DOMAIN new, NEW j \in DOMAIN g[new[i]]
        PROVE  \E k \in DOMAIN whole : whole[k] = g[new[i]][j]
    <3>1. CASE i \in DOMAIN p
      <4>1. new[i] = p[i]
        BY <2>1, <3>1
      <4>2. PICK k \in DOMAIN a : a[k] = g[new[i]][j]
        BY <2>4, <3>1, <4>1 DEF a
      <4> QED BY <2>5, <4>2
    <3>2. CASE i = Len(p) + 1
      <4>1. new[i] = x
        BY <2>1, <3>2
      <4>2. j \in DOMAIN b /\ g[new[i]][j] = b[j]
        BY <4>1 DEF b
      <4> QED BY <2>6, <4>2
    <3> QED BY <2>1, <3>1, <3>2
  <2> QED BY <2>1, <2>7 DEF new, whole
<1> HIDE DEF P
<1>3. Seq(T) \subseteq P
  BY <1>1, <1>2, EverySequence
<1> QED BY <1>3 DEF P

\* A numbered log.
LEMMA NumberedIs ==
  ASSUME NEW log, IsLog(log)
  PROVE  /\ Numbered(log) \in Seq(LogEntries)
         /\ DOMAIN Numbered(log) = DOMAIN log
         /\ \A i \in DOMAIN log : Numbered(log)[i].n = i /\ AsStored(Numbered(log)[i])
<1>1. log \in Seq(LogEntries) /\ \A i \in DOMAIN log : AsStored(log[i])
  BY DEF IsLog
<1>2. DOMAIN log = 1..Len(log) /\ Len(log) \in Nat /\ \A i \in DOMAIN log : i \in Nat /\ log[i] \in LogEntries
  BY <1>1
<1>3. \A i \in DOMAIN log : Numbered(log)[i] = [log[i] EXCEPT !.n = i]
  BY DEF Numbered
<1>4. ASSUME NEW e \in LogEntries, NEW n \in Nat
      PROVE  /\ [e EXCEPT !.n = n] \in LogEntries /\ [e EXCEPT !.n = n].n = n
             /\ AsStored(e) => AsStored([e EXCEPT !.n = n])
  <2> DEFINE f == [e EXCEPT !.n = n]
  <2>1. f.role = e.role /\ f.kind = e.kind /\ f.mime = e.mime /\ f.n = n
    BY DEF LogEntries
  <2>2. f \in LogEntries
    BY DEF LogEntries
  <2> HIDE DEF f
  <2>3. AsStored(e) => AsStored(f)
    BY <2>1 DEF AsStored
  <2> QED BY <2>1, <2>2, <2>3 DEF f
<1>5. \A i \in DOMAIN log :
        /\ Numbered(log)[i] \in LogEntries
        /\ Numbered(log)[i].n = i /\ AsStored(Numbered(log)[i])
  <2> SUFFICES ASSUME NEW i \in DOMAIN log
               PROVE  /\ Numbered(log)[i] \in LogEntries
                      /\ Numbered(log)[i].n = i /\ AsStored(Numbered(log)[i])
    OBVIOUS
  <2>1. i \in Nat /\ log[i] \in LogEntries /\ AsStored(log[i])
    BY <1>1, <1>2
  <2>2. /\ [log[i] EXCEPT !.n = i] \in LogEntries /\ [log[i] EXCEPT !.n = i].n = i
        /\ AsStored([log[i] EXCEPT !.n = i])
    BY <1>4, <2>1
  <2> QED BY <1>3, <2>2
<1>6. Numbered(log) = [i \in 1..Len(log) |-> Numbered(log)[i]] /\ DOMAIN Numbered(log) = DOMAIN log
  BY <1>2 DEF Numbered
<1> DEFINE new == Numbered(log)
<1> HIDE DEF new
<1>7. new \in Seq(LogEntries)
  BY <1>2, <1>5, <1>6 DEF new
<1> QED BY <1>5, <1>6, <1>7 DEF new

\* The context of a log is its turns, with every entry under its number.
LEMMA ContextIs ==
  ASSUME NEW log, IsLog(log)
  PROVE  /\ AreTurnsOf(Context(log), Numbered(log))
         /\ \A i \in DOMAIN Context(log) : \A j \in DOMAIN Context(log)[i].entries :
              LET e == Context(log)[i].entries[j]
              IN  e \in LogEntries /\ Numbered(log)[e.n] = e /\ AsStored(e)
<1> DEFINE ts == Context(log)
           entries == Numbered(log)
<1>1. entries \in Seq(LogEntries)
  BY NumberedIs
<1>2. AreTurnsOf(ts, entries)
  BY <1>1, TurnsOf DEF Context
<1>3. ts \in Seq(Turns) /\ Each(ts, EntriesIn) = entries
  BY <1>2 DEF AreTurnsOf
<1>4. \A k \in DOMAIN entries : entries[k].n = k /\ AsStored(entries[k])
  BY NumberedIs
<1> HIDE DEF ts, entries
<1>5. ASSUME NEW i \in DOMAIN ts, NEW j \in DOMAIN ts[i].entries
      PROVE  LET e == ts[i].entries[j]
             IN  e \in LogEntries /\ entries[e.n] = e /\ AsStored(e)
  <2>1. ts[i] \in Turns
    BY <1>3
  <2>2. EntriesIn[ts[i]] = ts[i].entries /\ ts[i].entries \in Seq(LogEntries)
    BY <2>1, EntriesTyped DEF EntriesIn
  <2>3. \A m \in DOMAIN ts : \A l \in DOMAIN EntriesIn[ts[m]] :
          \E k \in DOMAIN entries : entries[k] = EntriesIn[ts[m]][l]
    BY <1>3, EntriesTyped, EachHolds
  <2>4. PICK k \in DOMAIN entries : entries[k] = ts[i].entries[j]
    BY <2>2, <2>3
  <2>5. ts[i].entries[j] \in LogEntries
    BY <2>2
  <2> QED BY <1>4, <2>4, <2>5
<1> QED BY <1>2, <1>5 DEF ts, entries

\* What is known of a conversation that its provider does not refuse.
LEMMA Conversation ==
  ASSUME NEW log, NEW d, IsLog(log),
         \A k \in DOMAIN Context(log) : InOrder(Context(log)[k]),
         ~Unsupported(d, Context(log))
  PROVE  LET ts == Context(log)
         IN  /\ ts \in Seq(Turns)
             /\ Each(ts, EntriesIn) = Numbered(log) /\ Numbered(log) \in Seq(LogEntries)
             /\ \A i \in DOMAIN ts : Fits(d, ts[i]) /\ \A j \in DOMAIN ts[i].entries :
                  Numbered(log)[ts[i].entries[j].n] = ts[i].entries[j]
<1> DEFINE ts == Context(log)
           entries == Numbered(log)
<1>1. AreTurnsOf(ts, entries) /\ entries \in Seq(LogEntries)
  BY ContextIs, NumberedIs
<1>2. ASSUME NEW i \in DOMAIN ts, NEW j \in DOMAIN ts[i].entries
      PROVE  LET e == ts[i].entries[j]
             IN  e \in LogEntries /\ entries[e.n] = e /\ AsStored(e)
  BY ContextIs
<1>3. \A i \in DOMAIN ts : InOrder(ts[i])
  OBVIOUS
<1>4. ~Unsupported(d, ts)
  OBVIOUS
<1> HIDE DEF ts, entries
<1>5. ASSUME NEW i \in DOMAIN ts, NEW j \in DOMAIN ts[i].entries
      PROVE  ts[i].entries[j] \in Fitting(d)
  <2> DEFINE e == ts[i].entries[j]
  <2>1. e \in LogEntries /\ AsStored(e)
    BY <1>2
  <2>2. e.kind \in {"blob", "document"} => BinaryBlock(e) /\ Accepts(d, e.mime)
    BY <1>4 DEF Unsupported
  <2> HIDE DEF e
  <2>3. e \in Fitting(d)
    BY <2>1, <2>2 DEF AsStored, Fitting
  <2> QED BY <2>3 DEF e
<1>6. \A i \in DOMAIN ts : ts[i] \in Turns /\ Uniform(ts[i])
  BY <1>1 DEF AreTurnsOf
<1>7. \A i \in DOMAIN ts : Fits(d, ts[i])
  BY <1>2, <1>3, <1>5, <1>6 DEF Fits
<1> QED BY <1>1, <1>2, <1>7 DEF AreTurnsOf, ts, entries

\* While it is encoded, the context is that of the host's log, in the dialect
\* of the agent it asks for, and none that this agent refuses.
Encodable ==
  /\ stage \in {"building", "handling", "encoding", "encoded"} =>
       dialect = DialectOf(host[1].asks)
  /\ stage \in {"encoding", "encoded"} => turns = Context(host[1].log)
  /\ stage = "encoded" => ~Unsupported(agent[1].dialect, turns)

\* It holds before anything is built.
LEMMA EncodableInit == ByokInit => Encodable
BY DEF ByokInit, Encodable

\* No step undoes it: what refuses content comes before what encodes it.
LEMMA EncodableStep == Encodable /\ [ByokNext]_<<vars, byokVars>> => Encodable'
<1> SUFFICES ASSUME Encodable, [ByokNext]_<<vars, byokVars>> PROVE Encodable'
  OBVIOUS
<1>1. ASSUME UNCHANGED byokVars, stage = "posted" PROVE Encodable'
  BY <1>1 DEF Encodable, byokVars
<1>2. ASSUME UNCHANGED byokVars, UNCHANGED vars PROVE Encodable'
  BY <1>2 DEF Encodable, byokVars, vars, providerVars
<1>3. ASSUME Refuse PROVE Encodable'
  <2>1. stage' = "refused"
    BY <1>3 DEF Refuse
  <2> QED BY <2>1 DEF Encodable
<1>4. ASSUME BuildRuntime PROVE Encodable'
  <2>1. CASE stage = "building" /\ stage' = "handling" /\ UNCHANGED <<host, vars>>
    BY <2>1 DEF Encodable, vars, providerVars
  <2> QED BY <1>3, <1>4, <2>1 DEF BuildRuntime
<1>5. ASSUME Handle PROVE Encodable'
  <2>1. CASE /\ stage = "handling" /\ stage' = "encoding" /\ UNCHANGED <<host, vars>>
             /\ turns' = Context(host[1].log)
    BY <2>1 DEF Encodable, vars, providerVars
  <2> QED BY <1>3, <1>5, <2>1 DEF Handle
<1>6. ASSUME RefuseContent PROVE Encodable'
  BY <1>3, <1>6 DEF RefuseContent
<1>7. ASSUME BuildRequest PROVE Encodable'
  <2>1. /\ stage = "encoding" /\ stage' = "encoded" /\ UNCHANGED <<host, agent, turns, vars>>
        /\ ~Unsupported(agent[1].dialect, turns)
    BY <1>7 DEF BuildRequest
  <2> QED BY <2>1 DEF Encodable, vars, providerVars
<1>8. ASSUME PostRequest PROVE Encodable'
  <2>1. stage' = "posted"
    BY <1>8 DEF PostRequest
  <2> QED BY <2>1 DEF Encodable
<1>9. ASSUME Rest PROVE UNCHANGED vars
  BY <1>9 DEF Rest
<1> QED BY <1>1, <1>2, <1>4, <1>5, <1>6, <1>7, <1>8, <1>9 DEF ByokNext, ByokProgress

-----------------------------------------------------------------------------
(* Nothing is lost.                                                         *)

\* The body of a request is its context, turn by turn.
LEMMA BodyIs ==
  ASSUME NEW spec, spec.provider \in Providers, NEW base, NEW cap, NEW cache, NEW effort,
         NEW http, NEW ts \in Seq(Turns), NEW tools
  PROVE  LET body == RequestOf(AgentOf(spec, base, cap, cache, effort, http), ts, tools).body
             d == DialectOf(spec.provider)
         IN  /\ body.system = Whole(SystemSays(d, ts))
             /\ body.messages = Whole(Encoded(d, ts))
             /\ body.cached = (d = "anthropic" /\ cache /\ body.system # <<>>)
<1> DEFINE agent0 == AgentOf(spec, base, cap, cache, effort, http)
           r == RequestOf(agent0, ts, tools)
           d == DialectOf(spec.provider)
<1>1. d \in {"anthropic", "gemini", "openai"}
  BY DEF DialectOf, Providers
<1>2. agent0.dialect = d /\ agent0.cache = cache
  BY DEF AgentOf
<1>3. ASSUME NEW url, NEW header, NEW name, NEW asked, NEW tools0, NEW body
      PROVE  Post(agent0, url, header, name, asked, tools0, body).body = body
  BY DEF Post
<1>4. /\ d = "anthropic" => r.body = AnthropicBody(ts, cache)
      /\ d = "gemini" => r.body = GeminiBody(ts)
      /\ d = "openai" => r.body = OpenAiBody(ts)
  <2> HIDE DEF agent0
  <2> QED BY <1>2, <1>3 DEF RequestOf, AnthropicPost, GeminiPost, OpenAiPost
<1> HIDE DEF d, r
<1>5. CASE d = "anthropic"
  <2>1. /\ AnthropicBody(ts, cache).system = SystemParts(ts)
        /\ AnthropicBody(ts, cache).cached = (cache /\ SystemParts(ts) # <<>>)
    BY DEF AnthropicBody
  <2>2. SystemParts(ts) = Whole(SystemSays(d, ts))
    BY <1>5, SystemIs
  <2>3. AnthropicBody(ts, cache).messages = Whole(Encoded(d, ts))
    BY <1>5, AnthropicIs
  <2> QED BY <1>4, <1>5, <2>1, <2>2, <2>3 DEF d, r
<1>6. CASE d = "gemini"
  <2>1. GeminiBody(ts).system = SystemParts(ts) /\ GeminiBody(ts).cached = FALSE
    BY DEF GeminiBody
  <2>2. SystemParts(ts) = Whole(SystemSays(d, ts))
    BY <1>6, SystemIs
  <2>3. GeminiBody(ts).messages = Whole(Encoded(d, ts))
    BY <1>6, GeminiIs
  <2> QED BY <1>4, <1>6, <2>1, <2>2, <2>3 DEF d, r
<1>7. CASE d = "openai"
  <2>1. OpenAiBody(ts).cached = FALSE
    BY DEF OpenAiBody
  <2>2. OpenAiBody(ts).system = Whole(SystemSays(d, ts))
    BY <1>7, OpenAiSystemIs
  <2>3. OpenAiBody(ts).messages = Whole(Encoded(d, ts))
    BY <1>7, OpenAiIs
  <2> QED BY <1>4, <1>7, <2>1, <2>2, <2>3 DEF d, r
<1> QED BY <1>1, <1>5, <1>6, <1>7

\* The request, when it is built, is its agent's.
LEMMA RequestAgent ==
  ASSUME Ready, Encodable, stage = "encoded"
  PROVE  /\ host[1] \in Hosts /\ turns = Context(host[1].log)
         /\ ~Unsupported(dialect, turns)
         /\ request = <<RequestOf(agent[1], turns, Schemas(manch[1]))>>
         /\ \E spec, n : /\ agent[1] = AgentBy(spec, n)
                         /\ spec.provider \in Providers /\ dialect = DialectOf(spec.provider)
<1> DEFINE p == host[1].asks
           spec == LastRegistered("agent", p)
           m == Len(spec.settings)
<1>1. /\ host[1] \in Hosts /\ p \in Providers /\ spec.provider = p
      /\ AreSettings(p, spec.settings) /\ agent = <<Built(spec)>>
      /\ request = <<RequestOf(agent[1], turns, Schemas(manch[1]))>>
  BY RequestIs
<1>2. /\ dialect = DialectOf(p) /\ turns = Context(host[1].log)
      /\ ~Unsupported(agent[1].dialect, turns)
  BY DEF Encodable
<1> HIDE DEF p, spec, m
<1>3. agent[1] = AgentBy(spec, m) /\ agent[1].dialect = DialectOf(p)
  <2>1. Built(spec) = AgentBy(spec, m)
    BY <1>1, BuiltIs DEF m
  <2>2. agent[1] = Built(spec)
    BY <1>1
  <2> QED BY <1>1, <2>1, <2>2 DEF AgentBy, AgentOf
<1> QED BY <1>1, <1>2, <1>3

\* Its body is the host's conversation.
LEMMA RequestBody ==
  ASSUME Ready, Encodable, stage = "encoded"
  PROVE  /\ dialect \in {"anthropic", "gemini", "openai"} /\ turns \in Seq(Turns)
         /\ Entries \in Seq(LogEntries) /\ Entries = Each(turns, EntriesIn)
         /\ Entries = Numbered(host[1].log) /\ IsLog(host[1].log)
         /\ \A i \in DOMAIN turns : Fits(dialect, turns[i]) /\ \A j \in DOMAIN turns[i].entries :
              Entries[turns[i].entries[j].n] = turns[i].entries[j]
         /\ Body.system = Whole(SystemSays(dialect, turns))
         /\ Body.messages = Whole(Encoded(dialect, turns))
<1> DEFINE log == host[1].log
           tools == Schemas(manch[1])
<1>1. /\ host[1] \in Hosts /\ turns = Context(log) /\ ~Unsupported(dialect, turns)
      /\ request = <<RequestOf(agent[1], turns, tools)>>
  BY RequestAgent
<1>2. PICK spec, n : /\ agent[1] = AgentBy(spec, n)
                     /\ spec.provider \in Providers /\ dialect = DialectOf(spec.provider)
  BY RequestAgent
<1>3. IsLog(log) /\ \A k \in DOMAIN Context(log) : InOrder(Context(log)[k])
  BY <1>1, LogsOK
<1> HIDE DEF log, tools
<1>5. /\ turns \in Seq(Turns)
      /\ Each(turns, EntriesIn) = Numbered(log) /\ Numbered(log) \in Seq(LogEntries)
      /\ \A i \in DOMAIN turns : Fits(dialect, turns[i]) /\ \A j \in DOMAIN turns[i].entries :
           Numbered(log)[turns[i].entries[j].n] = turns[i].entries[j]
  BY <1>1, <1>3, Conversation
<1>6. Entries = Each(turns, EntriesIn)
  <2>1. Mapped(turns, EntriesIn) = [i \in DOMAIN turns |-> turns[i].entries]
    BY <1>5 DEF Mapped, EntriesIn
  <2> QED BY <2>1 DEF Entries, Over, Each
<1>7. dialect \in {"anthropic", "gemini", "openai"}
  BY <1>2 DEF DialectOf, Providers
<1>8. /\ Body.system = Whole(SystemSays(dialect, turns))
      /\ Body.messages = Whole(Encoded(dialect, turns))
  <2>1. Body = RequestOf(agent[1], turns, tools).body
    BY <1>1 DEF Body
  <2> QED BY <1>2, <1>5, <2>1, BodyIs DEF AgentBy
<1> QED BY <1>3, <1>5, <1>6, <1>7, <1>8 DEF log

\* The numbers of the entries in a set.
LEMMA NumbersWithin ==
  ASSUME NEW s \in Seq(LogEntries), NEW A
  PROVE  Over(Those(s, LAMBDA e : e \in A), LAMBDA e : <<e.n>>) = Each(s, NumbersOf(A))
<1> DEFINE these == Within(s, LogEntries, A)
           keep == [e \in LogEntries |-> IF e \in A THEN <<e>> ELSE <<>>]
           number == [e \in LogEntries |-> <<e.n>>]
<1>1. Those(s, LAMBDA e : e \in A) = these
  <2>1. Mapped(s, keep) = [i \in DOMAIN s |-> IF s[i] \in A THEN <<s[i]>> ELSE <<>>]
    BY DEF Mapped
  <2> QED BY <2>1 DEF Those, Over, Within, Each
<1>2. these \in Seq(LogEntries \cap A)
  BY WithinTyped
<1> HIDE DEF these, keep
<1>3. Mapped(these, number) = [i \in DOMAIN these |-> <<these[i].n>>]
  BY <1>2 DEF Mapped
<1>4. Over(these, LAMBDA e : <<e.n>>) = Each(these, number)
  BY <1>3 DEF Over, Each
<1>5. Makes(number, LogEntries, Nat)
  BY DEF Makes, LogEntries
<1>6. \A e \in LogEntries : NumbersOf(A)[e] = IF e \in A THEN number[e] ELSE <<>>
  BY DEF NumbersOf
<1> HIDE DEF number
<1>7. Each(Within(s, LogEntries, A), number) = Each(s, NumbersOf(A))
  BY <1>5, <1>6, EachWithin
<1> QED BY <1>1, <1>4, <1>7 DEF these

\* What messages and parts carry.
LEMMA CarriedIs ==
  /\ \A parts \in Seq(WireParts) : Carried(parts) = Each(parts, CarriesIn)
  /\ \A messages \in Seq(Messages) : Carried(AllParts(messages)) = Each(messages, CarriedBy)
<1>1. ASSUME NEW parts \in Seq(WireParts) PROVE Carried(parts) = Each(parts, CarriesIn)
  <2>1. Mapped(parts, CarriesIn) = [i \in DOMAIN parts |-> parts[i].carries]
    BY DEF Mapped, CarriesIn
  <2> QED BY <2>1 DEF Carried, Over, Each
<1>2. ASSUME NEW messages \in Seq(Messages)
      PROVE  Carried(AllParts(messages)) = Each(messages, CarriedBy)
  <2>1. Mapped(messages, PartsIn) = [i \in DOMAIN messages |-> messages[i].parts]
    BY DEF Mapped, PartsIn
  <2>2. AllParts(messages) = Each(messages, PartsIn)
    BY <2>1 DEF AllParts, Over, Each
  <2>3. Makes(PartsIn, Messages, WireParts)
    BY DEF Makes, PartsIn, Messages
  <2>4. \A m \in Messages : CarriedBy[m] = Each(PartsIn[m], CarriesIn)
    BY DEF CarriedBy, PartsIn
  <2>5. Each(Each(messages, PartsIn), CarriesIn) = Each(messages, CarriedBy)
    BY <2>3, <2>4, CarriesTyped, EachEach
  <2>6. Each(messages, PartsIn) \in Seq(WireParts)
    BY <2>3, EachTyped
  <2> QED BY <1>1, <2>2, <2>5, <2>6
<1> QED BY <1>1, <1>2

\* The body carries the conversation.
LEMMA ReadyNothingLost == Ready /\ Encodable => NothingLost
<1> SUFFICES ASSUME Ready, Encodable, stage = "encoded"
             PROVE  /\ Carried(Body.system) = Places(LAMBDA e : e.role = "system")
                    /\ Carried(AllParts(Body.messages)) =
                         Places(LAMBDA e : e.role # "system" /\ e.kind \notin Dropped)
                    /\ \A i \in DOMAIN Body.messages : \A j \in DOMAIN Body.messages[i].parts :
                         LET p == Body.messages[i].parts[j]
                         IN  /\ p.type = "image" => p.mime = "image"
                             /\ p.type = "document" => p.mime \in {"pdf", "plain"}
                             /\ p.type = "inline" => p.mime \in {"image", "pdf"}
                             /\ p.type = "call" /\ dialect = "gemini" =>
                                  p.meta = Entries[p.carries[1]].meta
  BY DEF NothingLost
<1> DEFINE says == Body.system
           messages == Body.messages
           entries == Entries
<1>1. /\ dialect \in {"anthropic", "gemini", "openai"} /\ turns \in Seq(Turns)
      /\ entries \in Seq(LogEntries) /\ entries = Each(turns, EntriesIn)
      /\ \A i \in DOMAIN turns : Fits(dialect, turns[i]) /\ \A j \in DOMAIN turns[i].entries :
           entries[turns[i].entries[j].n] = turns[i].entries[j]
      /\ says = Whole(SystemSays(dialect, turns))
      /\ messages = Whole(Encoded(dialect, turns))
  BY RequestBody
<1>2. Places(LAMBDA e : e.role = "system") = Each(entries, NumbersOf(Instructions))
  <2>1. [i \in DOMAIN entries |-> IF entries[i].role = "system" THEN <<entries[i]>> ELSE <<>>]
          = [i \in DOMAIN entries |-> IF entries[i] \in Instructions THEN <<entries[i]>> ELSE <<>>]
    <3> HIDE DEF entries
    <3> QED BY <1>1 DEF Instructions
  <2>2. Those(Entries, LAMBDA e : e.role = "system") = Those(entries, LAMBDA e : e \in Instructions)
    BY <2>1 DEF Those, Over
  <2> HIDE DEF entries
  <2>3. Over(Those(entries, LAMBDA e : e \in Instructions), LAMBDA e : <<e.n>>)
          = Each(entries, NumbersOf(Instructions))
    BY <1>1, NumbersWithin
  <2> QED BY <2>2, <2>3 DEF Places
<1>3. Places(LAMBDA e : e.role # "system" /\ e.kind \notin Dropped) = Each(entries, NumbersOf(Heard))
  <2>1. [i \in DOMAIN entries |->
           IF entries[i].role # "system" /\ entries[i].kind \notin Dropped THEN <<entries[i]>> ELSE <<>>]
          = [i \in DOMAIN entries |-> IF entries[i] \in Heard THEN <<entries[i]>> ELSE <<>>]
    <3> HIDE DEF entries
    <3> QED BY <1>1 DEF Heard, Lasting
  <2>2. Those(Entries, LAMBDA e : e.role # "system" /\ e.kind \notin Dropped)
          = Those(entries, LAMBDA e : e \in Heard)
    BY <2>1 DEF Those, Over
  <2> HIDE DEF entries
  <2>3. Over(Those(entries, LAMBDA e : e \in Heard), LAMBDA e : <<e.n>>)
          = Each(entries, NumbersOf(Heard))
    BY <1>1, NumbersWithin
  <2> QED BY <2>2, <2>3 DEF Places
<1> HIDE DEF says, messages, entries
<1>4. Carried(says) = Each(entries, NumbersOf(Instructions))
  BY <1>1, SystemCarries, CarriedIs
<1>5. messages \in Seq(Messages) /\ messages \in Seq(MessagesIn(TrueParts(dialect, entries)))
  <2>1. Whole(Encoded(dialect, turns)) \in Seq(Messages)
    BY <1>1, EncodedTyped, JoinedTyped
  <2>2. Whole(Encoded(dialect, turns)) \in Seq(MessagesIn(TrueParts(dialect, entries)))
    BY <1>1, BodyTrue
  <2> QED BY <1>1, <2>1, <2>2
<1>6. Carried(AllParts(messages)) = Each(entries, NumbersOf(Heard))
  BY <1>1, <1>5, MessagesCarry, CarriedIs
<1>7. ASSUME NEW i \in DOMAIN messages, NEW j \in DOMAIN messages[i].parts
      PROVE  LET p == messages[i].parts[j]
             IN  /\ p.type = "image" => p.mime = "image"
                 /\ p.type = "document" => p.mime \in {"pdf", "plain"}
                 /\ p.type = "inline" => p.mime \in {"image", "pdf"}
                 /\ p.type = "call" /\ dialect = "gemini" => p.meta = entries[p.carries[1]].meta
  <2> DEFINE P == TrueParts(dialect, entries)
  <2>1. messages[i] \in MessagesIn(P)
    BY <1>5
  <2> HIDE DEF P
  <2>2. messages[i].parts \in Seq(P)
    BY <2>1 DEF MessagesIn
  <2>3. messages[i].parts[j] \in P
    BY <2>2
  <2> QED BY <2>3 DEF P, TrueParts
<1> QED BY <1>2, <1>3, <1>4, <1>6, <1>7 DEF says, messages, entries

-----------------------------------------------------------------------------
(* What more conversation leaves of a body.                                 *)

\* The two halves of a sequence.
LEMMA Halves ==
  ASSUME NEW S, NEW s \in Seq(S), NEW m \in 0..Len(s)
  PROVE  /\ SubSeq(s, 1, m) \in Seq(S) /\ SubSeq(s, m + 1, Len(s)) \in Seq(S)
         /\ s = SubSeq(s, 1, m) \o SubSeq(s, m + 1, Len(s))
         /\ Len(SubSeq(s, 1, m)) = m /\ Len(SubSeq(s, m + 1, Len(s))) = Len(s) - m
         /\ \A i \in 1..m : SubSeq(s, 1, m)[i] = s[i]
         /\ \A i \in 1..(Len(s) - m) : SubSeq(s, m + 1, Len(s))[i] = s[m + i]
<1> DEFINE n == Len(s)
           a == SubSeq(s, 1, m)
           b == SubSeq(s, m + 1, n)
           whole == a \o b
<1>1. n \in Nat /\ m \in Nat /\ m <= n /\ \A i \in 1..n : s[i] \in S
  OBVIOUS
<1> HIDE DEF n
<1>2. a \in Seq(S) /\ Len(a) = m /\ \A i \in 1..m : a[i] = s[i]
  <2>1. 1 \in Int /\ m \in Int /\ \A i \in 1..m : s[i] \in S
    BY <1>1
  <2>2. a \in Seq(S) /\ Len(a) = (IF 1 <= m THEN m - 1 + 1 ELSE 0)
        /\ \A i \in 1..(m - 1 + 1) : a[i] = s[1 + i - 1]
    BY <2>1, SubSeqProperties
  <2>3. m - 1 + 1 = m /\ (1 <= m \/ m = 0) /\ \A i \in 1..m : 1 + i - 1 = i
    BY <1>1
  <2> HIDE DEF a
  <2> QED BY <2>2, <2>3
<1>3. b \in Seq(S) /\ Len(b) = n - m /\ \A i \in 1..(n - m) : b[i] = s[m + i]
  <2>1. m + 1 \in Int /\ n \in Int /\ \A i \in (m + 1)..n : s[i] \in S
    BY <1>1
  <2>2. b \in Seq(S) /\ Len(b) = (IF m + 1 <= n THEN n - (m + 1) + 1 ELSE 0)
        /\ \A i \in 1..(n - (m + 1) + 1) : b[i] = s[m + 1 + i - 1]
    BY <2>1, SubSeqProperties
  <2>3. n - (m + 1) + 1 = n - m /\ (m + 1 <= n \/ n - m = 0) /\ \A i \in 1..(n - m) : m + 1 + i - 1 = m + i
    BY <1>1
  <2> HIDE DEF b
  <2> QED BY <2>2, <2>3
<1> HIDE DEF a, b
<1>4. whole \in Seq(S) /\ Len(whole) = n
      /\ \A i \in 1..n : whole[i] = IF i <= m THEN a[i] ELSE b[i - m]
  <2>1. whole \in Seq(S) /\ Len(whole) = Len(a) + Len(b)
        /\ \A i \in 1..(Len(a) + Len(b)) : whole[i] = IF i <= Len(a) THEN a[i] ELSE b[i - Len(a)]
    BY <1>2, <1>3, ConcatProperties
  <2> QED BY <1>1, <1>2, <1>3, <2>1
<1>5. \A i \in 1..n : whole[i] = s[i]
  <2> SUFFICES ASSUME NEW i \in 1..n PROVE whole[i] = s[i]
    OBVIOUS
  <2>1. CASE i <= m
    <3>1. i \in 1..m
      BY <1>1, <2>1
    <3> QED BY <1>2, <1>4, <2>1, <3>1
  <2>2. CASE ~(i <= m)
    <3>1. i - m \in 1..(n - m) /\ m + (i - m) = i
      BY <1>1, <2>2
    <3> QED BY <1>3, <1>4, <2>2, <3>1
  <2> QED BY <2>1, <2>2
<1> HIDE DEF whole
<1>6. whole = s
  BY <1>1, <1>4, <1>5, SeqEqual DEF n
<1> QED BY <1>2, <1>3, <1>6 DEF a, b, whole, n

\* y begins as x does, but for what may be x's last element.
Continues(S, x, y) ==
  \E c \in Seq(S), last \in Seq(S), rest \in Seq(S) :
    Len(last) <= 1 /\ x = c \o last /\ y = c \o rest

\* So it begins with the front of x.
LEMMA ContinuesFront ==
  ASSUME NEW S, NEW x, NEW y, Continues(S, x, y), x # <<>>
  PROVE  IsPrefix(Front(x), y)
<1>1. PICK c \in Seq(S), last \in Seq(S), rest \in Seq(S) :
        Len(last) <= 1 /\ x = c \o last /\ y = c \o rest
  BY DEF Continues
<1> DEFINE n == Len(x) - 1
           f == SubSeq(x, 1, n)
           g == SubSeq(y, 1, n)
<1>2. /\ x \in Seq(S) /\ Len(x) = Len(c) + Len(last)
      /\ \A i \in 1..(Len(c) + Len(last)) : x[i] = IF i <= Len(c) THEN c[i] ELSE last[i - Len(c)]
  BY <1>1, ConcatProperties
<1>3. /\ y \in Seq(S) /\ Len(y) = Len(c) + Len(rest)
      /\ \A i \in 1..(Len(c) + Len(rest)) : y[i] = IF i <= Len(c) THEN c[i] ELSE rest[i - Len(c)]
  BY <1>1, ConcatProperties
<1>4. Len(c) \in Nat /\ Len(last) \in Nat /\ Len(rest) \in Nat /\ Len(x) # 0
  BY <1>1, <1>2
<1>5. n \in Nat /\ n <= Len(c) /\ n <= Len(x) /\ n <= Len(y) /\ n \in 0..Len(x) /\ n \in 0..Len(y)
  BY <1>1, <1>2, <1>3, <1>4
<1>d. n = Len(x) - 1
  OBVIOUS
<1> HIDE DEF n
<1>6. f \in Seq(S) /\ Len(f) = n /\ \A i \in 1..n : f[i] = x[i]
  BY <1>2, <1>5, Halves
<1>7. g \in Seq(S) /\ Len(g) = n /\ \A i \in 1..n : g[i] = y[i]
  BY <1>3, <1>5, Halves
<1>8. ASSUME NEW i \in 1..n PROVE x[i] = y[i]
  <2>1. i \in 1..(Len(c) + Len(last)) /\ i \in 1..(Len(c) + Len(rest)) /\ i <= Len(c)
    BY <1>4, <1>5
  <2> QED BY <1>2, <1>3, <2>1
<1> HIDE DEF f, g
<1>9. f = g
  BY <1>6, <1>7, <1>8, SeqEqual
<1>10. SubSeq(f, 1, n) = f
  <2> DEFINE h == SubSeq(f, 1, n)
  <2>1. h \in Seq(S) /\ Len(h) = n /\ \A i \in 1..n : h[i] = f[i]
    BY <1>5, <1>6, Halves
  <2> HIDE DEF h
  <2>2. h = f
    BY <1>6, <2>1, SeqEqual
  <2> QED BY <2>2 DEF h
<1>11. Front(x) = f
  BY <1>d DEF Front, f
<1>12. Len(f) <= Len(y) /\ SubSeq(f, 1, Len(f)) = SubSeq(y, 1, Len(f))
  BY <1>5, <1>6, <1>9, <1>10 DEF g
<1> QED BY <1>11, <1>12 DEF IsPrefix

\* Parts that are empty make nothing.
LEMMA JoinedNothing ==
  ASSUME NEW S, NEW r \in Seq(Seq(S)), \A i \in DOMAIN r : r[i] = <<>>
  PROVE  Whole(r) = <<>>
<1> DEFINE Q == Seq(S)
           self == [x \in Q |-> x]
<1>1. Each(r, self) = <<>>
  <2>1. \A i \in DOMAIN r : r[i] \in Q /\ self[r[i]] = <<>>
    OBVIOUS
  <2> QED BY <2>1, EachNothing
<1>2. Mapped(r, self) = r
  <2>1. Mapped(r, self) = [i \in DOMAIN r |-> r[i]]
    BY DEF Mapped
  <2> QED BY <2>1
<1> QED BY <1>1, <1>2 DEF Each, Whole

\* p is joined before the last part of a, which has m; r behind the m-th of b.
AreSides(a, b, m, p, r) ==
  /\ Whole(a) = Whole(p) \o a[m]
  /\ Whole(b) = (Whole(p) \o b[m]) \o Whole(r)
  /\ Len(r) = Len(b) - m
  /\ \A i \in 1..(Len(b) - m) : r[i] = b[m + i]

\* Two lists of parts that agree before the end of the first.
LEMMA Sides ==
  ASSUME NEW S, NEW a \in Seq(Seq(S)), NEW b \in Seq(Seq(S)), a # <<>>, Len(a) <= Len(b),
         \A i \in 1..(Len(a) - 1) : a[i] = b[i]
  PROVE  \E p \in Seq(Seq(S)), r \in Seq(Seq(S)) : AreSides(a, b, Len(a), p, r)
<1> DEFINE Q == Seq(S)
           m == Len(a)
           n == Len(b)
           p == SubSeq(a, 1, m - 1)
           first == SubSeq(b, 1, m)
           r == SubSeq(b, m + 1, n)
<1>1. a \in Seq(Q) /\ b \in Seq(Q)
  OBVIOUS
<1>2. m \in Nat \ {0} /\ n \in Nat /\ m <= n /\ a[m] \in Q /\ b[m] \in Q
  BY <1>1
<1>3. m \in 1..Len(a) /\ m - 1 \in 0..Len(a) /\ m \in 0..Len(b) /\ m \in 0..Len(a)
  BY <1>2
<1>4. p \in Seq(Q) /\ Len(p) = m - 1 /\ \A i \in 1..(m - 1) : p[i] = a[i]
  <2> DEFINE k == m - 1
  <2>1. a \in Seq(Q) /\ k \in 0..Len(a)
    BY <1>1, <1>3
  <2> HIDE DEF Q, k
  <2>2. /\ SubSeq(a, 1, k) \in Seq(Q) /\ Len(SubSeq(a, 1, k)) = k
        /\ \A i \in 1..k : SubSeq(a, 1, k)[i] = a[i]
    BY <2>1, Halves
  <2> QED BY <2>2 DEF k
<1>5. /\ first \in Seq(Q) /\ Len(first) = m /\ \A i \in 1..m : first[i] = b[i]
      /\ r \in Seq(Q) /\ Len(r) = n - m /\ \A i \in 1..(n - m) : r[i] = b[m + i]
      /\ b = first \o r
  BY <1>1, <1>3, Halves
<1>6. \A i \in 1..(m - 1) : a[i] = b[i]
  OBVIOUS
<1>d. m = Len(a)
  OBVIOUS
<1> HIDE DEF Q, m, n, p, first, r
<1>7. a = Append(p, a[m])
  <2> DEFINE t == Append(p, a[m])
  <2>1. t \in Seq(Q) /\ Len(t) = m /\ t[m] = a[m] /\ \A i \in 1..(m - 1) : t[i] = p[i]
    <3>1. m - 1 + 1 = m
      BY <1>2
    <3> QED BY <1>2, <1>4, <3>1, AppendIs
  <2> HIDE DEF t
  <2>2. \A i \in 1..m : t[i] = a[i]
    <3>1. \A i \in 1..m : i \in 1..(m - 1) \/ i = m
      BY <1>2
    <3> QED BY <1>4, <2>1, <3>1
  <2>3. t = a
    BY <1>1, <1>d, <2>1, <2>2, SeqEqual
  <2> QED BY <2>3 DEF t
<1>8. first = Append(p, b[m])
  <2> DEFINE t == Append(p, b[m])
  <2>1. t \in Seq(Q) /\ Len(t) = m /\ t[m] = b[m] /\ \A i \in 1..(m - 1) : t[i] = p[i]
    <3>1. m - 1 + 1 = m
      BY <1>2
    <3> QED BY <1>2, <1>4, <3>1, AppendIs
  <2> HIDE DEF t
  <2>2. \A i \in 1..m : t[i] = first[i]
    <3>1. \A i \in 1..m : i \in 1..(m - 1) \/ i = m
      BY <1>2
    <3> QED BY <1>2, <1>4, <1>5, <1>6, <2>1, <3>1
  <2>3. t = first
    BY <1>5, <2>1, <2>2, SeqEqual
  <2> QED BY <2>3 DEF t
<1>9. Whole(Append(p, a[m])) = Whole(p) \o a[m] /\ Whole(Append(p, b[m])) = Whole(p) \o b[m]
  BY <1>2, <1>4, JoinedMore
<1>10. Whole(first \o r) = Whole(first) \o Whole(r)
  BY <1>5, JoinedBoth DEF Q
<1>11. Whole(a) = Whole(p) \o a[m] /\ Whole(b) = (Whole(p) \o b[m]) \o Whole(r)
  BY <1>5, <1>7, <1>8, <1>9, <1>10
<1> QED BY <1>4, <1>5, <1>11 DEF Q, m, n, AreSides

\* A turn as it was, or with more in it.
Grows(t, u) ==
  \/ u = t
  \/ /\ ~IsSystem(t) /\ u.role = t.role
     /\ \E more \in Seq(LogEntries) : u.entries = t.entries \o more

\* Turns as they were, but for the last, which may hold more, and those behind.
Grown(old, new) ==
  /\ old \in Seq(Turns) /\ new \in Seq(Turns) /\ Len(old) <= Len(new)
  /\ \A i \in 1..Len(old) : i # Len(old) => new[i] = old[i]
  /\ old # <<>> => Grows(old[Len(old)], new[Len(old)])
  /\ \A i \in 1..Len(new) : i > Len(old) => ~IsSystem(new[i])

\* Entries of the conversation.
Said == {e \in LogEntries : e.role # "system"}

\* A turn that grows again has grown.
LEMMA GrowsMore ==
  ASSUME NEW t \in Turns, NEW u \in Turns, Grows(t, u), ~IsSystem(u), NEW e \in LogEntries
  PROVE  Grows(t, Longer(u, e))
<1> DEFINE s == t.entries
           one == <<e>>
<1>1. s \in Seq(LogEntries) /\ u.entries \in Seq(LogEntries) /\ one \in Seq(LogEntries)
  BY EntriesTyped
<1>2. Longer(u, e).role = u.role /\ Longer(u, e).entries = Append(u.entries, e)
  BY DEF Longer
<1>3. Append(u.entries, e) = u.entries \o one
  BY <1>1
<1> HIDE DEF s, one
<1>4. CASE u = t
  BY <1>1, <1>2, <1>3, <1>4 DEF Grows, s
<1>5. ASSUME ~IsSystem(t), u.role = t.role, NEW more \in Seq(LogEntries), u.entries = s \o more
      PROVE  Grows(t, Longer(u, e))
  <2>1. (s \o more) \o one = s \o (more \o one) /\ more \o one \in Seq(LogEntries)
    BY <1>1, Regroup
  <2> QED BY <1>2, <1>3, <1>5, <2>1 DEF Grows, s
<1> QED BY <1>4, <1>5 DEF Grows, s

\* A turn behind the others.
LEMMA GrownByTurn ==
  ASSUME NEW old, NEW new, Grown(old, new), NEW t \in Turns, ~IsSystem(t)
  PROVE  Grown(old, Append(new, t))
<1> DEFINE next == Append(new, t)
           m == Len(old)
           n == Len(new)
<1>1. /\ old \in Seq(Turns) /\ new \in Seq(Turns) /\ m \in Nat /\ n \in Nat /\ m <= n
      /\ (old = <<>>) <=> (m = 0)
  BY SequenceIs DEF Grown
<1>2. next \in Seq(Turns) /\ Len(next) = n + 1 /\ next[n + 1] = t /\ \A j \in 1..n : next[j] = new[j]
  BY <1>1, AppendIs
<1>3. /\ \A i \in 1..m : i # m => new[i] = old[i]
      /\ old # <<>> => Grows(old[m], new[m])
      /\ \A i \in 1..n : i > m => ~IsSystem(new[i])
  BY DEF Grown
<1> HIDE DEF next, m, n
<1>4. m <= n + 1 /\ (m # 0 => m \in 1..n) /\ \A i \in 1..m : i \in 1..n
  BY <1>1
<1>5. \A i \in 1..(n + 1) : i \in 1..n \/ i = n + 1
  BY <1>1
<1>6. \A i \in 1..(n + 1) : i > m => ~IsSystem(next[i])
  BY <1>2, <1>3, <1>5
<1>7. \A i \in 1..m : i # m => next[i] = old[i]
  BY <1>2, <1>3, <1>4
<1>8. old # <<>> => Grows(old[m], next[m])
  BY <1>1, <1>2, <1>3, <1>4
<1> QED BY <1>1, <1>2, <1>4, <1>6, <1>7, <1>8 DEF Grown, next, m, n

\* An entry in the last turn.
LEMMA GrownByEntry ==
  ASSUME NEW old, NEW new, Grown(old, new), new # <<>>, NEW e \in Said,
         new[Len(new)].role = e.role
  PROVE  Grown(old, Extended(new, e))
<1> DEFINE next == Extended(new, e)
           m == Len(old)
           n == Len(new)
           last == new[n]
<1>1. /\ old \in Seq(Turns) /\ new \in Seq(Turns) /\ m \in Nat /\ n \in Nat /\ m <= n
      /\ (old = <<>>) <=> (m = 0)
      /\ n # 0
  BY SequenceIs DEF Grown
<1>2. e \in LogEntries /\ ~IsSystem(last)
  BY DEF Said, IsSystem
<1>3. PICK front \in Seq(Turns) :
        /\ Len(front) = n - 1 /\ last \in Turns
        /\ new = Append(front, last) /\ next = Append(front, Longer(last, e))
  BY <1>1, <1>2, ExtendedIs
<1>4. Longer(last, e) \in Turns /\ Longer(last, e).role = last.role
  BY <1>2, <1>3, LongerIs
<1>5. /\ \A i \in 1..m : i # m => new[i] = old[i]
      /\ old # <<>> => Grows(old[m], new[m])
      /\ \A i \in 1..n : i > m => ~IsSystem(new[i])
  BY DEF Grown
<1>l. new[n] = last
  OBVIOUS
<1> HIDE DEF next, m, n, last
<1>6. next \in Seq(Turns) /\ Len(next) = n /\ next[n] = Longer(last, e) /\ \A j \in 1..(n - 1) : next[j] = new[j]
  <2>1. n - 1 + 1 = n
    BY <1>1
  <2>2. /\ Append(front, Longer(last, e)) \in Seq(Turns)
        /\ Len(Append(front, Longer(last, e))) = n
        /\ Append(front, Longer(last, e))[n] = Longer(last, e)
        /\ \A j \in 1..(n - 1) : Append(front, Longer(last, e))[j] = front[j]
    BY <1>3, <1>4, <2>1, AppendIs
  <2>3. \A j \in 1..(n - 1) : Append(front, last)[j] = front[j]
    BY <1>3, <2>1, AppendIs
  <2> QED BY <1>3, <2>2, <2>3
<1>7. (m = n \/ m <= n - 1) /\ \A i \in 1..n : i \in 1..(n - 1) \/ i = n
  BY <1>1
<1>8. \A i \in 1..n : i > m => ~IsSystem(next[i])
  BY <1>2, <1>4, <1>5, <1>6, <1>7 DEF IsSystem
<1>9. \A i \in 1..m : i # m => next[i] = old[i]
  <2>1. \A i \in 1..m : i # m => i \in 1..(n - 1)
    BY <1>1
  <2> QED BY <1>5, <1>6, <2>1
<1>10. old # <<>> => Grows(old[m], next[m])
  <2> SUFFICES ASSUME old # <<>> PROVE Grows(old[m], next[m])
    OBVIOUS
  <2>1. m \in 1..m /\ Grows(old[m], new[m])
    <3>1. m \in Nat /\ m # 0
      BY <1>1
    <3>2. m \in 1..m
      BY <3>1
    <3> QED BY <1>5, <3>2
  <2>2. CASE m = n
    <3>1. old[m] \in Turns
      BY <1>1, <2>1, SequenceIs DEF m
    <3> QED BY <1>2, <1>3, <1>6, <1>l, <2>1, <2>2, <3>1, GrowsMore
  <2>3. CASE m # n
    <3>1. m \in 1..(n - 1)
      BY <1>1, <2>1, <2>3
    <3> QED BY <1>6, <2>1, <3>1
  <2> QED BY <2>2, <2>3
<1> QED BY <1>1, <1>6, <1>8, <1>9, <1>10 DEF Grown, next, m, n

\* More of a conversation.
LEMMA GrownBy ==
  ASSUME NEW log \in Seq(LogEntries), NEW more \in Seq(Said)
  PROVE  Grown(CoalesceTurns(log), CoalesceTurns(log \o more))
<1> DEFINE old == CoalesceTurns(log)
           P == {p \in Seq(Said) : Grown(old, CoalesceTurns(log \o p))}
<1>1. <<>> \in P
  <2>1. <<>> \in Seq(Said) /\ log \o <<>> = log
    OBVIOUS
  <2>2. old \in Seq(Turns)
    BY TurnsOf DEF AreTurnsOf
  <2> HIDE DEF old
  <2>3. Len(old) \in Nat
    BY <2>2
  <2>4. Grown(old, old)
    <3>1. Len(old) <= Len(old) /\ \A i \in 1..Len(old) : ~(i > Len(old))
      BY <2>3
    <3> QED BY <2>2, <3>1 DEF Grown, Grows
  <2> QED BY <2>1, <2>4 DEF old
<1>2. ASSUME NEW p \in Seq(Said), p \in P, NEW e \in Said PROVE Append(p, e) \in P
  <2> DEFINE longer == log \o p
             ts == CoalesceTurns(longer)
             next == CoalesceTurns(Append(longer, e))
  <2>1. p \in Seq(LogEntries) /\ e \in LogEntries
    BY SequenceIn DEF Said
  <2>2. longer \in Seq(LogEntries) /\ log \o Append(p, e) = Append(longer, e)
    BY <2>1
  <2>3. Append(p, e) \in Seq(Said)
    OBVIOUS
  <2> HIDE DEF longer
  <2>4. AreTurnsOf(ts, longer)
    BY <2>2, TurnsOf
  <2>5. \/ next = Append(ts, OneTurn(e))
        \/ ts # <<>> /\ ts[Len(ts)].role = e.role /\ next = Extended(ts, e)
    BY <2>1, <2>2, <2>4, TurnsMore
  <2>6. Grown(old, ts)
    BY <1>2 DEF longer
  <2>7. OneTurn(e) \in Turns /\ ~IsSystem(OneTurn(e))
    BY <2>1, OneTurnIs DEF Said, IsSystem
  <2> HIDE DEF ts, next, old
  <2>8. Grown(old, next)
    BY <2>5, <2>6, <2>7, GrownByTurn, GrownByEntry
  <2> QED BY <2>2, <2>3, <2>8 DEF next
<1> HIDE DEF P
<1>3. Seq(Said) \subseteq P
  BY <1>1, <1>2, EverySequence
<1> QED BY <1>3 DEF P

\* What a body says of a turn depends on it and the one before.
LEMMA EncodedAlike ==
  ASSUME NEW d, NEW old \in Seq(Turns), NEW new \in Seq(Turns), NEW i \in DOMAIN old,
         i \in DOMAIN new, new[i] = old[i], i # 1 => new[i - 1] = old[i - 1]
  PROVE  Encoded(d, new)[i] = Encoded(d, old)[i] /\ SystemSays(d, new)[i] = SystemSays(d, old)[i]
<1>1. \A e \in LogEntries : EntryPart(e, new, i) = EntryPart(e, old, i)
  <2> SUFFICES ASSUME NEW e \in LogEntries PROVE EntryPart(e, new, i) = EntryPart(e, old, i)
    OBVIOUS
  <2>1. ResolveToolName(new, i, e.id) = ResolveToolName(old, i, e.id)
    <3>1. CASE i = 1
      BY <3>1 DEF ResolveToolName
    <3>2. CASE i # 1
      BY <3>2 DEF ResolveToolName
    <3> QED BY <3>1, <3>2
  <2> QED BY <2>1 DEF EntryPart
<1>2. PartsOf(new, i) = PartsOf(old, i)
  BY <1>1 DEF PartsOf
<1>3. GeminiContent(new, i) = GeminiContent(old, i)
  BY <1>2, GeminiContentIs
<1>4. MessagesOf(d, new, i) = MessagesOf(d, old, i)
  BY <1>3 DEF MessagesOf
<1> QED BY <1>4 DEF Encoded, SystemSays

\* The system's slot says what it said.
LEMMA SystemKept ==
  ASSUME NEW d, NEW old, NEW new, Grown(old, new)
  PROVE  Whole(SystemSays(d, new)) = Whole(SystemSays(d, old))
<1> DEFINE a == SystemSays(d, old)
           b == SystemSays(d, new)
           m == Len(old)
           n == Len(new)
           S == WireParts
<1>1. /\ old \in Seq(Turns) /\ new \in Seq(Turns) /\ m \in Nat /\ n \in Nat /\ m <= n
      /\ DOMAIN old = 1..m /\ DOMAIN new = 1..n
      /\ (old = <<>>) <=> (m = 0)
  BY SequenceIs DEF Grown
<1>2. \A t \in Turns : TurnText(t) \in Seq(S) /\ Over(TurnMessages(t), LAMBDA x : x.parts) \in Seq(S)
  <2> SUFFICES ASSUME NEW t \in Turns
               PROVE  TurnText(t) \in Seq(S) /\ Over(TurnMessages(t), LAMBDA x : x.parts) \in Seq(S)
    OBVIOUS
  <2> DEFINE ms == TurnMessages(t)
  <2>1. ms \in Seq(Messages)
    BY <1>1, EncodedTyped
  <2> HIDE DEF ms
  <2>2. Mapped(ms, PartsIn) = [i \in DOMAIN ms |-> ms[i].parts]
    BY <2>1 DEF Mapped, PartsIn
  <2>3. Over(ms, LAMBDA x : x.parts) = Each(ms, PartsIn)
    BY <2>2 DEF Over, Each
  <2>4. Makes(PartsIn, Messages, WireParts)
    BY DEF Makes, PartsIn, Messages
  <2>5. Each(ms, PartsIn) \in Seq(WireParts)
    BY <2>1, <2>4, EachTyped
  <2> QED BY <2>3, <2>5, TurnTextTyped DEF ms
<1>3. \A ts \in Seq(Turns) : SystemSays(d, ts) \in Seq(Seq(S)) /\ Len(SystemSays(d, ts)) = Len(ts)
  <2> SUFFICES ASSUME NEW ts \in Seq(Turns)
               PROVE  SystemSays(d, ts) \in Seq(Seq(S)) /\ Len(SystemSays(d, ts)) = Len(ts)
    OBVIOUS
  <2> DEFINE says == SystemSays(d, ts)
             Q == Seq(S)
  <2>1. <<>> \in Q
    OBVIOUS
  <2>2. \A i \in DOMAIN ts : says[i] \in Q
    <3> SUFFICES ASSUME NEW i \in DOMAIN ts PROVE says[i] \in Q
      OBVIOUS
    <3>1. ts[i] \in Turns
      OBVIOUS
    <3> HIDE DEF Q, S
    <3> QED BY <1>2, <2>1, <3>1 DEF SystemSays, Q
  <2>3. IsList(says, Len(ts)) /\ Len(ts) \in Nat /\ DOMAIN ts = 1..Len(ts)
    BY DEF SystemSays, IsList
  <2> HIDE DEF says, Q
  <2>4. says \in Seq(Q) /\ Len(says) = Len(ts)
    BY <2>2, <2>3 DEF IsList
  <2> QED BY <2>4 DEF says, Q
<1>4. a \in Seq(Seq(S)) /\ b \in Seq(Seq(S)) /\ Len(a) = m /\ Len(b) = n
  BY <1>1, <1>3
<1>5. \A i \in 1..m : a[i] = b[i]
  <2> SUFFICES ASSUME NEW i \in 1..m PROVE a[i] = b[i]
    OBVIOUS
  <2>1. i \in DOMAIN old /\ i \in DOMAIN new
    BY <1>1
  <2>2. new[i] = old[i] \/ (~IsSystem(old[i]) /\ ~IsSystem(new[i]))
    <3>1. CASE i # m
      <4>1. new[i] = old[i]
        BY <3>1 DEF Grown
      <4> QED BY <4>1
    <3>2. CASE i = m
      <4>1. old # <<>>
        BY <1>1
      <4>2. Grows(old[i], new[i])
        BY <3>2, <4>1 DEF Grown
      <4> QED BY <4>2 DEF Grows, IsSystem
    <3> QED BY <3>1, <3>2
  <2> QED BY <2>1, <2>2 DEF SystemSays
<1>6. \A i \in 1..n : i > m => b[i] = <<>>
  <2>1. \A i \in 1..n : i > m => ~IsSystem(new[i])
    BY DEF Grown
  <2> QED BY <1>1, <2>1 DEF SystemSays
<1> HIDE DEF a, b, S, m, n
<1>7. CASE m = 0
  <2>1. \A i \in DOMAIN b : b[i] = <<>>
    <3>1. DOMAIN b = 1..n /\ \A i \in 1..n : i > m
      BY <1>1, <1>4, <1>7
    <3> QED BY <1>6, <3>1
  <2> QED BY <1>4, <1>7, <2>1, JoinedNothing, JoinedNone DEF a, b
<1>8. CASE m # 0
  <2>1. a # <<>> /\ Len(a) <= Len(b) /\ (\A i \in 1..(Len(a) - 1) : a[i] = b[i]) /\ a[m] = b[m]
    BY <1>1, <1>4, <1>5, <1>8
  <2>r. PICK p \in Seq(Seq(S)), r \in Seq(Seq(S)) : AreSides(a, b, Len(a), p, r)
    BY <1>4, <2>1, Sides
  <2>2. /\ Whole(a) = Whole(p) \o a[m]
        /\ Whole(b) = (Whole(p) \o b[m]) \o Whole(r)
        /\ Len(r) = n - m
        /\ \A i \in 1..(n - m) : r[i] = b[m + i]
    BY <1>4, <2>r DEF AreSides
  <2>3. \A i \in DOMAIN r : r[i] = <<>>
    <3>1. DOMAIN r = 1..(n - m)
      BY <2>2, SequenceIs
    <3>2. \A i \in 1..(n - m) : m + i \in 1..n /\ m + i > m
      BY <1>1
    <3> QED BY <1>6, <2>2, <3>1, <3>2
  <2>4. Whole(r) = <<>>
    BY <2>3, JoinedNothing
  <2>5. Whole(a) \in Seq(S)
    BY <1>4, JoinedTyped
  <2>6. Whole(a) \o <<>> = Whole(a)
    BY <2>5, Regroup
  <2> QED BY <2>1, <2>2, <2>4, <2>6 DEF a, b
<1> QED BY <1>7, <1>8

\* A message by itself may become any messages.
LEMMA ContinuesOne ==
  ASSUME NEW S, NEW x \in Seq(S), NEW y \in Seq(S), Len(x) <= 1
  PROVE  Continues(S, x, y)
<1>1. <<>> \in Seq(S) /\ x = <<>> \o x /\ y = <<>> \o y
  OBVIOUS
<1> QED BY <1>1 DEF Continues

\* Messages continue themselves.
LEMMA ContinuesSame ==
  ASSUME NEW S, NEW x \in Seq(S)
  PROVE  Continues(S, x, x)
<1>1. <<>> \in Seq(S) /\ x = x \o <<>> /\ Len(<<>>) <= 1
  OBVIOUS
<1> QED BY <1>1 DEF Continues

\* A turn that grows leaves OpenAI's messages of it, but for the last: a turn
\* of calls is one message, and one of results begins with a message for each.
LEMMA TurnMessagesKept ==
  ASSUME NEW t \in Turns, NEW u \in Turns, Uniform(t), Uniform(u),
         \A j \in DOMAIN t.entries : AsStored(t.entries[j]),
         \A j \in DOMAIN u.entries : AsStored(u.entries[j]),
         NEW more \in Seq(LogEntries), u.entries = t.entries \o more
  PROVE  Continues(Messages, TurnMessages(t), TurnMessages(u))
<1> DEFINE Content(w) == IF HasBlock(w) THEN OpenAiContent(w) ELSE <<>>
           One(w) == Message("assistant", Content(w) \o ToolCalls(w))
           Other(w) == Message(w.role, Content(w))
           results == ToolMessages(t)
           added == Each(more, ResultsOf)
           x == TurnMessages(t)
           y == TurnMessages(u)
           S == Messages
<1>1. x \in Seq(S) /\ y \in Seq(S)
  <2>1. <<>> \in Seq(Turns)
    OBVIOUS
  <2> QED BY <2>1, EncodedTyped
<1>2. \A w \in Turns :
        TurnMessages(w) = IF ToolCalls(w) # <<>> THEN <<One(w)>> \o ToolMessages(w)
                          ELSE IF HasBlock(w) \/ ToolMessages(w) = <<>>
                          THEN Append(ToolMessages(w), Other(w))
                          ELSE ToolMessages(w)
  BY DEF TurnMessages
<1>3. \A w \in {t, u} : ToolCalls(w) # <<>> => ToolMessages(w) = <<>>
  BY CallsOrResults
<1>4. /\ results \in Seq(S) /\ added \in Seq(S)
      /\ ToolMessages(u) = results \o added
  <2>1. t.entries \in Seq(LogEntries) /\ u.entries \in Seq(LogEntries)
    BY EntriesTyped
  <2>2. Makes(ResultsOf, LogEntries, S)
    BY EntriesMake
  <2>3. ToolMessages(t) = Each(t.entries, ResultsOf) /\ ToolMessages(u) = Each(u.entries, ResultsOf)
    BY ToolsAre
  <2>4. Each(u.entries, ResultsOf) = Each(t.entries, ResultsOf) \o Each(more, ResultsOf)
    BY <2>1, <2>2, EachBoth
  <2>5. Each(t.entries, ResultsOf) \in Seq(S) /\ Each(more, ResultsOf) \in Seq(S)
    BY <2>1, <2>2, EachTyped
  <2> QED BY <2>3, <2>4, <2>5
<1>5. x = IF ToolCalls(t) # <<>> THEN <<One(t)>> \o results
          ELSE IF HasBlock(t) \/ results = <<>> THEN Append(results, Other(t)) ELSE results
  BY <1>2
<1>6. y = IF ToolCalls(u) # <<>> THEN <<One(u)>> \o ToolMessages(u)
          ELSE IF HasBlock(u) \/ ToolMessages(u) = <<>> THEN Append(ToolMessages(u), Other(u))
          ELSE ToolMessages(u)
  BY <1>2
<1> HIDE DEF Content, One, Other, results, added, x, y, S
<1>7. CASE results = <<>>
  <2>1. x = <<One(t)>> \o <<>> \/ x = Append(<<>>, Other(t))
    BY <1>5, <1>7
  <2>2. \A w : <<w>> \o <<>> = <<w>> /\ Append(<<>>, w) = <<w>>
    OBVIOUS
  <2>o. PICK w : x = <<w>>
    BY <2>1, <2>2
  <2>3. Len(x) <= 1
    BY <2>o
  <2>4. Continues(S, x, y)
    BY <1>1, <2>3, ContinuesOne
  <2> QED BY <2>4 DEF S, x, y
<1>8. CASE results # <<>>
  <2>1. ToolCalls(t) = <<>>
    BY <1>3, <1>8 DEF results
  <2>2. ToolMessages(u) # <<>>
    <3>1. results \o added # <<>>
      BY <1>4, <1>8
    <3> QED BY <1>4, <3>1
  <2>3. ToolCalls(u) = <<>>
    BY <1>3, <2>2
  <2>4. \E last \in Seq(S) : Len(last) <= 1 /\ x = results \o last
    <3>1. CASE HasBlock(t)
      <4>1. x = Append(results, Other(t))
        BY <1>5, <2>1, <3>1
      <4>2. Other(t) \in S
        <5>1. x[Len(results) + 1] = Other(t) /\ Len(results) + 1 \in DOMAIN x
          BY <1>4, <4>1
        <5> QED BY <1>1, <5>1
      <4>3. <<Other(t)>> \in Seq(S) /\ x = results \o <<Other(t)>> /\ Len(<<Other(t)>>) <= 1
        BY <1>4, <4>1, <4>2
      <4> QED BY <4>3
    <3>2. CASE ~HasBlock(t)
      <4>1. x = results
        BY <1>5, <1>8, <2>1, <3>2
      <4>2. <<>> \in Seq(S) /\ x = results \o <<>> /\ Len(<<>>) <= 1
        BY <1>4, <4>1
      <4> QED BY <4>2
    <3> QED BY <3>1, <3>2
  <2>5. \E rest \in Seq(S) : y = results \o rest
    <3>1. CASE HasBlock(u)
      <4>1. y = Append(results \o added, Other(u))
        BY <1>4, <1>6, <2>3, <3>1
      <4>2. results \o added \in Seq(S)
        BY <1>4
      <4>3. Other(u) \in S
        <5>1. y[Len(results \o added) + 1] = Other(u) /\ Len(results \o added) + 1 \in DOMAIN y
          BY <4>1, <4>2
        <5> QED BY <1>1, <5>1
      <4> DEFINE one == <<Other(u)>>
      <4>4. one \in Seq(S) /\ Append(results \o added, Other(u)) = (results \o added) \o one
        BY <4>2, <4>3
      <4> HIDE DEF one
      <4>5. (results \o added) \o one = results \o (added \o one) /\ added \o one \in Seq(S)
        BY <1>4, <4>4, Regroup
      <4> QED BY <4>1, <4>4, <4>5
    <3>2. CASE ~HasBlock(u)
      BY <1>4, <1>6, <2>2, <2>3, <3>2
    <3> QED BY <3>1, <3>2
  <2> QED BY <1>4, <2>4, <2>5 DEF Continues, S, x, y
<1> QED BY <1>7, <1>8

\* Whatever the dialect, a turn that grows leaves its messages but the last.
LEMMA TurnKept ==
  ASSUME NEW d, NEW old, NEW new, Grown(old, new), old # <<>>,
         \A ts \in {old, new} :
           /\ Uniform(ts[Len(old)])
           /\ \A j \in DOMAIN ts[Len(old)].entries : AsStored(ts[Len(old)].entries[j])
  PROVE  Continues(Messages, Encoded(d, old)[Len(old)], Encoded(d, new)[Len(old)])
<1> DEFINE m == Len(old)
           t == old[m]
           u == new[m]
           x == Encoded(d, old)[m]
           y == Encoded(d, new)[m]
<1>1. /\ old \in Seq(Turns) /\ new \in Seq(Turns) /\ m \in Nat \ {0}
      /\ DOMAIN old = 1..m /\ m \in DOMAIN old /\ m \in DOMAIN new
  BY SequenceIs DEF Grown
<1>2. t \in Turns /\ u \in Turns /\ Grows(t, u)
  <2>1. Grows(t, u)
    BY DEF Grown
  <2>2. \A ts \in Seq(Turns) : \A i \in DOMAIN ts : ts[i] \in Turns
    OBVIOUS
  <2> HIDE DEF m
  <2>3. t \in Turns /\ u \in Turns
    BY <1>1, <2>2
  <2> QED BY <2>1, <2>3
<1>3. Uniform(t) /\ Uniform(u) /\ (\A j \in DOMAIN t.entries : AsStored(t.entries[j]))
      /\ \A j \in DOMAIN u.entries : AsStored(u.entries[j])
  OBVIOUS
<1>4. x = (IF IsSystem(t) THEN <<>> ELSE MessagesOf(d, old, m))
      /\ y = IF IsSystem(u) THEN <<>> ELSE MessagesOf(d, new, m)
  BY <1>1 DEF Encoded
<1>5. x \in Seq(Messages) /\ y \in Seq(Messages)
  <2>1. <<>> \in Seq(Messages)
    OBVIOUS
  <2>2. MessagesOf(d, old, m) \in Seq(Messages) /\ MessagesOf(d, new, m) \in Seq(Messages)
    BY <1>1, EncodedTyped
  <2> HIDE DEF x, y, t, u, m
  <2> QED BY <1>4, <2>1, <2>2
<1>6. CASE u = t
  <2>1. m # 1 => new[m - 1] = old[m - 1]
    <3>1. \A i \in 1..m : i # m => new[i] = old[i]
      BY DEF Grown
    <3>2. m \in Nat \ {0}
      BY <1>1
    <3> HIDE DEF m
    <3>3. m # 1 => m - 1 \in 1..m /\ m - 1 # m
      BY <3>2
    <3> QED BY <3>1, <3>3
  <2>2. y = x
    BY <1>1, <1>6, <2>1, EncodedAlike
  <2> QED BY <1>5, <2>2, ContinuesSame
<1>7. CASE u # t
  <2>1. PICK more \in Seq(LogEntries) : u.entries = t.entries \o more
    BY <1>2, <1>7 DEF Grows
  <2>2. ~IsSystem(t) /\ ~IsSystem(u)
    BY <1>2, <1>7 DEF Grows, IsSystem
  <2>3. CASE d \in {"anthropic", "gemini"}
    <3>1. PICK one : MessagesOf(d, old, m) = <<one>>
      BY <2>3 DEF MessagesOf
    <3>2. x = <<one>>
      BY <1>4, <2>2, <3>1
    <3> HIDE DEF x, y
    <3>3. Len(x) <= 1
      BY <3>2
    <3> QED BY <1>5, <3>3, ContinuesOne DEF x, y
  <2>4. CASE d \notin {"anthropic", "gemini"}
    <3>1. MessagesOf(d, old, m) = TurnMessages(t) /\ MessagesOf(d, new, m) = TurnMessages(u)
      BY <2>4 DEF MessagesOf
    <3>2. x = TurnMessages(t) /\ y = TurnMessages(u)
      BY <1>4, <2>2, <3>1
    <3> HIDE DEF x, y, t, u
    <3>3. Continues(Messages, TurnMessages(t), TurnMessages(u))
      BY <1>2, <1>3, <2>1, TurnMessagesKept
    <3> QED BY <3>2, <3>3 DEF x, y
  <2> QED BY <2>3, <2>4
<1> QED BY <1>6, <1>7

\* What continues another does so between others.
LEMMA ContinuesWithin ==
  ASSUME NEW S, NEW front \in Seq(S), NEW back \in Seq(S), NEW x, NEW y, Continues(S, x, y)
  PROVE  Continues(S, front \o x, (front \o y) \o back)
<1>1. PICK c \in Seq(S), last \in Seq(S), rest \in Seq(S) :
        Len(last) <= 1 /\ x = c \o last /\ y = c \o rest
  BY DEF Continues
<1>2. front \o c \in Seq(S) /\ rest \o back \in Seq(S)
  BY Regroup
<1>3. (front \o c) \o last = front \o (c \o last)
  BY ConcatAssociative, SMTT(30)
<1>4. (front \o c) \o rest = front \o (c \o rest)
  BY ConcatAssociative, SMTT(30)
<1>5. \A ab \in Seq(S) : (ab \o rest) \o back = ab \o (rest \o back)
  BY ConcatAssociative, SMTT(30)
<1>6. (front \o (c \o rest)) \o back = (front \o c) \o (rest \o back)
  BY <1>2, <1>4, <1>5
<1>7. front \o x = (front \o c) \o last /\ (front \o y) \o back = (front \o c) \o (rest \o back)
  BY <1>1, <1>3, <1>6
<1> QED BY <1>1, <1>2, <1>7 DEF Continues

\* The messages are those there were, but for the last.
LEMMA MessagesKept ==
  ASSUME NEW d, NEW old, NEW new, Grown(old, new),
         \A ts \in {old, new} : \A i \in DOMAIN ts :
           Uniform(ts[i]) /\ \A j \in DOMAIN ts[i].entries : AsStored(ts[i].entries[j])
  PROVE  Continues(Messages, Whole(Encoded(d, old)), Whole(Encoded(d, new)))
<1> DEFINE a == Encoded(d, old)
           b == Encoded(d, new)
           m == Len(old)
           n == Len(new)
           S == Messages
<1>1. /\ old \in Seq(Turns) /\ new \in Seq(Turns) /\ m \in Nat /\ n \in Nat /\ m <= n
      /\ DOMAIN old = 1..m /\ DOMAIN new = 1..n
      /\ (old = <<>>) <=> (m = 0)
  BY SequenceIs DEF Grown
<1>2. a \in Seq(Seq(S)) /\ b \in Seq(Seq(S)) /\ Len(a) = m /\ Len(b) = n
  BY <1>1, EncodedTyped
<1>3. Whole(a) \in Seq(S) /\ Whole(b) \in Seq(S)
  BY <1>2, JoinedTyped
<1>4. \A i \in 1..(m - 1) : a[i] = b[i]
  <2> SUFFICES ASSUME NEW i \in 1..(m - 1) PROVE a[i] = b[i]
    OBVIOUS
  <2>1. \A j \in 1..m : j # m => new[j] = old[j]
    BY DEF Grown
  <2> HIDE DEF m, n
  <2>2. i \in 1..m /\ i # m /\ i \in 1..n /\ (i # 1 => i - 1 \in 1..m /\ i - 1 # m)
    BY <1>1
  <2>3. new[i] = old[i] /\ (i # 1 => new[i - 1] = old[i - 1])
    BY <2>1, <2>2
  <2>4. i \in DOMAIN old /\ i \in DOMAIN new
    BY <1>1, <2>2
  <2> QED BY <1>1, <2>3, <2>4, EncodedAlike
<1>5. CASE m = 0
  <2>1. Whole(a) = <<>>
    BY <1>2, <1>5, JoinedNone
  <2>2. Len(Whole(a)) <= 1
    BY <2>1
  <2> HIDE DEF a, b, S
  <2>3. Continues(S, Whole(a), Whole(b))
    BY <1>3, <2>2, ContinuesOne
  <2> QED BY <2>3 DEF a, b, S
<1>6. CASE m # 0
  <2>1. Continues(S, a[m], b[m])
    <3>1. old # <<>> /\ m \in DOMAIN old /\ m \in DOMAIN new
      BY <1>1, <1>6
    <3>2. \A ts \in {old, new} :
            Uniform(ts[m]) /\ \A j \in DOMAIN ts[m].entries : AsStored(ts[m].entries[j])
      BY <3>1
    <3> QED BY <3>1, <3>2, TurnKept
  <2> HIDE DEF a, b, S, m, n
  <2>2. a # <<>> /\ Len(a) <= Len(b) /\ \A i \in 1..(Len(a) - 1) : a[i] = b[i]
    BY <1>1, <1>2, <1>4, <1>6
  <2>3. PICK p \in Seq(Seq(S)), r \in Seq(Seq(S)) : AreSides(a, b, Len(a), p, r)
    BY <1>2, <2>2, Sides
  <2>4. Whole(p) \in Seq(S) /\ Whole(r) \in Seq(S)
    BY JoinedTyped
  <2>5. Whole(a) = Whole(p) \o a[m] /\ Whole(b) = (Whole(p) \o b[m]) \o Whole(r)
    BY <1>2, <2>3 DEF AreSides
  <2>6. Continues(S, Whole(a), Whole(b))
    BY <2>1, <2>4, <2>5, ContinuesWithin
  <2> QED BY <2>6 DEF a, b, S
<1> QED BY <1>5, <1>6

\* A request with the same tools, whatever the context.
LEMMA ToolsAlike ==
  ASSUME NEW agent0, agent0.dialect \in {"anthropic", "gemini", "openai"}, NEW tools, NEW c1, NEW c2
  PROVE  RequestOf(agent0, c1, tools).tools = RequestOf(agent0, c2, tools).tools
<1>1. ASSUME NEW url, NEW header, NEW name, NEW asked, NEW tools0, NEW body
      PROVE  Post(agent0, url, header, name, asked, tools0, body).tools = tools0
  BY DEF Post
<1>2. \A c : AnthropicPost(agent0, c, tools).tools = ToolsJson(tools, "input_schema")
  BY <1>1 DEF AnthropicPost
<1>3. \A c : GeminiPost(agent0, c, tools).tools = ToolsJson(tools, "parameters")
  BY <1>1 DEF GeminiPost
<1>4. \A c : OpenAiPost(agent0, c, tools).tools = ToolsJson(tools, "parameters")
  BY <1>1 DEF OpenAiPost
<1> QED BY <1>2, <1>3, <1>4 DEF RequestOf

\* A conversation continued is numbered on.
LEMMA NumberedOn ==
  ASSUME NEW log, IsLog(log), NEW more, IsLog(more), \A i \in DOMAIN more : more[i].role # "system"
  PROVE  LET entries == Numbered(log)
         IN  /\ IsLog(entries \o more)
             /\ \E added \in Seq(Said) : Numbered(entries \o more) = entries \o added
<1> DEFINE entries == Numbered(log)
           longer == entries \o more
           all == Numbered(longer)
           n == Len(entries)
           k == Len(more)
           added == SubSeq(all, n + 1, Len(all))
<1>1. /\ entries \in Seq(LogEntries) /\ DOMAIN entries = DOMAIN log
      /\ \A i \in DOMAIN entries : entries[i].n = i /\ AsStored(entries[i])
  BY NumberedIs
<1>2. more \in Seq(LogEntries) /\ \A i \in DOMAIN more : AsStored(more[i])
  BY DEF IsLog
<1> HIDE DEF entries
<1>3. /\ longer \in Seq(LogEntries) /\ n \in Nat /\ k \in Nat /\ Len(longer) = n + k
      /\ DOMAIN longer = 1..(n + k) /\ DOMAIN entries = 1..n /\ DOMAIN more = 1..k
      /\ \A i \in 1..(n + k) : longer[i] = IF i <= n THEN entries[i] ELSE more[i - n]
  <2>1. /\ longer \in Seq(LogEntries) /\ Len(longer) = n + k
        /\ \A i \in 1..(n + k) : longer[i] = IF i <= n THEN entries[i] ELSE more[i - n]
    BY <1>1, <1>2, ConcatProperties
  <2> HIDE DEF longer
  <2>2. n \in Nat /\ k \in Nat /\ DOMAIN longer = 1..Len(longer) /\ DOMAIN entries = 1..n /\ DOMAIN more = 1..k
    BY <1>1, <1>2, <2>1, SequenceIs
  <2> QED BY <2>1, <2>2
<1>n. n = Len(entries)
  OBVIOUS
<1> HIDE DEF longer, n, k
<1>4. \A i \in 1..(n + k) : (i <= n => i \in 1..n) /\ (~(i <= n) => i - n \in 1..k)
  BY <1>3
<1>5. \A i \in 1..(n + k) : AsStored(longer[i])
  BY <1>1, <1>2, <1>3, <1>4
<1>6. IsLog(longer)
  BY <1>3, <1>5 DEF IsLog
<1>7. /\ all \in Seq(LogEntries) /\ DOMAIN all = 1..(n + k)
      /\ \A i \in 1..(n + k) : all[i] = [longer[i] EXCEPT !.n = i]
  BY <1>3, <1>6, NumberedIs DEF Numbered
<1> HIDE DEF all
<1>8. \A i \in 1..n : all[i] = entries[i]
  <2> SUFFICES ASSUME NEW i \in 1..n PROVE all[i] = entries[i]
    OBVIOUS
  <2>1. i \in 1..(n + k) /\ i <= n
    BY <1>3
  <2>2. all[i] = [entries[i] EXCEPT !.n = i] /\ entries[i].n = i /\ entries[i] \in LogEntries
    BY <1>1, <1>3, <1>7, <2>1
  <2>3. [entries[i] EXCEPT !.n = entries[i].n] = entries[i]
    BY <2>2 DEF LogEntries
  <2> QED BY <2>2, <2>3
<1>9. \A i \in 1..(n + k) : i > n => all[i].role # "system"
  <2> SUFFICES ASSUME NEW i \in 1..(n + k), i > n PROVE all[i].role # "system"
    OBVIOUS
  <2>1. i - n \in 1..k /\ longer[i] = more[i - n]
    BY <1>3, <1>4
  <2>d. more[i - n] \in LogEntries /\ more[i - n].role # "system"
    <3>1. i - n \in DOMAIN more
      BY <1>3, <2>1
    <3>2. \A j \in DOMAIN more : more[j] \in LogEntries
      BY <1>2
    <3> QED BY <3>1, <3>2
  <2>2. longer[i] \in LogEntries /\ longer[i].role # "system"
    BY <2>1, <2>d
  <2>3. \A e \in LogEntries : [e EXCEPT !.n = i].role = e.role
    BY DEF LogEntries
  <2> QED BY <1>7, <2>2, <2>3
<1>10. Len(all) = n + k /\ n \in 0..Len(all) /\ Len(all) - n = k
  BY <1>3, <1>7
<1>11. /\ SubSeq(all, 1, n) \in Seq(LogEntries) /\ added \in Seq(LogEntries)
       /\ all = SubSeq(all, 1, n) \o added
       /\ Len(SubSeq(all, 1, n)) = n /\ Len(added) = k
       /\ \A i \in 1..n : SubSeq(all, 1, n)[i] = all[i]
       /\ \A i \in 1..k : added[i] = all[n + i]
  <2> DEFINE L == Len(all)
  <2>1. n \in 0..L
    BY <1>10
  <2>a. all \in Seq(LogEntries)
    BY <1>7
  <2>2. /\ SubSeq(all, 1, n) \in Seq(LogEntries) /\ SubSeq(all, n + 1, L) \in Seq(LogEntries)
        /\ all = SubSeq(all, 1, n) \o SubSeq(all, n + 1, L)
        /\ Len(SubSeq(all, 1, n)) = n /\ Len(SubSeq(all, n + 1, L)) = L - n
        /\ \A i \in 1..n : SubSeq(all, 1, n)[i] = all[i]
        /\ \A i \in 1..(L - n) : SubSeq(all, n + 1, L)[i] = all[n + i]
    BY <2>1, <2>a, Halves
  <2> QED BY <1>10, <2>2
<1>12. SubSeq(all, 1, n) = entries
  <2> DEFINE start == SubSeq(all, 1, n)
  <2>1. start \in Seq(LogEntries) /\ Len(start) = n /\ \A i \in 1..n : start[i] = entries[i]
    BY <1>8, <1>11
  <2> HIDE DEF start
  <2>2. start = entries
    BY <1>1, <1>n, <2>1, SeqEqual
  <2> QED BY <2>2 DEF start
<1> HIDE DEF added
<1>13. \A i \in 1..k : added[i] \in Said
  <2>1. \A i \in 1..k : n + i \in 1..(n + k) /\ n + i > n
    BY <1>3
  <2>2. \A i \in 1..k : added[i] \in LogEntries
    BY <1>11
  <2> QED BY <1>9, <1>11, <2>1, <2>2 DEF Said
<1>14. added \in Seq(Said)
  BY <1>11, <1>13
<1> QED BY <1>6, <1>11, <1>12, <1>14 DEF all, longer, entries

\* What is said next leaves what was sent before.
LEMMA ReadyPrefixKept == Ready /\ Encodable => PrefixKept
<1> DEFINE tools == Schemas(manch[1])
<1> SUFFICES ASSUME Ready, Encodable, stage = "encoded", NEW more \in Additions,
                    \A i \in DOMAIN more : more[i].role # "system"
             PROVE  LET next == RequestOf(agent[1], Context(Entries \o more), tools)
                    IN  /\ next.tools = request[1].tools
                        /\ next.body.system = Body.system
                        /\ next.body.cached = Body.cached
                        /\ Body.messages # <<>> => IsPrefix(Front(Body.messages), next.body.messages)
  BY DEF PrefixKept
<1> DEFINE log == host[1].log
           entries == Entries
           ts == Context(entries \o more)
           next == RequestOf(agent[1], ts, tools)
           body == Body
<1>1. /\ request = <<RequestOf(agent[1], turns, tools)>> /\ turns = Context(log)
  BY RequestAgent
<1>2. PICK spec, n : /\ agent[1] = AgentBy(spec, n)
                     /\ spec.provider \in Providers /\ dialect = DialectOf(spec.provider)
  BY RequestAgent
<1>3. /\ dialect \in {"anthropic", "gemini", "openai"} /\ turns \in Seq(Turns)
      /\ entries \in Seq(LogEntries) /\ entries = Numbered(log) /\ IsLog(log)
      /\ body.system = Whole(SystemSays(dialect, turns))
      /\ body.messages = Whole(Encoded(dialect, turns))
      /\ \A i \in DOMAIN turns : Fits(dialect, turns[i])
  BY RequestBody
<1>4. IsLog(more)
  BY LogsOK
<1>b. body = RequestOf(agent[1], turns, tools).body
  BY <1>1 DEF Body
<1>t. request[1] = RequestOf(agent[1], turns, tools)
  BY <1>1
<1> HIDE DEF log, entries, ts, next, body, tools
<1>5. /\ IsLog(entries \o more)
      /\ \E added \in Seq(Said) : Numbered(entries \o more) = entries \o added
  BY <1>3, <1>4, NumberedOn
<1>6. turns = CoalesceTurns(entries)
  BY <1>1, <1>3 DEF Context
<1>7. Grown(turns, ts)
  <2>1. PICK added \in Seq(Said) : Numbered(entries \o more) = entries \o added
    BY <1>5
  <2>2. ts = CoalesceTurns(entries \o added)
    BY <2>1 DEF ts, Context
  <2> QED BY <1>3, <1>6, <2>2, GrownBy
<1>8. ts \in Seq(Turns)
  BY <1>7 DEF Grown
<1>9. \A w \in {turns, ts} : \A i \in DOMAIN w :
        Uniform(w[i]) /\ \A j \in DOMAIN w[i].entries : AsStored(w[i].entries[j])
  <2>1. \A i \in DOMAIN turns :
          Uniform(turns[i]) /\ \A j \in DOMAIN turns[i].entries : AsStored(turns[i].entries[j])
    BY <1>3 DEF Fits
  <2>2. \A i \in DOMAIN ts :
          Uniform(ts[i]) /\ \A j \in DOMAIN ts[i].entries : AsStored(ts[i].entries[j])
    BY <1>5, ContextIs DEF ts, AreTurnsOf
  <2> QED BY <2>1, <2>2
<1>10. /\ next.body.system = Whole(SystemSays(dialect, ts))
       /\ next.body.messages = Whole(Encoded(dialect, ts))
       /\ \E cache : /\ next.body.cached = (dialect = "anthropic" /\ cache /\ next.body.system # <<>>)
                     /\ body.cached = (dialect = "anthropic" /\ cache /\ body.system # <<>>)
  <2>1. \A c \in Seq(Turns) :
          LET b == RequestOf(agent[1], c, tools).body
          IN  /\ b.system = Whole(SystemSays(dialect, c))
              /\ b.messages = Whole(Encoded(dialect, c))
              /\ b.cached = (dialect = "anthropic" /\ SetBy(spec, "cache_system_prompt", n, Caches)
                               /\ b.system # <<>>)
    BY <1>2, BodyIs DEF AgentBy
  <2> QED BY <1>3, <1>8, <1>b, <2>1 DEF next
<1>11. next.body.system = body.system
  BY <1>3, <1>7, <1>10, SystemKept
<1>12. next.body.cached = body.cached
  BY <1>10, <1>11
<1>13. Continues(Messages, body.messages, next.body.messages)
  BY <1>3, <1>7, <1>9, <1>10, MessagesKept
<1>14. body.messages # <<>> => IsPrefix(Front(body.messages), next.body.messages)
  BY <1>13, ContinuesFront
<1>15. next.tools = request[1].tools
  <2>1. agent[1].dialect = dialect
    BY <1>2 DEF AgentBy, AgentOf
  <2>2. agent[1].dialect \in {"anthropic", "gemini", "openai"}
    BY <1>3, <2>1
  <2> QED BY <1>t, <2>2, ToolsAlike DEF next
<1> QED BY <1>11, <1>12, <1>14, <1>15 DEF next, ts, entries, body, tools

-----------------------------------------------------------------------------
(* Where each piece of a joined list stands.                                *)

\* The pieces begin behind the places off; every place is one of some piece.
Placed(parts, off) ==
  /\ off \in [0..Len(parts) -> Nat] /\ off[0] = 0
  /\ off[Len(parts)] = Len(Whole(parts))
  /\ \A i \in 1..Len(parts) :
       /\ off[i] = off[i - 1] + Len(parts[i])
       /\ \A j \in 1..Len(parts[i]) : Whole(parts)[off[i - 1] + j] = parts[i][j]
  /\ \A k \in 1..Len(Whole(parts)) :
       \E i \in 1..Len(parts) : \E j \in 1..Len(parts[i]) : k = off[i - 1] + j

\* Later pieces begin later.
LEMMA PlacedGrows ==
  ASSUME NEW S, NEW p \in Seq(Seq(S)), NEW off, Placed(p, off),
         NEW i \in 0..Len(p), NEW k \in 0..Len(p), i <= k
  PROVE  off[i] <= off[k]
<1> DEFINE Q == Seq(S)
           n == Len(p)
           P == {j \in 0..(n - i) : off[i] <= off[i + j]}
<1>1. p \in Seq(Q)
  OBVIOUS
<1> HIDE DEF Q
<1>2. n \in Nat /\ \A j \in 1..n : p[j] \in Q
  BY <1>1
<1>3. /\ off \in [0..n -> Nat]
      /\ \A j \in 1..n : off[j] = off[j - 1] + Len(p[j])
  BY DEF Placed
<1> HIDE DEF n
<1>i. i \in 0..n /\ k \in 0..n
  BY DEF n
<1>4. \A j \in 1..n : Len(p[j]) \in Nat
  BY <1>2 DEF Q
<1>5. 0 \in P
  <2>1. i + 0 = i /\ off[i] \in Nat /\ 0 \in 0..(n - i)
    BY <1>2, <1>3, <1>i
  <2> QED BY <2>1
<1>6. ASSUME NEW j \in 0..(n - i), j \in P, j < n - i PROVE j + 1 \in P
  <2>1. /\ i + (j + 1) \in 1..n /\ i + (j + 1) - 1 = i + j /\ j + 1 \in 0..(n - i)
        /\ i + j \in 0..n
    BY <1>2, <1>i, <1>6
  <2>2. off[i + (j + 1)] = off[i + j] + Len(p[i + (j + 1)])
    BY <1>3, <2>1
  <2>3. off[i] <= off[i + j] /\ off[i] \in Nat /\ off[i + j] \in Nat
    BY <1>3, <1>6, <1>i, <2>1
  <2>4. Len(p[i + (j + 1)]) \in Nat
    BY <1>4, <2>1
  <2>5. off[i] <= off[i + (j + 1)]
    BY <2>2, <2>3, <2>4
  <2> QED BY <2>1, <2>5
<1> HIDE DEF P
<1>7. n - i \in Nat
  BY <1>2, <1>i
<1>8. 0..(n - i) \subseteq P
  BY <1>5, <1>6, <1>7, Reached
<1>9. k - i \in 0..(n - i) /\ i + (k - i) = k
  BY <1>2, <1>i
<1>10. k - i \in P
  BY <1>8, <1>9
<1> QED BY <1>9, <1>10 DEF P

\* One more piece has its place.
LEMMA PlacedMore ==
  ASSUME NEW S, NEW p \in Seq(Seq(S)), NEW x \in Seq(S), NEW off, Placed(p, off)
  PROVE  \E on : Placed(Append(p, x), on)
<1> DEFINE Q == Seq(S)
           new == Append(p, x)
           n == Len(p)
           whole == Whole(p)
           longer == Whole(new)
           on == [i \in 0..(n + 1) |-> IF i = n + 1 THEN off[n] + Len(x) ELSE off[i]]
<1>1. p \in Seq(Q) /\ x \in Q
  OBVIOUS
<1> HIDE DEF Q
<1>2. /\ new \in Seq(Q) /\ Len(new) = n + 1 /\ n \in Nat
      /\ new[n + 1] = x /\ \A j \in 1..n : new[j] = p[j] /\ p[j] \in Q
  BY <1>1, AppendIs, SequenceIs
<1>3. longer = whole \o x
  BY <1>1, JoinedMore
<1>4. whole \in Seq(S)
  BY JoinedTyped
<1>5. /\ off \in [0..n -> Nat] /\ off[0] = 0 /\ off[n] = Len(whole)
      /\ \A i \in 1..n : /\ off[i] = off[i - 1] + Len(p[i])
                         /\ \A j \in 1..Len(p[i]) : whole[off[i - 1] + j] = p[i][j]
      /\ \A k \in 1..Len(whole) : \E i \in 1..n : \E j \in 1..Len(p[i]) : k = off[i - 1] + j
  BY DEF Placed
<1> HIDE DEF new, whole, longer, n
<1>6. /\ Len(whole) \in Nat /\ Len(x) \in Nat /\ Len(longer) = Len(whole) + Len(x)
      /\ \A k \in 1..Len(whole) : longer[k] = whole[k]
      /\ \A k \in 1..Len(x) : longer[Len(whole) + k] = x[k]
  BY <1>3, <1>4
<1>7. /\ on \in [0..(n + 1) -> Nat] /\ on[0] = 0
      /\ on[n + 1] = Len(longer) /\ on[n] = Len(whole)
      /\ \A i \in 0..n : on[i] = off[i]
  <2>a. n \in Nat /\ off \in [0..n -> Nat]
    BY <1>2, <1>5
  <2>b. \A i \in 0..n : i # n + 1
    BY <2>a
  <2>1. 0 \in 0..n /\ n \in 0..n /\ \A i \in 0..n : i # n + 1 /\ off[i] \in Nat
    BY <2>a, <2>b
  <2>2. \A i \in 0..(n + 1) : i = n + 1 \/ i \in 0..n
    BY <1>2
  <2>3. off[n] + Len(x) \in Nat /\ 0 \in 0..(n + 1) /\ n \in 0..(n + 1) /\ n + 1 \in 0..(n + 1)
    BY <1>2, <1>5, <1>6
  <2> QED BY <1>5, <1>6, <2>1, <2>2, <2>3
<1> HIDE DEF on
<1>8. ASSUME NEW i \in 1..(n + 1)
      PROVE  /\ on[i] = on[i - 1] + Len(new[i])
             /\ \A j \in 1..Len(new[i]) : longer[on[i - 1] + j] = new[i][j]
  <2>1. CASE i = n + 1
    <3>1. i - 1 = n /\ new[i] = x
      BY <1>2, <2>1
    <3>2. on[i] = Len(longer) /\ on[i - 1] = Len(whole)
      BY <1>7, <2>1, <3>1
    <3> QED BY <1>6, <3>1, <3>2
  <2>2. CASE i # n + 1
    <3>1. i \in 1..n /\ i \in 0..n /\ i - 1 \in 0..n
      BY <1>2, <2>2
    <3>2. new[i] = p[i] /\ on[i] = off[i] /\ on[i - 1] = off[i - 1] /\ p[i] \in Q
      BY <1>2, <1>7, <3>1
    <3>3. ASSUME NEW j \in 1..Len(p[i]) PROVE longer[off[i - 1] + j] = p[i][j]
      <4>1. off[i - 1] + j \in 1..Len(whole)
        <5>1. Placed(p, off) => off[i] <= off[n]
          BY <1>1, <3>1, PlacedGrows DEF n, Q
        <5>2. off[i] = off[i - 1] + Len(p[i]) /\ off[i - 1] \in Nat /\ off[n] = Len(whole)
          BY <1>5, <3>1
        <5>3. Len(p[i]) \in Nat
          BY <3>2 DEF Q
        <5> QED BY <1>6, <5>1, <5>2, <5>3, SMTT(30)
      <4> QED BY <1>5, <1>6, <3>1, <4>1
    <3> QED BY <1>5, <3>1, <3>2, <3>3
  <2> QED BY <2>1, <2>2
<1>9. ASSUME NEW k \in 1..Len(longer)
      PROVE  \E i \in 1..(n + 1) : \E j \in 1..Len(new[i]) : k = on[i - 1] + j
  <2>1. CASE k \in 1..Len(whole)
    <3>a. PICK i \in 1..n : \E j \in 1..Len(p[i]) : k = off[i - 1] + j
      BY <1>5, <2>1
    <3>1. PICK j \in 1..Len(p[i]) : k = off[i - 1] + j
      BY <3>a
    <3>2. i \in 1..(n + 1) /\ i - 1 \in 0..n /\ new[i] = p[i]
      BY <1>2, <3>1
    <3>3. on[i - 1] = off[i - 1]
      BY <1>7, <3>2
    <3> QED BY <3>1, <3>2, <3>3
  <2>2. CASE k \notin 1..Len(whole)
    <3>1. k - Len(whole) \in 1..Len(x) /\ k = Len(whole) + (k - Len(whole))
      BY <1>6, <2>2
    <3>2. n + 1 \in 1..(n + 1) /\ n + 1 - 1 = n
      BY <1>2
    <3>3. PICK i \in 1..(n + 1) : i = n + 1
      BY <3>2
    <3>4. i - 1 = n /\ new[i] = x /\ on[n] = Len(whole)
      BY <1>2, <1>7, <3>3
    <3>5. \E j \in 1..Len(new[i]) : k = on[i - 1] + j
      BY <3>1, <3>4
    <3> QED BY <3>5
  <2> QED BY <2>1, <2>2
<1>10. Placed(new, on)
  <2>1. Len(new) = n + 1 /\ Whole(new) = longer
    BY <1>2 DEF longer
  <2>2. \A i \in 1..(n + 1) :
          /\ on[i] = on[i - 1] + Len(new[i])
          /\ \A j \in 1..Len(new[i]) : longer[on[i - 1] + j] = new[i][j]
    BY <1>8
  <2>3. \A k \in 1..Len(longer) :
          \E i \in 1..(n + 1) : \E j \in 1..Len(new[i]) : k = on[i - 1] + j
    BY <1>9
  <2> HIDE DEF new, longer, whole, n
  <2>4. on \in [0..Len(new) -> Nat] /\ on[0] = 0 /\ on[Len(new)] = Len(Whole(new))
    BY <1>7, <2>1
  <2>5. \A i \in 1..Len(new) :
          /\ on[i] = on[i - 1] + Len(new[i])
          /\ \A j \in 1..Len(new[i]) : Whole(new)[on[i - 1] + j] = new[i][j]
    BY <2>1, <2>2
  <2>6. \A k \in 1..Len(Whole(new)) :
          \E i \in 1..Len(new) : \E j \in 1..Len(new[i]) : k = on[i - 1] + j
    BY <2>1, <2>3
  <2> QED BY <2>4, <2>5, <2>6 DEF Placed
<1> QED BY <1>10 DEF new

\* Each list of pieces has its places.
LEMMA HasPlaces ==
  ASSUME NEW S, NEW parts \in Seq(Seq(S))
  PROVE  \E off : Placed(parts, off)
<1> DEFINE P == {p \in Seq(Seq(S)) : \E off : Placed(p, off)}
<1>1. <<>> \in P
  <2> DEFINE off == [i \in 0..0 |-> 0]
             e == << >>
  <2>1. e \in Seq(Seq(S)) /\ Len(e) = 0 /\ Whole(e) = <<>> /\ Len(<<>>) = 0
    BY JoinedNone
  <2>2. off \in [0..0 -> Nat] /\ off[0] = 0 /\ 1..0 = {}
    OBVIOUS
  <2> HIDE DEF e, off
  <2>3. Placed(e, off)
    BY <2>1, <2>2 DEF Placed
  <2> QED BY <2>1, <2>3 DEF e
<1>2. ASSUME NEW p \in Seq(Seq(S)), p \in P, NEW x \in Seq(S) PROVE Append(p, x) \in P
  <2>1. Append(p, x) \in Seq(Seq(S))
    OBVIOUS
  <2> QED BY <1>2, <2>1, PlacedMore
<1> HIDE DEF P
<1>3. Seq(Seq(S)) \subseteq P
  BY <1>1, <1>2, EverySequence
<1> QED BY <1>3 DEF P

-----------------------------------------------------------------------------
(* The parts that stand for calls and results.                              *)

\* The calls and the results of a turn, and the parts of one type.
Calling(t) == Within(t.entries, LogEntries, CallEntries)
Answering(t) == Within(t.entries, LogEntries, ResultEntries)
Typed(type) == {p \in WireParts : p.type = type}

\* One thing of each element of a sequence.
LEMMA OneOfEach ==
  ASSUME NEW T, NEW s \in Seq(T), NEW g, NEW one, \A i \in DOMAIN s : g[s[i]] = <<one[s[i]]>>
  PROVE  /\ Each(s, g) = Mapped(s, one) /\ Len(Mapped(s, one)) = Len(s)
         /\ DOMAIN Mapped(s, one) = 1..Len(s) /\ \A i \in 1..Len(s) : Mapped(s, one)[i] = one[s[i]]
<1>1. Each(s, g) = Mapped(s, one)
  BY EachOne
<1>2. /\ Len(s) \in Nat /\ DOMAIN s = 1..Len(s)
  OBVIOUS
<1>3. Mapped(s, one) = [i \in 1..Len(s) |-> one[s[i]]]
  BY <1>2 DEF Mapped
<1>4. Len(Mapped(s, one)) = Len(s)
  BY <1>2, <1>3
<1> QED BY <1>1, <1>3, <1>4

\* The parts of a message that are of one type, their ids and their names.
LEMMA OfTypeIs ==
  ASSUME NEW m \in Messages, NEW type, NEW these, these = Within(m.parts, WireParts, Typed(type))
  PROVE  /\ OfType(m, type) = these /\ these \in Seq(WireParts)
         /\ IdsIn(m, type) = [j \in 1..Len(these) |-> these[j].id]
         /\ NamesIn(m, type) = [j \in 1..Len(these) |-> these[j].name]
<1> DEFINE parts == m.parts
           keep == [p \in WireParts |-> IF p \in Typed(type) THEN <<p>> ELSE <<>>]
           id == [p \in WireParts |-> p.id]
           name == [p \in WireParts |-> p.name]
           ids == [p \in WireParts |-> <<p.id>>]
           names == [p \in WireParts |-> <<p.name>>]
<1>1. parts \in Seq(WireParts) /\ \A i \in DOMAIN parts : parts[i] \in WireParts
  BY DEF Messages
<1> HIDE DEF parts
<1>2. [i \in DOMAIN parts |-> IF parts[i].type = type THEN <<parts[i]>> ELSE <<>>] = Mapped(parts, keep)
  BY <1>1 DEF Mapped, Typed
<1>3. OfType(m, type) = these
  BY <1>2 DEF OfType, Those, Over, Within, Each, parts
<1>4. these \in Seq(WireParts)
  <2>1. these \in Seq(WireParts \cap Typed(type))
    BY <1>1, WithinTyped DEF parts
  <2> QED BY <2>1
<1>5. \A i \in DOMAIN these : these[i] \in WireParts
  BY <1>4
<1>6. /\ Mapped(these, ids) = [i \in DOMAIN these |-> <<these[i].id>>]
      /\ Mapped(these, names) = [i \in DOMAIN these |-> <<these[i].name>>]
      /\ Mapped(these, id) = [i \in DOMAIN these |-> these[i].id]
      /\ Mapped(these, name) = [i \in DOMAIN these |-> these[i].name]
      /\ DOMAIN these = 1..Len(these)
  BY <1>4, <1>5 DEF Mapped
<1>7. \A i \in DOMAIN these : ids[these[i]] = <<id[these[i]]>>
  BY <1>5
<1>9. \A i \in DOMAIN these : names[these[i]] = <<name[these[i]]>>
  BY <1>5
<1> HIDE DEF id, name, ids, names
<1>8. Each(these, ids) = Mapped(these, id)
  BY <1>4, <1>7, OneOfEach
<1>10. Each(these, names) = Mapped(these, name)
  BY <1>4, <1>9, OneOfEach
<1> QED BY <1>3, <1>4, <1>6, <1>8, <1>10 DEF parts, IdsIn, NamesIn, Over, Each

\* The ids of a turn's calls and results.
LEMMA IdsOfAre ==
  ASSUME NEW t \in Turns
  PROVE  /\ Calling(t) \in Seq(CallEntries) /\ Answering(t) \in Seq(ResultEntries)
         /\ IdsOf(t, "call") = [j \in 1..Len(Calling(t)) |-> Calling(t)[j].id]
         /\ IdsOf(t, "result") = [j \in 1..Len(Answering(t)) |-> Answering(t)[j].id]
<1> DEFINE s == t.entries
           id == [e \in LogEntries |-> e.id]
           ids == [e \in LogEntries |-> <<e.id>>]
<1>1. s \in Seq(LogEntries) /\ \A i \in DOMAIN s : s[i] \in LogEntries
  BY EntriesTyped
<1>2. ASSUME NEW A \in SUBSET LogEntries, NEW kind,
             \A e \in LogEntries : (e.kind = kind) <=> (e \in A)
      PROVE  /\ Within(s, LogEntries, A) \in Seq(A)
             /\ IdsOf(t, kind) = [j \in 1..Len(Within(s, LogEntries, A)) |-> Within(s, LogEntries, A)[j].id]
  <2> DEFINE these == Within(s, LogEntries, A)
             keep == [e \in LogEntries |-> IF e \in A THEN <<e>> ELSE <<>>]
  <2>1. [i \in DOMAIN s |-> IF s[i].kind = kind THEN <<s[i]>> ELSE <<>>] = Mapped(s, keep)
    <3> HIDE DEF s
    <3> QED BY <1>1, <1>2 DEF Mapped
  <2>2. Those(t.entries, LAMBDA e : e.kind = kind) = these
    BY <2>1 DEF Those, Over, Within, Each
  <2>3. these \in Seq(A)
    <3>1. these \in Seq(LogEntries \cap A)
      BY <1>1, WithinTyped
    <3>2. LogEntries \cap A = A
      OBVIOUS
    <3> QED BY <3>1, <3>2
  <2> HIDE DEF these
  <2>4. these \in Seq(LogEntries) /\ \A i \in DOMAIN these : these[i] \in LogEntries
    BY <2>3
  <2>5. /\ Mapped(these, ids) = [i \in DOMAIN these |-> <<these[i].id>>]
        /\ Mapped(these, id) = [i \in DOMAIN these |-> these[i].id]
        /\ DOMAIN these = 1..Len(these)
    BY <2>4 DEF Mapped
  <2>a. these \in Seq(LogEntries)
    BY <2>4
  <2>b. \A i \in DOMAIN these : ids[these[i]] = <<id[these[i]]>>
    BY <2>4
  <2> HIDE DEF id, ids
  <2>6. Each(these, ids) = Mapped(these, id)
    BY <2>a, <2>b, OneOfEach
  <2>7. IdsOf(t, kind) = Joined([i \in DOMAIN these |-> <<these[i].id>>], Len(these))
    BY <2>2 DEF IdsOf, Over
  <2> QED BY <2>3, <2>5, <2>6, <2>7 DEF these, Each
<1> HIDE DEF s
<1>3. /\ CallEntries \in SUBSET LogEntries /\ ResultEntries \in SUBSET LogEntries
      /\ \A e \in LogEntries : (e.kind = "call") <=> (e \in CallEntries)
      /\ \A e \in LogEntries : (e.kind = "result") <=> (e \in ResultEntries)
  BY DEF CallEntries, ResultEntries
<1> QED BY <1>2, <1>3 DEF Calling, Answering, s

\* The part of a call and that of a result.
CallShown(d) ==
  [e \in LogEntries |->
     WirePart("call", <<e>>, IF d = "gemini" THEN [e EXCEPT !.id = Absent] ELSE [e EXCEPT !.meta = Absent])]
ResultShown(d, ts, i) ==
  [e \in LogEntries |->
     WirePart("result", <<e>>,
              IF d = "gemini" THEN [e EXCEPT !.id = Absent, !.tool = ResolveToolName(ts, i, e.id)] ELSE e)]

\* What Anthropic and Gemini are told of an entry and of a turn.
EntryTold(d, ts, i) == IF d = "gemini" THEN PartsOf(ts, i) ELSE JsonOf
TurnTold(d, ts, i) == IF d = "gemini" THEN GeminiContent(ts, i) ELSE AnthropicContent(ts[i])

\* Neither a call's part nor a result's.
IsOther(p) == p \in WireParts /\ p.type # "call" /\ p.type # "result"

\* What these parts say.
LEMMA ShownIs ==
  ASSUME NEW d, NEW ts \in Seq(Turns), NEW i \in DOMAIN ts, NEW e \in LogEntries
  PROVE  LET call == CallShown(d)[e]
             result == ResultShown(d, ts, i)[e]
         IN  /\ call \in Typed("call") /\ result \in Typed("result")
             /\ call.id = (IF d = "gemini" THEN Absent ELSE e.id)
             /\ result.id = (IF d = "gemini" THEN Absent ELSE e.id)
             /\ call.name = e.tool
             /\ d = "gemini" => result.name = ResolveToolName(ts, i, e.id)
<1> DEFINE name == ResolveToolName(ts, i, e.id)
           f == IF d = "gemini" THEN [e EXCEPT !.id = Absent] ELSE [e EXCEPT !.meta = Absent]
           g == IF d = "gemini" THEN [e EXCEPT !.id = Absent, !.tool = name] ELSE e
           call == WirePart("call", <<e>>, f)
           result == WirePart("result", <<e>>, g)
<1>1. e.id \in Words /\ name \in Words
  BY NameTyped DEF LogEntries
<1>2. CallShown(d)[e] = call /\ ResultShown(d, ts, i)[e] = result
  BY DEF CallShown, ResultShown
<1>3. /\ f.id = (IF d = "gemini" THEN Absent ELSE e.id) /\ f.tool = e.tool
      /\ g.id = (IF d = "gemini" THEN Absent ELSE e.id) /\ (d = "gemini" => g.tool = name)
  BY DEF LogEntries
<1>4. Describes(f) /\ Describes(g)
  BY <1>1, Descriptions
<1> HIDE DEF f, g
<1>5. call.type = "call" /\ result.type = "result" /\ call.id = f.id /\ result.id = g.id
      /\ call.name = f.tool /\ result.name = g.tool
  BY DEF WirePart
<1>6. <<e>> \in Seq(LogEntries)
  OBVIOUS
<1>7. call \in WireParts /\ result \in WireParts
  BY <1>4, <1>6, PartTyped
<1> HIDE DEF call, result, name
<1> QED BY <1>2, <1>3, <1>5, <1>7 DEF Typed, name

\* What these dialects are told of an entry.
LEMMA EntryIsTold ==
  ASSUME NEW d \in {"anthropic", "gemini"}, NEW ts \in Seq(Turns), NEW i \in DOMAIN ts,
         NEW e \in LogEntries
  PROVE  LET told == EntryTold(d, ts, i)[e]
         IN  /\ e.kind = "call" => told = <<CallShown(d)[e]>>
             /\ e.kind = "result" => told = <<ResultShown(d, ts, i)[e]>>
             /\ e.kind \notin {"call", "result"} =>
                  told = <<>> \/ \E p : IsOther(p) /\ told = <<p>>
<1> DEFINE text == WirePart("text", <<e>>, NoEntry)
           image == WirePart("image", <<e>>, e)
           document == WirePart("document", <<e>>, e)
           inline == WirePart("inline", <<e>>, e)
<1>1. ~(BinaryBlock(e) /\ e.kind \in {"call", "result", "text"})
  BY DEF BinaryBlock
<1>2. IsOther(text) /\ IsOther(image) /\ IsOther(document) /\ IsOther(inline)
  <2>a. <<e>> \in Seq(LogEntries)
    OBVIOUS
  <2>1. <<e>> \in Seq(LogEntries) /\ Describes(e) /\ Describes(NoEntry)
    BY <2>a, Descriptions
  <2>2. text \in WireParts /\ image \in WireParts /\ document \in WireParts /\ inline \in WireParts
    BY <2>1, PartTyped
  <2>3. text.type = "text" /\ image.type = "image" /\ document.type = "document" /\ inline.type = "inline"
    BY DEF WirePart
  <2> HIDE DEF text, image, document, inline
  <2> QED BY <2>2, <2>3 DEF IsOther
<1>3. CASE d = "anthropic"
  <2>1. EntryTold(d, ts, i)[e] = EntryJson(e)
    BY <1>3 DEF EntryTold, JsonOf
  <2>2. e.kind = "call" => EntryJson(e) = <<CallShown(d)[e]>>
    BY <1>1, <1>3 DEF EntryJson, CallShown
  <2>3. e.kind = "result" => EntryJson(e) = <<ResultShown(d, ts, i)[e]>>
    BY <1>1, <1>3 DEF EntryJson, ResultShown
  <2>4. e.kind \notin {"call", "result"} => EntryJson(e) \in {<<>>, <<text>>, <<image>>, <<document>>}
    BY <1>1 DEF EntryJson
  <2> HIDE DEF text, image, document, inline
  <2> QED BY <1>2, <2>1, <2>2, <2>3, <2>4
<1>4. CASE d = "gemini"
  <2>1. EntryTold(d, ts, i)[e] = EntryPart(e, ts, i)
    BY <1>4 DEF EntryTold, PartsOf
  <2>2. e.kind = "call" => EntryPart(e, ts, i) = <<CallShown(d)[e]>>
    BY <1>1, <1>4 DEF EntryPart, CallShown
  <2>3. e.kind = "result" => EntryPart(e, ts, i) = <<ResultShown(d, ts, i)[e]>>
    BY <1>1, <1>4 DEF EntryPart, ResultShown
  <2>4. e.kind \notin {"call", "result"} => EntryPart(e, ts, i) \in {<<>>, <<text>>, <<inline>>}
    BY <1>1 DEF EntryPart
  <2> HIDE DEF text, image, document, inline
  <2> QED BY <1>2, <2>1, <2>2, <2>3, <2>4
<1> QED BY <1>3, <1>4

\* The parts of one type among those of the entries.
LEMMA PickedFrom ==
  ASSUME NEW E \in SUBSET LogEntries, NEW F, NEW one, NEW A, NEW s \in Seq(LogEntries),
         Makes(F, LogEntries, WireParts), \A e \in LogEntries : one[e] \in WireParts,
         \A e \in LogEntries : Within(F[e], WireParts, A) = IF e \in E THEN <<one[e]>> ELSE <<>>
  PROVE  Within(Each(s, F), WireParts, A) = Mapped(Within(s, LogEntries, E), one)
<1> DEFINE pick == [p \in WireParts |-> IF p \in A THEN <<p>> ELSE <<>>]
           h == [e \in LogEntries |-> IF e \in E THEN <<one[e]>> ELSE <<>>]
           g == [e \in LogEntries |-> <<one[e]>>]
           those == Within(s, LogEntries, E)
<1>1. Makes(pick, WireParts, WireParts)
  BY DEF Makes
<1>2. \A e \in LogEntries : h[e] = Each(F[e], pick)
  BY DEF Within
<1>3. Makes(g, LogEntries, WireParts) /\ \A e \in LogEntries : h[e] = IF e \in E THEN g[e] ELSE <<>>
  BY DEF Makes
<1>4. \A e \in LogEntries : g[e] = <<one[e]>>
  OBVIOUS
<1>5. Within(Each(s, F), WireParts, A) = Each(Each(s, F), pick)
  BY DEF Within
<1> HIDE DEF pick, h, g
<1>6. Each(Each(s, F), pick) = Each(s, h)
  BY <1>1, <1>2, EachEach
<1>7. Each(those, g) = Each(s, h)
  BY <1>3, EachWithin
<1>8. those \in Seq(LogEntries)
  <2>1. those \in Seq(LogEntries \cap E)
    BY WithinTyped
  <2> HIDE DEF those
  <2> QED BY <2>1
<1> HIDE DEF those
<1>9. \A j \in DOMAIN those : g[those[j]] = <<one[those[j]]>>
  BY <1>4, <1>8
<1>10. Each(those, g) = Mapped(those, one)
  BY <1>8, <1>9, OneOfEach
<1> QED BY <1>5, <1>6, <1>7, <1>10 DEF those

\* Of one thing.
LEMMA WithinOne ==
  ASSUME NEW T, NEW A, NEW x \in T
  PROVE  Within(<<x>>, T, A) = IF x \in A THEN <<x>> ELSE <<>>
<1> DEFINE keep == [y \in T |-> IF y \in A THEN <<y>> ELSE <<>>]
<1>1. keep[x] = (IF x \in A THEN <<x>> ELSE <<>>) /\ keep[x] \in Seq(T)
  OBVIOUS
<1> HIDE DEF keep
<1>2. Each(<<x>>, keep) = keep[x]
  BY <1>1, EachSingle
<1> QED BY <1>1, <1>2 DEF Within, keep

\* Where there is none of a set.
LEMMA WithinNothing ==
  ASSUME NEW T, NEW A, NEW s \in Seq(T), \A j \in DOMAIN s : s[j] \notin A
  PROVE  Within(s, T, A) = <<>>
<1> DEFINE keep == [x \in T |-> IF x \in A THEN <<x>> ELSE <<>>]
<1>1. \A j \in DOMAIN s : keep[s[j]] = <<>>
  OBVIOUS
<1> HIDE DEF keep
<1>2. Each(s, keep) = <<>>
  BY <1>1, EachNothing
<1> QED BY <1>2 DEF Within, keep

\* A turn's text is no call and no result.
LEMMA TextIsOther ==
  ASSUME NEW t \in Turns
  PROVE  /\ TurnText(t) \in Seq(WireParts)
         /\ Within(TurnText(t), WireParts, Typed("call")) = <<>>
         /\ Within(TurnText(t), WireParts, Typed("result")) = <<>>
<1> DEFINE part == WirePart("text", Texts(t), NoEntry)
<1>1. part \in WireParts
  BY TextsAre, Descriptions, PartTyped
<1>2. TurnText(t) = <<part>> /\ part.type = "text"
  BY DEF TurnText, WirePart
<1> HIDE DEF part
<1>3. part \notin Typed("call") /\ part \notin Typed("result")
  BY <1>2 DEF Typed
<1>4. Within(<<part>>, WireParts, Typed("call")) = <<>> /\ Within(<<part>>, WireParts, Typed("result")) = <<>>
  BY <1>1, <1>3, WithinOne
<1> QED BY <1>2, <1>4, TurnTextTyped

\* A turn of texts has no calls and no results.
LEMMA NoneInText ==
  ASSUME NEW t \in Turns, AllText(t)
  PROVE  Calling(t) = <<>> /\ Answering(t) = <<>>
<1>1. t.entries \in Seq(LogEntries)
  BY EntriesTyped
<1>2. \A j \in DOMAIN t.entries : t.entries[j] \notin CallEntries /\ t.entries[j] \notin ResultEntries
  BY DEF AllText, CallEntries, ResultEntries
<1> QED BY <1>1, <1>2, WithinNothing DEF Calling, Answering

\* The entries of a turn and what these dialects are told of each.
LEMMA TurnIsTold ==
  ASSUME NEW d \in {"anthropic", "gemini"}, NEW ts \in Seq(Turns), NEW i \in DOMAIN ts
  PROVE  /\ Makes(EntryTold(d, ts, i), LogEntries, WireParts)
         /\ TurnTold(d, ts, i) = IF AllText(ts[i]) THEN TurnText(ts[i])
                                 ELSE Each(ts[i].entries, EntryTold(d, ts, i))
         /\ TurnTold(d, ts, i) \in Seq(WireParts)
         /\ ts[i] \in Turns /\ ts[i].entries \in Seq(LogEntries)
<1>1. ts[i] \in Turns /\ ts[i].entries \in Seq(LogEntries)
  BY EntriesTyped
<1>2. Makes(EntryTold(d, ts, i), LogEntries, WireParts)
  BY EntriesMake DEF EntryTold
<1>3. TurnTold(d, ts, i) = IF AllText(ts[i]) THEN TurnText(ts[i])
                           ELSE Each(ts[i].entries, EntryTold(d, ts, i))
  BY <1>1, ContentsAre, GeminiContentIs DEF TurnTold, EntryTold
<1>4. Each(ts[i].entries, EntryTold(d, ts, i)) \in Seq(WireParts)
  BY <1>1, <1>2, EachTyped
<1> QED BY <1>1, <1>2, <1>3, <1>4, TurnTextTyped

\* They are told of its calls and its results, in order.
LEMMA ToldShows ==
  ASSUME NEW d \in {"anthropic", "gemini"}, NEW ts \in Seq(Turns), NEW i \in DOMAIN ts
  PROVE  /\ Within(TurnTold(d, ts, i), WireParts, Typed("call")) = Mapped(Calling(ts[i]), CallShown(d))
         /\ Within(TurnTold(d, ts, i), WireParts, Typed("result")) =
              Mapped(Answering(ts[i]), ResultShown(d, ts, i))
<1> DEFINE t == ts[i]
           F == EntryTold(d, ts, i)
           told == TurnTold(d, ts, i)
           call == CallShown(d)
           result == ResultShown(d, ts, i)
<1>1. /\ Makes(F, LogEntries, WireParts) /\ t \in Turns /\ t.entries \in Seq(LogEntries)
      /\ told = IF AllText(t) THEN TurnText(t) ELSE Each(t.entries, F)
  BY TurnIsTold
<1>2. CASE AllText(t)
  <2>1. Mapped(<<>>, call) = <<>> /\ Mapped(<<>>, result) = <<>>
    BY EachNone
  <2> HIDE DEF told, t
  <2> QED BY <1>1, <1>2, <2>1, TextIsOther, NoneInText DEF told, t
<1>3. CASE ~AllText(t)
  <2>1. /\ \A e \in LogEntries : call[e] \in Typed("call") /\ result[e] \in Typed("result")
        /\ \A p \in Typed("call") \cup Typed("result") : p \in WireParts
        /\ \A p \in Typed("call") : p \notin Typed("result")
        /\ \A p : IsOther(p) => p \in WireParts /\ p \notin Typed("call") /\ p \notin Typed("result")
    BY ShownIs DEF Typed, IsOther
  <2>2. ASSUME NEW e \in LogEntries
        PROVE  /\ Within(F[e], WireParts, Typed("call")) = IF e \in CallEntries THEN <<call[e]>> ELSE <<>>
               /\ Within(F[e], WireParts, Typed("result")) = IF e \in ResultEntries THEN <<result[e]>> ELSE <<>>
    <3>1. /\ e.kind = "call" => F[e] = <<call[e]>>
          /\ e.kind = "result" => F[e] = <<result[e]>>
          /\ e.kind \notin {"call", "result"} => F[e] = <<>> \/ \E p : IsOther(p) /\ F[e] = <<p>>
      BY EntryIsTold
    <3> HIDE DEF F, call, result
    <3>2. CASE e.kind = "call"
      <4> DEFINE p == call[e]
      <4>1. e \in CallEntries /\ e \notin ResultEntries
        BY <3>2 DEF CallEntries, ResultEntries
      <4>2. p \in WireParts /\ p \in Typed("call") /\ p \notin Typed("result") /\ F[e] = <<p>>
        BY <2>1, <3>1, <3>2
      <4> HIDE DEF p
      <4>3. Within(<<p>>, WireParts, Typed("call")) = <<p>> /\ Within(<<p>>, WireParts, Typed("result")) = <<>>
        BY <4>2, WithinOne
      <4> QED BY <4>1, <4>2, <4>3 DEF p
    <3>3. CASE e.kind = "result"
      <4> DEFINE p == result[e]
      <4>1. e \notin CallEntries /\ e \in ResultEntries
        BY <3>3 DEF CallEntries, ResultEntries
      <4>2. p \in WireParts /\ p \notin Typed("call") /\ p \in Typed("result") /\ F[e] = <<p>>
        BY <2>1, <3>1, <3>3
      <4> HIDE DEF p
      <4>3. Within(<<p>>, WireParts, Typed("call")) = <<>> /\ Within(<<p>>, WireParts, Typed("result")) = <<p>>
        BY <4>2, WithinOne
      <4> QED BY <4>1, <4>2, <4>3 DEF p
    <3>4. CASE e.kind \notin {"call", "result"}
      <4>1. e \notin CallEntries /\ e \notin ResultEntries
        BY <3>4 DEF CallEntries, ResultEntries
      <4>2. CASE F[e] = <<>>
        BY <4>1, <4>2, EachNone DEF Within
      <4>3. CASE F[e] # <<>>
        <5>1. PICK p : IsOther(p) /\ F[e] = <<p>>
          BY <3>1, <3>4, <4>3
        <5>2. p \in WireParts /\ p \notin Typed("call") /\ p \notin Typed("result")
          BY <2>1, <5>1
        <5>3. Within(<<p>>, WireParts, Typed("call")) = <<>> /\ Within(<<p>>, WireParts, Typed("result")) = <<>>
          BY <5>2, WithinOne
        <5> QED BY <4>1, <5>1, <5>3
      <4> QED BY <4>2, <4>3
    <3> QED BY <3>2, <3>3, <3>4
  <2> DEFINE s == t.entries
             P == Typed("call")
             Q == Typed("result")
             C == CallEntries
             R == ResultEntries
  <2>3. C \in SUBSET LogEntries /\ R \in SUBSET LogEntries
    BY DEF CallEntries, ResultEntries
  <2>4. /\ \A e \in LogEntries : call[e] \in WireParts
        /\ \A e \in LogEntries : result[e] \in WireParts
    BY <2>1
  <2>5. told = Each(s, F)
    BY <1>1, <1>3
  <2>c. s \in Seq(LogEntries) /\ Makes(F, LogEntries, WireParts)
    BY <1>1
  <2>a. \A e \in LogEntries : Within(F[e], WireParts, P) = IF e \in C THEN <<call[e]>> ELSE <<>>
    BY <2>2
  <2>b. \A e \in LogEntries : Within(F[e], WireParts, Q) = IF e \in R THEN <<result[e]>> ELSE <<>>
    BY <2>2
  <2> HIDE DEF F, call, result, t, told, s, P, Q, C, R
  <2>6. Within(Each(s, F), WireParts, P) = Mapped(Within(s, LogEntries, C), call)
    BY <2>a, <2>c, <2>3, <2>4, PickedFrom
  <2>7. Within(Each(s, F), WireParts, Q) = Mapped(Within(s, LogEntries, R), result)
    BY <2>b, <2>c, <2>3, <2>4, PickedFrom
  <2> QED BY <2>5, <2>6, <2>7 DEF Calling, Answering, F, call, result, t, told, s, P, Q, C, R
<1> QED BY <1>2, <1>3

\* The results of a turn open its message.
LEMMA ResultsOpen ==
  ASSUME NEW d \in {"anthropic", "gemini"}, NEW ts \in Seq(Turns), NEW i \in DOMAIN ts,
         Uniform(ts[i]), InOrder(ts[i]), \A j \in DOMAIN ts[i].entries : AsStored(ts[i].entries[j])
  PROVE  \A j \in 1..Len(Answering(ts[i])) : TurnTold(d, ts, i)[j].type = "result"
<1> DEFINE t == ts[i]
           s == t.entries
           F == EntryTold(d, ts, i)
           told == TurnTold(d, ts, i)
           result == ResultShown(d, ts, i)
           R == ResultEntries
           f == [e \in LogEntries |-> IF e \in R THEN F[e] ELSE <<>>]
           g == [e \in LogEntries |-> IF e \in R THEN <<>> ELSE F[e]]
           one == [e \in LogEntries |-> <<result[e]>>]
           answers == Answering(t)
<1>1. /\ Makes(F, LogEntries, WireParts) /\ t \in Turns /\ s \in Seq(LogEntries)
      /\ told = IF AllText(t) THEN TurnText(t) ELSE Each(s, F)
  BY TurnIsTold
<1>2. \A e \in LogEntries : result[e] \in Typed("result") /\ result[e] \in WireParts
  BY ShownIs DEF Typed
<1>3. CASE AllText(t)
  <2>1. answers = <<>>
    BY <1>1, <1>3, NoneInText
  <2>2. \A a : a = <<>> => 1..Len(a) = {}
    OBVIOUS
  <2> HIDE DEF answers
  <2> QED BY <2>1, <2>2 DEF answers
<1>4. CASE ~AllText(t)
  <2>1. told = Each(s, F)
    BY <1>1, <1>4
  <2>2. answers = Within(s, LogEntries, R) /\ answers \in Seq(R) /\ R \subseteq LogEntries
    <3>1. R \subseteq LogEntries /\ R = LogEntries \cap R
      BY DEF ResultEntries
    <3>2. Within(s, LogEntries, R) \in Seq(LogEntries \cap R)
      BY <1>1, WithinTyped
    <3> QED BY <3>1, <3>2 DEF Answering
  <2>3. \A j \in DOMAIN s : \A k \in 1..(j - 1) : s[j] \in R => k \in DOMAIN s /\ s[k] \in R
    <3>1. /\ \A j \in DOMAIN s : s[j] \in LogEntries
          /\ DOMAIN s = 1..Len(s) /\ Len(s) \in Nat
      BY <1>1
    <3> SUFFICES ASSUME NEW j \in DOMAIN s, NEW k \in 1..(j - 1), s[j] \in R
                 PROVE  k \in DOMAIN s /\ s[k] \in R
      OBVIOUS
    <3>2. k \in DOMAIN s /\ s[j].kind = "result"
      BY <3>1 DEF ResultEntries
    <3>3. ~IsBlock(s[k])
      BY <3>2 DEF InOrder
    <3>4. s[k].kind # "call"
      BY <1>1, <3>2, CallsOrResults
    <3> QED BY <3>1, <3>2, <3>3, <3>4 DEF IsBlock, ResultEntries
  <2>4. \A e \in LogEntries : f[e] = (IF e \in R THEN F[e] ELSE <<>>) /\ g[e] = (IF e \in R THEN <<>> ELSE F[e])
    OBVIOUS
  <2>5. Makes(f, LogEntries, WireParts) /\ Makes(g, LogEntries, WireParts)
    <3>1. <<>> \in Seq(WireParts) /\ \A e \in LogEntries : F[e] \in Seq(WireParts)
      BY <1>1 DEF Makes
    <3> HIDE DEF f, g, F
    <3> QED BY <2>4, <3>1 DEF Makes
  <2>6. Makes(one, LogEntries, WireParts) /\ \A e \in LogEntries : one[e] = <<result[e]>>
    BY <1>2 DEF Makes
  <2>7. \A e \in LogEntries : f[e] = IF e \in R THEN one[e] ELSE <<>>
    <3>1. \A e \in LogEntries : e \in R => F[e] = <<result[e]>>
      BY EntryIsTold DEF ResultEntries
    <3> HIDE DEF F, result
    <3> QED BY <2>4, <2>6, <3>1
  <2> HIDE DEF t, s, F, told, result, R, f, g, one, answers
  <2>8. \A e \in LogEntries : (f[e] = <<>> /\ F[e] = g[e]) \/ (g[e] = <<>> /\ F[e] = f[e])
    BY <2>4
  <2>9. \A j \in DOMAIN s : f[s[j]] # <<>> => \A k \in 1..(j - 1) : g[s[k]] = <<>>
    <3>1. \A j \in DOMAIN s : s[j] \in LogEntries
      BY <1>1
    <3>2. \A j \in DOMAIN s : f[s[j]] # <<>> => s[j] \in R
      BY <2>4, <3>1
    <3>3. \A j \in DOMAIN s : s[j] \in R => g[s[j]] = <<>>
      BY <2>4, <3>1
    <3> QED BY <2>3, <3>2, <3>3
  <2>a. s \in Seq(LogEntries) /\ Makes(F, LogEntries, WireParts)
    BY <1>1
  <2>10. Each(s, f) \o Each(s, g) = Each(s, F)
    BY <2>a, <2>5, <2>8, <2>9, EachSorted, SMTT(30)
  <2>11. Each(Within(s, LogEntries, R), one) = Each(s, f)
    BY <2>a, <2>6, <2>7, EachWithin
  <2>12. answers \in Seq(LogEntries) /\ \A j \in DOMAIN answers : answers[j] \in LogEntries
    BY <2>2
  <2>b. \A j \in DOMAIN answers : one[answers[j]] = <<result[answers[j]]>>
    BY <2>6, <2>12
  <2>c. answers \in Seq(LogEntries)
    BY <2>12
  <2>13. /\ Each(answers, one) = Mapped(answers, result) /\ Len(Mapped(answers, result)) = Len(answers)
         /\ \A j \in 1..Len(answers) : Mapped(answers, result)[j] = result[answers[j]]
    BY <2>b, <2>c, OneOfEach
  <2> DEFINE opening == Each(s, f)
             others == Each(s, g)
  <2>14. opening \in Seq(WireParts) /\ others \in Seq(WireParts)
    BY <2>a, <2>5, EachTyped
  <2>15. opening = Mapped(answers, result)
    BY <2>2, <2>11, <2>13
  <2>16. told = opening \o others
    BY <2>1, <2>10
  <2> HIDE DEF opening, others
  <2>17. \A j \in 1..Len(opening) : told[j] = opening[j]
    BY <2>14, <2>16
  <2>18. \A j \in 1..Len(answers) : told[j] = result[answers[j]] /\ answers[j] \in LogEntries
    BY <2>12, <2>13, <2>15, <2>17
  <2> QED BY <1>2, <2>18 DEF Typed, told, answers, t
<1> QED BY <1>3, <1>4

\* OpenAI's reply for a result.
ReplyTo == [e \in LogEntries |-> Message("tool", <<WirePart("result", <<e>>, e)>>)]

\* Messages, with what they are made of.
LEMMA MessageIs ==
  ASSUME NEW role \in {"user", "assistant", "system", "tool"}, NEW parts \in Seq(WireParts)
  PROVE  LET m == Message(role, parts)
         IN  m \in Messages /\ m.role = role /\ m.parts = parts
  BY DEF Message, Messages

\* A reply holds one result.
LEMMA ReplyIs ==
  ASSUME NEW e \in LogEntries
  PROVE  /\ ReplyTo[e] \in Messages /\ ReplyTo[e].role = "tool"
         /\ OfType(ReplyTo[e], "call") = <<>>
         /\ OfType(ReplyTo[e], "result") # <<>>
         /\ IdsIn(ReplyTo[e], "result") = <<ReplyTo[e].parts[1].id>>
         /\ ReplyTo[e].parts[1].id = e.id
<1> DEFINE p == WirePart("result", <<e>>, e)
           m == Message("tool", <<p>>)
<1>1. <<e>> \in Seq(LogEntries)
  OBVIOUS
<1>2. p \in WireParts
  BY <1>1, Descriptions, PartTyped
<1>3. p.type = "result" /\ p.id = e.id
  BY DEF WirePart
<1>4. ReplyTo[e] = m
  BY DEF ReplyTo
<1> HIDE DEF p
<1>5. m \in Messages /\ m.role = "tool" /\ m.parts = <<p>>
  <2>1. <<p>> \in Seq(WireParts)
    BY <1>2
  <2> QED BY <2>1, MessageIs
<1> HIDE DEF m
<1>6. p \in Typed("result") /\ p \notin Typed("call")
  BY <1>2, <1>3 DEF Typed
<1>7. Within(<<p>>, WireParts, Typed("result")) = <<p>> /\ Within(<<p>>, WireParts, Typed("call")) = <<>>
  BY <1>2, <1>6, WithinOne
<1>8. OfType(m, "call") = <<>>
  BY <1>5, <1>7, OfTypeIs
<1> DEFINE one == <<p>>
<1>9. /\ one = Within(m.parts, WireParts, Typed("result"))
      /\ Len(one) = 1 /\ one[1] = p /\ one # <<>>
  BY <1>5, <1>7
<1> HIDE DEF one
<1>a. OfType(m, "result") = one /\ IdsIn(m, "result") = [j \in 1..Len(one) |-> one[j].id]
  BY <1>5, <1>9, OfTypeIs, SMTT(30)
<1>b. [j \in 1..1 |-> one[j].id] = <<one[1].id>>
  OBVIOUS
<1>10. IdsIn(m, "result") = <<p.id>>
  BY <1>9, <1>a, <1>b
<1>11. m.parts[1] = p
  BY <1>5
<1> QED BY <1>3, <1>4, <1>5, <1>8, <1>9, <1>a, <1>10, <1>11

\* What OpenAI is told of a turn's blocks is no call and no result.
LEMMA BlocksAreOther ==
  ASSUME NEW t \in Turns
  PROVE  /\ OpenAiContent(t) \in Seq(WireParts)
         /\ Within(OpenAiContent(t), WireParts, Typed("call")) = <<>>
         /\ Within(OpenAiContent(t), WireParts, Typed("result")) = <<>>
<1> DEFINE s == t.entries
<1>1. s \in Seq(LogEntries) /\ OpenAiContent(t) = IF OnlyText(t) THEN TurnText(t) ELSE Each(s, BlocksOf)
  BY EntriesTyped, ContentsAre
<1>2. Makes(BlocksOf, LogEntries, WireParts)
  BY EntriesMake
<1>3. ASSUME NEW e \in LogEntries, NEW type \in {"call", "result"}
      PROVE  Within(BlocksOf[e], WireParts, Typed(type)) = <<>>
  <2> DEFINE text == WirePart("text", <<e>>, NoEntry)
             image == WirePart("image", <<e>>, e)
  <2>1. BlocksOf[e] \in {<<>>, <<text>>, <<image>>}
    BY DEF BlocksOf, ContentPart
  <2>a. <<e>> \in Seq(LogEntries)
    OBVIOUS
  <2>2. text \in WireParts /\ image \in WireParts
    BY <2>a, Descriptions, PartTyped
  <2>3. text.type = "text" /\ image.type = "image"
    BY DEF WirePart
  <2> HIDE DEF text, image
  <2>4. text \notin Typed(type) /\ image \notin Typed(type)
    BY <2>3 DEF Typed
  <2>5. Within(<<text>>, WireParts, Typed(type)) = <<>> /\ Within(<<image>>, WireParts, Typed(type)) = <<>>
    BY <2>2, <2>4, WithinOne
  <2>6. Within(<<>>, WireParts, Typed(type)) = <<>>
    BY EachNone DEF Within
  <2> QED BY <2>1, <2>5, <2>6
<1> HIDE DEF s
<1>4. ASSUME NEW type \in {"call", "result"}
      PROVE  Within(Each(s, BlocksOf), WireParts, Typed(type)) = <<>>
  <2> DEFINE pick == [p \in WireParts |-> IF p \in Typed(type) THEN <<p>> ELSE <<>>]
             none == [e \in LogEntries |-> <<>>]
  <2>1. Makes(pick, WireParts, WireParts)
    BY DEF Makes
  <2>2. \A e \in LogEntries : none[e] = Each(BlocksOf[e], pick)
    BY <1>3 DEF Within
  <2>3. \A j \in DOMAIN s : none[s[j]] = <<>>
    BY <1>1
  <2>4. Within(Each(s, BlocksOf), WireParts, Typed(type)) = Each(Each(s, BlocksOf), pick)
    BY DEF Within
  <2> HIDE DEF pick, none
  <2>5. Each(Each(s, BlocksOf), pick) = Each(s, none)
    BY <1>1, <1>2, <2>1, <2>2, EachEach
  <2>6. Each(s, none) = <<>>
    BY <1>1, <2>3, EachNothing
  <2> QED BY <2>4, <2>5, <2>6
<1>5. Each(s, BlocksOf) \in Seq(WireParts)
  BY <1>1, <1>2, EachTyped
<1> QED BY <1>1, <1>4, <1>5, TextIsOther

\* The calls and the replies of a turn.
LEMMA ToolsShow ==
  ASSUME NEW t \in Turns
  PROVE  /\ ToolCalls(t) = Mapped(Calling(t), CallShown("openai"))
         /\ ToolCalls(t) \in Seq(WireParts)
         /\ Within(ToolCalls(t), WireParts, Typed("call")) = ToolCalls(t)
         /\ Within(ToolCalls(t), WireParts, Typed("result")) = <<>>
         /\ ToolMessages(t) = Mapped(Answering(t), ReplyTo) /\ ToolMessages(t) \in Seq(Messages)
<1> DEFINE s == t.entries
           C == CallEntries
           R == ResultEntries
           call == CallShown("openai")
           calls == Calling(t)
           answers == Answering(t)
           told == ToolCalls(t)
<1>1. /\ s \in Seq(LogEntries) /\ told = Each(s, CallsOf) /\ ToolMessages(t) = Each(s, ResultsOf)
      /\ calls = Within(s, LogEntries, C) /\ answers = Within(s, LogEntries, R)
  BY EntriesTyped, ToolsAre DEF Calling, Answering
<1>2. calls \in Seq(LogEntries) /\ answers \in Seq(LogEntries)
  <2>1. calls \in Seq(C) /\ answers \in Seq(R) /\ C \subseteq LogEntries /\ R \subseteq LogEntries
    BY IdsOfAre DEF CallEntries, ResultEntries
  <2> HIDE DEF C, R, calls, answers
  <2> QED BY <2>1
<1>3. /\ Makes(CallParts, LogEntries, WireParts) /\ Makes(ResultMessages, LogEntries, Messages)
      /\ Makes(CallsOf, LogEntries, WireParts) /\ Makes(ResultsOf, LogEntries, Messages)
  BY EntriesMake
<1>4. /\ \A e \in LogEntries : CallsOf[e] = IF e \in C THEN CallParts[e] ELSE <<>>
      /\ \A e \in LogEntries : ResultsOf[e] = IF e \in R THEN ResultMessages[e] ELSE <<>>
  BY DEF CallsOf, ResultsOf, CallEntries, ResultEntries
<1>5. \A e \in LogEntries : CallParts[e] = <<call[e]>> /\ ResultMessages[e] = <<ReplyTo[e]>>
  BY DEF CallParts, ResultMessages, CallShown, ReplyTo
<1>6. \A e \in LogEntries : call[e] \in Typed("call") /\ call[e] \in WireParts
  <2> SUFFICES ASSUME NEW e \in LogEntries PROVE call[e] \in Typed("call") /\ call[e] \in WireParts
    OBVIOUS
  <2> DEFINE ts == <<t>>
  <2>1. ts \in Seq(Turns) /\ 1 \in DOMAIN ts
    OBVIOUS
  <2> HIDE DEF ts
  <2>2. call[e] \in Typed("call")
    BY <2>1, ShownIs
  <2> QED BY <2>2 DEF Typed
<1> HIDE DEF s, C, R, call, calls, answers, told
<1>7. Each(calls, CallParts) = Each(s, CallsOf)
  BY <1>1, <1>3, <1>4, EachWithin
<1>8. Each(answers, ResultMessages) = Each(s, ResultsOf)
  BY <1>1, <1>3, <1>4, EachWithin
<1>9. /\ \A j \in DOMAIN calls : CallParts[calls[j]] = <<call[calls[j]]>>
      /\ \A j \in DOMAIN answers : ResultMessages[answers[j]] = <<ReplyTo[answers[j]]>>
  BY <1>2, <1>5
<1>10. Each(calls, CallParts) = Mapped(calls, call) /\ Each(answers, ResultMessages) = Mapped(answers, ReplyTo)
  BY <1>2, <1>9, OneOfEach
<1>11. told = Mapped(calls, call) /\ ToolMessages(t) = Mapped(answers, ReplyTo)
  BY <1>1, <1>7, <1>8, <1>10
<1>12. told \in Seq(WireParts) /\ ToolMessages(t) \in Seq(Messages)
  BY <1>1, <1>3, EachTyped
<1>13. \A j \in DOMAIN told : told[j] \in Typed("call") /\ told[j] \notin Typed("result")
  <2>1. \A j \in DOMAIN calls : call[calls[j]] \in Typed("call")
    BY <1>2, <1>6
  <2>2. \A p : p \in Typed("call") => p \notin Typed("result")
    BY DEF Typed
  <2> QED BY <1>11, <2>1, <2>2 DEF Mapped
<1>14. Within(told, WireParts, Typed("result")) = <<>>
  BY <1>12, <1>13, WithinNothing
<1>15. Within(told, WireParts, Typed("call")) = told
  <2> DEFINE keep == [p \in WireParts |-> IF p \in Typed("call") THEN <<p>> ELSE <<>>]
  <2>1. \A j \in DOMAIN told : keep[told[j]] = <<told[j]>>
    BY <1>12, <1>13
  <2> HIDE DEF keep
  <2>2. Each(told, keep) = told
    BY <1>12, <2>1, EachKept
  <2> QED BY <2>2 DEF Within, keep
<1> QED BY <1>11, <1>12, <1>14, <1>15 DEF told, calls, answers, call

\* What OpenAI is told of a turn: a reply for each result, then a message with
\* its calls or with what else it holds.
Shows(t, told) ==
  LET calls == Calling(t)
      answers == Answering(t)
      r == Len(answers)
  IN  /\ told \in Seq(Messages) /\ r <= Len(told)
      /\ \A j \in 1..r : told[j] = ReplyTo[answers[j]]
      /\ \A j \in 1..Len(told) :
           j > r => told[j] \in Messages /\ told[j].role # "tool" /\ OfType(told[j], "result") = <<>>
      /\ calls = <<>> => \A j \in 1..Len(told) : j > r => OfType(told[j], "call") = <<>>
      /\ calls # <<>> =>
           /\ Len(told) = 1 /\ answers = <<>> /\ OfType(told[1], "call") # <<>>
           /\ IdsIn(told[1], "call") = [j \in 1..Len(calls) |-> calls[j].id]

\* A turn is shown so.
LEMMA TurnShown ==
  ASSUME NEW t \in Turns, Uniform(t), \A j \in DOMAIN t.entries : AsStored(t.entries[j])
  PROVE  Shows(t, TurnMessages(t))
<1> DEFINE calls == Calling(t)
           answers == Answering(t)
           told == TurnMessages(t)
           asked == ToolCalls(t)
           replies == ToolMessages(t)
           content == IF HasBlock(t) THEN OpenAiContent(t) ELSE <<>>
           with == Message("assistant", content \o asked)
           other == Message(t.role, content)
           call == CallShown("openai")
           C == Typed("call")
           R == Typed("result")
<1>1. /\ calls \in Seq(LogEntries) /\ answers \in Seq(LogEntries)
  <2>1. calls \in Seq(CallEntries) /\ answers \in Seq(ResultEntries)
        /\ CallEntries \subseteq LogEntries /\ ResultEntries \subseteq LogEntries
    BY IdsOfAre DEF CallEntries, ResultEntries
  <2> HIDE DEF calls, answers
  <2> QED BY <2>1
<1>2. /\ asked = Mapped(calls, call) /\ asked \in Seq(WireParts)
      /\ Within(asked, WireParts, C) = asked /\ Within(asked, WireParts, R) = <<>>
      /\ replies = Mapped(answers, ReplyTo) /\ replies \in Seq(Messages)
  BY ToolsShow
<1>3. /\ content \in Seq(WireParts) /\ Within(content, WireParts, C) = <<>>
      /\ Within(content, WireParts, R) = <<>>
  <2>1. \A A : Within(<<>>, WireParts, A) = <<>>
    BY EachNone DEF Within
  <2> QED BY <2>1, BlocksAreOther
<1>4. told = IF asked # <<>> THEN <<with>> \o replies
             ELSE IF HasBlock(t) \/ replies = <<>> THEN Append(replies, other) ELSE replies
  BY DEF TurnMessages
<1>5. t.role \in {"user", "assistant", "system"}
  BY DEF Turns
<1>6. asked # <<>> => replies = <<>>
  BY CallsOrResults
<1> HIDE DEF calls, answers, told, asked, replies, content, C, R, call
<1>7. /\ Len(asked) = Len(calls) /\ Len(replies) = Len(answers)
      /\ \A j \in 1..Len(calls) : asked[j] = call[calls[j]]
      /\ \A j \in 1..Len(answers) : replies[j] = ReplyTo[answers[j]]
      /\ Len(calls) \in Nat /\ Len(answers) \in Nat
      /\ (calls = <<>>) <=> (asked = <<>>)
      /\ (answers = <<>>) <=> (replies = <<>>)
  <2>1. /\ Mapped(calls, call) = [j \in 1..Len(calls) |-> call[calls[j]]]
        /\ Mapped(answers, ReplyTo) = [j \in 1..Len(answers) |-> ReplyTo[answers[j]]]
        /\ Len(calls) \in Nat /\ Len(answers) \in Nat
    BY <1>1 DEF Mapped
  <2>2. Len(asked) = Len(calls) /\ Len(replies) = Len(answers)
    BY <1>2, <2>1
  <2>3. ((calls = <<>>) <=> (Len(calls) = 0)) /\ ((asked = <<>>) <=> (Len(asked) = 0))
        /\ ((answers = <<>>) <=> (Len(answers) = 0)) /\ ((replies = <<>>) <=> (Len(replies) = 0))
    BY <1>1, <1>2, SequenceIs
  <2> QED BY <1>2, <2>1, <2>2, <2>3
<1>8. /\ other \in Messages /\ other.role # "tool"
      /\ OfType(other, "result") = <<>> /\ OfType(other, "call") = <<>>
  <2>1. other \in Messages /\ other.role = t.role /\ other.parts = content
    BY <1>3, <1>5, MessageIs
  <2> HIDE DEF other
  <2>2. OfType(other, "result") = <<>> /\ OfType(other, "call") = <<>>
    BY <1>3, <2>1, OfTypeIs DEF C, R
  <2> QED BY <1>5, <2>1, <2>2
<1>9. /\ with \in Messages /\ with.role # "tool"
      /\ OfType(with, "result") = <<>> /\ OfType(with, "call") = asked
      /\ IdsIn(with, "call") = [j \in 1..Len(asked) |-> asked[j].id]
  <2> DEFINE parts == content \o asked
  <2>1. parts \in Seq(WireParts)
    BY <1>2, <1>3
  <2>2. \A A : Within(parts, WireParts, A) = Within(content, WireParts, A) \o Within(asked, WireParts, A)
    <3> SUFFICES ASSUME NEW A
                 PROVE  Within(parts, WireParts, A) = Within(content, WireParts, A) \o Within(asked, WireParts, A)
      OBVIOUS
    <3> DEFINE keep == [p \in WireParts |-> IF p \in A THEN <<p>> ELSE <<>>]
    <3>1. Makes(keep, WireParts, WireParts)
      BY DEF Makes
    <3> HIDE DEF keep
    <3>a. content \in Seq(WireParts) /\ asked \in Seq(WireParts)
      BY <1>2, <1>3
    <3>2. Each(parts, keep) = Each(content, keep) \o Each(asked, keep)
      BY <3>1, <3>a, EachBoth
    <3> QED BY <3>2 DEF Within, keep
  <2>3. <<>> \o asked = asked /\ <<>> \o <<>> = <<>>
    BY <1>2
  <2>4. asked = Within(parts, WireParts, C) /\ <<>> = Within(parts, WireParts, R)
    BY <1>2, <1>3, <2>2, <2>3
  <2>5. with \in Messages /\ with.role = "assistant" /\ with.parts = parts
    BY <2>1, MessageIs
  <2> HIDE DEF with, parts
  <2>6. OfType(with, "call") = asked /\ IdsIn(with, "call") = [j \in 1..Len(asked) |-> asked[j].id]
    BY <2>4, <2>5, OfTypeIs DEF C
  <2>7. OfType(with, "result") = <<>>
    BY <2>4, <2>5, OfTypeIs DEF R
  <2> QED BY <2>5, <2>6, <2>7
<1> HIDE DEF with, other
<1>10. CASE calls # <<>>
  <2>1. told = <<with>> /\ replies = <<>> /\ asked # <<>>
    <3>1. <<with>> \o <<>> = <<with>>
      OBVIOUS
    <3> QED BY <1>4, <1>6, <1>7, <1>10, <3>1
  <2>2. answers = <<>> /\ Len(answers) = 0 /\ 1..Len(answers) = {}
    <3>1. answers = <<>>
      BY <1>7, <2>1
    <3>2. Len(answers) = 0
      BY <3>1
    <3> QED BY <3>1, <3>2
  <2>3. Len(told) = 1 /\ told[1] = with /\ told \in Seq(Messages)
    BY <1>9, <2>1
  <2>4. [j \in 1..Len(asked) |-> asked[j].id] = [j \in 1..Len(calls) |-> calls[j].id]
    <3>1. \A j \in 1..Len(calls) : calls[j] \in LogEntries
      BY <1>1
    <3>2. \A j \in 1..Len(calls) : asked[j].id = calls[j].id
      <4> SUFFICES ASSUME NEW j \in 1..Len(calls) PROVE call[calls[j]].id = calls[j].id
        BY <1>7
      <4> DEFINE ts == <<t>>
                 e == calls[j]
      <4>1. ts \in Seq(Turns) /\ 1 \in DOMAIN ts /\ e \in LogEntries
        BY <3>1
      <4> HIDE DEF ts, e
      <4>2. CallShown("openai")[e].id = e.id
        BY <4>1, ShownIs
      <4> QED BY <4>2 DEF e, call
    <3> QED BY <1>7, <3>2
  <2>5. \A j \in 1..Len(told) : told[j] = with
    BY <2>3
  <2>6. 0 <= Len(told) /\ calls # <<>>
    BY <1>10, <2>3
  <2> QED BY <1>9, <2>1, <2>2, <2>3, <2>4, <2>5, <2>6 DEF Shows, calls, answers, told
<1>11. CASE calls = <<>>
  <2>1. asked = <<>>
    BY <1>7, <1>11
  <2>2. CASE HasBlock(t) \/ replies = <<>>
    <3>1. told = Append(replies, other)
      BY <1>4, <2>1, <2>2
    <3>2. /\ told \in Seq(Messages) /\ Len(told) = Len(replies) + 1
          /\ told[Len(replies) + 1] = other /\ \A j \in 1..Len(replies) : told[j] = replies[j]
      BY <1>2, <1>8, <3>1, AppendIs
    <3>3. \A j \in 1..Len(told) : j > Len(answers) => told[j] = other
      BY <1>7, <3>2
    <3>4. Len(answers) <= Len(told) /\ \A j \in 1..Len(answers) : told[j] = ReplyTo[answers[j]]
      BY <1>7, <3>2
    <3> QED BY <1>8, <1>11, <3>2, <3>3, <3>4 DEF Shows, calls, answers, told
  <2>3. CASE ~(HasBlock(t) \/ replies = <<>>)
    <3>1. told = replies
      BY <1>4, <2>1, <2>3
    <3>2. Len(answers) <= Len(told) /\ ~\E j \in 1..Len(told) : j > Len(answers)
      BY <1>7, <3>1
    <3>3. told \in Seq(Messages) /\ \A j \in 1..Len(answers) : told[j] = ReplyTo[answers[j]]
      BY <1>2, <1>7, <3>1
    <3> QED BY <1>11, <3>2, <3>3 DEF Shows, calls, answers, told
  <2> QED BY <2>2, <2>3
<1> QED BY <1>10, <1>11

-----------------------------------------------------------------------------
(* Calls and their results across turns.                                    *)

\* A conversation that is valid as stored.
Valid(ts) ==
  /\ ts \in Seq(Turns) /\ IsPaired(ts)
  /\ \A i \in DOMAIN ts :
       /\ Uniform(ts[i]) /\ InOrder(ts[i])
       /\ \A j \in DOMAIN ts[i].entries : AsStored(ts[i].entries[j])

\* A model calls and the runtime answers for the user.
LEMMA WhoActs ==
  ASSUME NEW t \in Turns, Uniform(t), \A j \in DOMAIN t.entries : AsStored(t.entries[j])
  PROVE  /\ Calling(t) \in Seq(LogEntries) /\ Answering(t) \in Seq(LogEntries)
         /\ Calling(t) # <<>> => t.role = "assistant"
         /\ Answering(t) # <<>> => t.role = "user"
         /\ \A j \in 1..Len(Calling(t)) :
              Calling(t)[j].kind = "call" /\ \E k \in DOMAIN t.entries : Calling(t)[j] = t.entries[k]
<1> DEFINE s == t.entries
           E == {s[k] : k \in DOMAIN s}
           calls == Calling(t)
           answers == Answering(t)
<1>1. s \in Seq(LogEntries) /\ E \subseteq LogEntries
  BY EntriesTyped
<1>2. calls \in Seq(E \cap CallEntries) /\ answers \in Seq(E \cap ResultEntries)
  BY <1>1, WithinFrom DEF Calling, Answering
<1>3. /\ \A e \in E \cap CallEntries : t.role = "assistant" /\ e.kind = "call"
      /\ \A e \in E \cap ResultEntries : t.role = "user"
  BY DEF Uniform, AsStored, CallEntries, ResultEntries
<1>4. \A e \in E : \E k \in DOMAIN s : e = s[k]
  OBVIOUS
<1> HIDE DEF s, E, calls, answers
<1>5. /\ calls \in Seq(LogEntries) /\ answers \in Seq(LogEntries)
      /\ \A j \in 1..Len(calls) : calls[j] \in E \cap CallEntries
      /\ \A j \in 1..Len(answers) : answers[j] \in E \cap ResultEntries
      /\ calls # <<>> => calls[1] \in E \cap CallEntries
      /\ answers # <<>> => answers[1] \in E \cap ResultEntries
  BY <1>1, <1>2
<1> QED BY <1>3, <1>4, <1>5 DEF calls, answers, s

\* The results of a turn's calls are those of the next turn, and there are no
\* others.
LEMMA Facing ==
  ASSUME NEW ts, Valid(ts)
  PROVE  /\ \A i \in 1..Len(ts) : Answering(ts[i]) # <<>> => i > 1 /\ Calling(ts[i - 1]) # <<>>
         /\ \A i \in 1..Len(ts) : Calling(ts[i]) # <<>> =>
              /\ i + 1 \in 1..Len(ts)
              /\ Len(Answering(ts[i + 1])) = Len(Calling(ts[i])) /\ Answering(ts[i + 1]) # <<>>
              /\ \A j \in 1..Len(Calling(ts[i])) : Answering(ts[i + 1])[j].id = Calling(ts[i])[j].id
<1> DEFINE n == Len(ts)
<1>1. n \in Nat /\ DOMAIN ts = 1..n /\ \A i \in 1..n : ts[i] \in Turns
  BY DEF Valid
<1>2. \A k \in 0..n : (IF k = 0 THEN <<>> ELSE IdsOf(ts[k], "call")) =
                        (IF k = n THEN <<>> ELSE IdsOf(ts[k + 1], "result"))
  BY DEF Valid, IsPaired
<1> HIDE DEF n
<1>3. ASSUME NEW i \in 1..n
      PROVE  /\ IdsOf(ts[i], "call") = [j \in 1..Len(Calling(ts[i])) |-> Calling(ts[i])[j].id]
             /\ IdsOf(ts[i], "result") = [j \in 1..Len(Answering(ts[i])) |-> Answering(ts[i])[j].id]
             /\ Len(Calling(ts[i])) \in Nat /\ Len(Answering(ts[i])) \in Nat
             /\ (Calling(ts[i]) = <<>>) <=> (IdsOf(ts[i], "call") = <<>>)
             /\ (Answering(ts[i]) = <<>>) <=> (IdsOf(ts[i], "result") = <<>>)
  <2>1. ts[i] \in Turns
    BY <1>1
  <2> DEFINE t == ts[i]
             c == Calling(t)
             a == Answering(t)
             ids == IdsOf(t, "call")
             others == IdsOf(t, "result")
  <2>2. /\ c \in Seq(CallEntries) /\ a \in Seq(ResultEntries)
        /\ ids = [j \in 1..Len(c) |-> c[j].id] /\ others = [j \in 1..Len(a) |-> a[j].id]
    BY <2>1, IdsOfAre
  <2> HIDE DEF c, a, ids, others
  <2>3. Len(c) \in Nat /\ Len(a) \in Nat /\ ((c = <<>>) <=> (Len(c) = 0)) /\ ((a = <<>>) <=> (Len(a) = 0))
    BY <2>2, SequenceIs
  <2> DEFINE X == {c[j].id : j \in 1..Len(c)} \cup {a[j].id : j \in 1..Len(a)}
  <2>a. /\ \A j \in 1..Len(c) : c[j].id \in X
        /\ \A j \in 1..Len(a) : a[j].id \in X
    OBVIOUS
  <2> HIDE DEF X
  <2>4. ids \in Seq(X) /\ others \in Seq(X) /\ Len(ids) = Len(c) /\ Len(others) = Len(a)
    BY <2>2, <2>3, <2>a
  <2>5. ((ids = <<>>) <=> (Len(ids) = 0)) /\ ((others = <<>>) <=> (Len(others) = 0))
    BY <2>4, SequenceIs
  <2> QED BY <2>2, <2>3, <2>4, <2>5 DEF c, a, ids, others
<1>4. ASSUME NEW i \in 1..n, Answering(ts[i]) # <<>> PROVE i > 1 /\ Calling(ts[i - 1]) # <<>>
  <2>1. IdsOf(ts[i], "result") # <<>>
    BY <1>3, <1>4
  <2>2. i - 1 \in 0..n /\ i - 1 # n /\ i - 1 + 1 = i
    BY <1>1
  <2>3. (IF i - 1 = 0 THEN <<>> ELSE IdsOf(ts[i - 1], "call")) = IdsOf(ts[i], "result")
    BY <1>2, <2>2
  <2>4. i - 1 # 0 /\ IdsOf(ts[i - 1], "call") # <<>>
    BY <2>1, <2>3
  <2>5. i - 1 \in 1..n /\ i > 1
    BY <1>1, <2>4
  <2> QED BY <1>3, <2>4, <2>5
<1>5. ASSUME NEW i \in 1..n, Calling(ts[i]) # <<>>
      PROVE  /\ i + 1 \in 1..n
             /\ Len(Answering(ts[i + 1])) = Len(Calling(ts[i])) /\ Answering(ts[i + 1]) # <<>>
             /\ \A j \in 1..Len(Calling(ts[i])) : Answering(ts[i + 1])[j].id = Calling(ts[i])[j].id
  <2>1. IdsOf(ts[i], "call") # <<>>
    BY <1>3, <1>5
  <2>2. i \in 0..n /\ i # 0
    BY <1>1
  <2>3. IdsOf(ts[i], "call") = (IF i = n THEN <<>> ELSE IdsOf(ts[i + 1], "result"))
    BY <1>2, <2>2
  <2>4. i # n /\ IdsOf(ts[i], "call") = IdsOf(ts[i + 1], "result")
    BY <2>1, <2>3
  <2>5. i + 1 \in 1..n
    BY <1>1, <2>4
  <2> DEFINE c == Calling(ts[i])
             a == Answering(ts[i + 1])
  <2>6. [j \in 1..Len(c) |-> c[j].id] = [j \in 1..Len(a) |-> a[j].id] /\ Len(c) \in Nat /\ Len(a) \in Nat
    BY <1>3, <2>4, <2>5
  <2>7. a # <<>>
    BY <1>3, <2>1, <2>4, <2>5
  <2> HIDE DEF c, a
  <2>8. Len(a) = Len(c) /\ \A j \in 1..Len(c) : a[j].id = c[j].id
    <3> DEFINE f == [j \in 1..Len(c) |-> c[j].id]
               g == [j \in 1..Len(a) |-> a[j].id]
    <3>1. DOMAIN f = 1..Len(c) /\ DOMAIN g = 1..Len(a)
      OBVIOUS
    <3>2. f = g
      BY <2>6
    <3>3. 1..Len(c) = 1..Len(a)
      BY <3>1, <3>2
    <3>4. Len(a) = Len(c)
      BY <2>6, <3>3
    <3>5. \A j \in 1..Len(c) : f[j] = c[j].id /\ g[j] = a[j].id
      BY <3>3
    <3> QED BY <3>2, <3>4, <3>5
  <2> QED BY <2>5, <2>7, <2>8 DEF c, a
<1> QED BY <1>4, <1>5 DEF n

\* A result is shown under the name of its call.
LEMMA NamedAlike ==
  ASSUME NEW ts, Valid(ts), NEW i \in 1..Len(ts), Calling(ts[i]) # <<>>,
         NEW j \in 1..Len(Calling(ts[i]))
  PROVE  ResolveToolName(ts, i + 1, Answering(ts[i + 1])[j].id) = Calling(ts[i])[j].tool
<1> DEFINE t == ts[i]
           c == Calling(t)[j]
           id == Answering(ts[i + 1])[j].id
<1>1. ts \in Seq(Turns) /\ i \in DOMAIN ts /\ t \in Turns /\ Uniform(t)
      /\ \A k \in DOMAIN t.entries : AsStored(t.entries[k])
  BY DEF Valid
<1>2. i + 1 \in DOMAIN ts /\ id = c.id /\ i + 1 # 1 /\ i + 1 - 1 = i
  BY <1>1, Facing
<1>3. c \in LogEntries /\ c.kind = "call" /\ \E k \in DOMAIN t.entries : c = t.entries[k]
  BY <1>1, WhoActs
<1>4. PICK k \in DOMAIN t.entries : c = t.entries[k]
  BY <1>3
<1>5. c.id \in Words
  BY <1>3 DEF LogEntries
<1>6. t.entries[k] \in CallsWith(c.id)
  BY <1>3, <1>4 DEF CallsWith
<1>7. \A e \in DOMAIN t.entries : t.entries[e] \in CallsWith(c.id) => t.entries[e].tool = c.tool
  <2> SUFFICES ASSUME NEW e \in DOMAIN t.entries, t.entries[e] \in CallsWith(c.id)
               PROVE  t.entries[e].tool = c.tool
    OBVIOUS
  <2>1. t.entries[e].kind = "call" /\ t.entries[e].id = c.id /\ c.kind = "call"
    BY <1>3 DEF CallsWith
  <2>2. \A a, b \in DOMAIN ts[i].entries :
          ts[i].entries[a].kind = "call" /\ ts[i].entries[b].kind = "call"
            /\ ts[i].entries[a].id = ts[i].entries[b].id => ts[i].entries[a].tool = ts[i].entries[b].tool
    BY <1>1 DEF Valid, IsPaired
  <2> HIDE DEF c
  <2> QED BY <1>4, <2>1, <2>2
<1>8. \/ \E e \in DOMAIN t.entries : /\ t.entries[e] \in CallsWith(c.id)
                                     /\ ResolveToolName(ts, i + 1, c.id) = t.entries[e].tool
      \/ \A e \in DOMAIN t.entries : t.entries[e] \notin CallsWith(c.id)
  <2> DEFINE l == i + 1
             w == c.id
  <2>1. l \in DOMAIN ts /\ l # 1 /\ l - 1 = i /\ w \in Words
    BY <1>2, <1>5
  <2> HIDE DEF l, w
  <2> QED BY <1>1, <2>1, NameTyped DEF l, w
<1> HIDE DEF c, id, t
<1> QED BY <1>2, <1>6, <1>7, <1>8 DEF c, id, t

\* What Anthropic and Gemini are told of a turn, in one message.
Tells(d, ts, i, m) ==
  LET calls == Calling(ts[i])
      answers == Answering(ts[i])
  IN  /\ m \in Messages /\ m.role = ts[i].role
      /\ (OfType(m, "call") = <<>>) <=> (calls = <<>>)
      /\ (OfType(m, "result") = <<>>) <=> (answers = <<>>)
      /\ Len(OfType(m, "result")) = Len(answers)
      /\ IdsIn(m, "call") = [j \in 1..Len(calls) |-> IF d = "gemini" THEN Absent ELSE calls[j].id]
      /\ IdsIn(m, "result") = [j \in 1..Len(answers) |-> IF d = "gemini" THEN Absent ELSE answers[j].id]
      /\ NamesIn(m, "call") = [j \in 1..Len(calls) |-> calls[j].tool]
      /\ d = "gemini" =>
           NamesIn(m, "result") = [j \in 1..Len(answers) |-> ResolveToolName(ts, i, answers[j].id)]
      /\ \A j \in 1..Len(answers) : m.parts[j].type = "result"

\* A message says all of that.
LEMMA TurnTells ==
  ASSUME NEW d \in {"anthropic", "gemini"}, NEW ts, Valid(ts), NEW i \in 1..Len(ts)
  PROVE  Tells(d, ts, i, Message(ts[i].role, TurnTold(d, ts, i)))
<1> DEFINE t == ts[i]
           told == TurnTold(d, ts, i)
           m == Message(t.role, told)
           calls == Calling(t)
           answers == Answering(t)
           call == CallShown(d)
           result == ResultShown(d, ts, i)
           asked == Mapped(calls, call)
           replied == Mapped(answers, result)
<1>0. /\ ts \in Seq(Turns) /\ i \in DOMAIN ts /\ t \in Turns /\ Uniform(t) /\ InOrder(t)
      /\ \A j \in DOMAIN t.entries : AsStored(t.entries[j])
  BY DEF Valid
<1>1. /\ ts \in Seq(Turns) /\ i \in DOMAIN ts /\ t \in Turns /\ Uniform(t) /\ InOrder(t)
      /\ \A j \in DOMAIN t.entries : AsStored(t.entries[j])
      /\ t.role \in {"user", "assistant", "system", "tool"}
  <2> HIDE DEF t
  <2> QED BY <1>0 DEF Turns
<1>2. told \in Seq(WireParts)
  BY <1>1, TurnIsTold
<1>3. m \in Messages /\ m.role = t.role /\ m.parts = told
  BY <1>1, <1>2, MessageIs
<1>4. asked = Within(told, WireParts, Typed("call")) /\ replied = Within(told, WireParts, Typed("result"))
  BY <1>1, ToldShows
<1>5. calls \in Seq(LogEntries) /\ answers \in Seq(LogEntries)
  BY <1>1, WhoActs
<1>6. \A j \in 1..Len(answers) : told[j].type = "result"
  BY <1>1, ResultsOpen
<1>7. ASSUME NEW e \in LogEntries
      PROVE  /\ call[e].id = (IF d = "gemini" THEN Absent ELSE e.id)
             /\ result[e].id = (IF d = "gemini" THEN Absent ELSE e.id)
             /\ call[e].name = e.tool
             /\ d = "gemini" => result[e].name = ResolveToolName(ts, i, e.id)
  BY <1>1, ShownIs
<1> HIDE DEF t, told, m, calls, answers, call, result
<1>8. /\ Len(calls) \in Nat /\ Len(answers) \in Nat
      /\ \A j \in 1..Len(calls) : calls[j] \in LogEntries
      /\ \A j \in 1..Len(answers) : answers[j] \in LogEntries
      /\ (calls = <<>>) <=> (Len(calls) = 0)
      /\ (answers = <<>>) <=> (Len(answers) = 0)
  BY <1>5, SequenceIs
<1>9. /\ asked = [j \in 1..Len(calls) |-> call[calls[j]]]
      /\ replied = [j \in 1..Len(answers) |-> result[answers[j]]]
  BY <1>5 DEF Mapped
<1>10. Len(asked) = Len(calls) /\ Len(replied) = Len(answers)
  BY <1>8, <1>9
<1>11. /\ \A j \in 1..Len(calls) : asked[j] = call[calls[j]]
       /\ \A j \in 1..Len(answers) : replied[j] = result[answers[j]]
  BY <1>9
<1> HIDE DEF asked, replied
<1>12. /\ OfType(m, "call") = asked /\ asked \in Seq(WireParts)
       /\ IdsIn(m, "call") = [j \in 1..Len(asked) |-> asked[j].id]
       /\ NamesIn(m, "call") = [j \in 1..Len(asked) |-> asked[j].name]
  <2>1. asked = Within(m.parts, WireParts, Typed("call"))
    BY <1>3, <1>4
  <2> QED BY <1>3, <2>1, OfTypeIs
<1>13. /\ OfType(m, "result") = replied /\ replied \in Seq(WireParts)
       /\ IdsIn(m, "result") = [j \in 1..Len(replied) |-> replied[j].id]
       /\ NamesIn(m, "result") = [j \in 1..Len(replied) |-> replied[j].name]
  <2>1. replied = Within(m.parts, WireParts, Typed("result"))
    BY <1>3, <1>4
  <2> QED BY <1>3, <2>1, OfTypeIs
<1>14. /\ (asked = <<>>) <=> (Len(asked) = 0)
       /\ (replied = <<>>) <=> (Len(replied) = 0)
  BY <1>12, <1>13, SequenceIs
<1>15. /\ \A j \in 1..Len(calls) :
            asked[j].id = (IF d = "gemini" THEN Absent ELSE calls[j].id) /\ asked[j].name = calls[j].tool
       /\ \A j \in 1..Len(answers) :
            /\ replied[j].id = IF d = "gemini" THEN Absent ELSE answers[j].id
            /\ d = "gemini" => replied[j].name = ResolveToolName(ts, i, answers[j].id)
  BY <1>7, <1>8, <1>11
<1>16. /\ IdsIn(m, "call") = [j \in 1..Len(calls) |-> IF d = "gemini" THEN Absent ELSE calls[j].id]
       /\ NamesIn(m, "call") = [j \in 1..Len(calls) |-> calls[j].tool]
  BY <1>10, <1>12, <1>15
<1>17. /\ IdsIn(m, "result") = [j \in 1..Len(answers) |-> IF d = "gemini" THEN Absent ELSE answers[j].id]
       /\ d = "gemini" =>
            NamesIn(m, "result") = [j \in 1..Len(answers) |-> ResolveToolName(ts, i, answers[j].id)]
  BY <1>10, <1>13, <1>15
<1>18. /\ (OfType(m, "call") = <<>>) <=> (calls = <<>>)
       /\ (OfType(m, "result") = <<>>) <=> (answers = <<>>)
       /\ Len(OfType(m, "result")) = Len(answers)
  BY <1>8, <1>10, <1>12, <1>13, <1>14
<1>19. \A j \in 1..Len(answers) : m.parts[j].type = "result"
  BY <1>3, <1>6
<1> QED BY <1>3, <1>16, <1>17, <1>18, <1>19 DEF Tells, t, m, told, calls, answers

\* The rule of Anthropic and of Gemini for calls and results.
AnswersNext(d, ms) ==
  LET calling == {i \in DOMAIN ms : OfType(ms[i], "call") # <<>>}
      answering == {i \in DOMAIN ms : OfType(ms[i], "result") # <<>>}
  IN  /\ answering = {i + 1 : i \in calling}
      /\ \A i \in calling :
           /\ ms[i].role = "assistant" /\ ms[i + 1].role = "user"
           /\ IdsIn(ms[i], "call") = IdsIn(ms[i + 1], "result")
           /\ NamesIn(ms[i], "call") = NamesIn(ms[i + 1], "result") \/ d = "anthropic"
           /\ \A j \in 1..Len(OfType(ms[i + 1], "result")) : ms[i + 1].parts[j].type = "result"

\* Their bodies keep it: a turn is one message there.
LEMMA AnsweredNext ==
  ASSUME NEW d \in {"anthropic", "gemini"}, NEW ts, Valid(ts)
  PROVE  AnswersNext(d, Whole(Encoded(d, ts)))
<1> DEFINE n == Len(ts)
           parts == Encoded(d, ts)
           ms == Whole(parts)
           m(i) == Message(ts[i].role, TurnTold(d, ts, i))
           calling == {i \in DOMAIN ms : OfType(ms[i], "call") # <<>>}
           answering == {i \in DOMAIN ms : OfType(ms[i], "result") # <<>>}
<1>1. ts \in Seq(Turns) /\ n \in Nat /\ DOMAIN ts = 1..n /\ \A i \in 1..n : ts[i] \in Turns
  BY DEF Valid
<1>2. parts \in Seq(Seq(Messages)) /\ Len(parts) = n /\ ms \in Seq(Messages)
  BY <1>1, EncodedTyped, JoinedTyped
<1>3. PICK off : Placed(parts, off)
  BY <1>2, HasPlaces
<1>4. \A i \in 1..n : Tells(d, ts, i, m(i))
  BY TurnTells
<1>5. \A i \in 1..n : parts[i] = IF IsSystem(ts[i]) THEN <<>> ELSE <<m(i)>>
  <2>1. \A i \in 1..n : MessagesOf(d, ts, i) = <<m(i)>>
    BY DEF MessagesOf, TurnTold
  <2> QED BY <1>1, <2>1 DEF Encoded
<1>6. \A i \in 1..n : /\ Calling(ts[i]) # <<>> => ts[i].role = "assistant"
                      /\ Answering(ts[i]) # <<>> => ts[i].role = "user"
  BY <1>1, WhoActs DEF Valid
<1>7. \A i \in 1..n : Calling(ts[i]) # <<>> \/ Answering(ts[i]) # <<>> => parts[i] = <<m(i)>>
  BY <1>5, <1>6 DEF IsSystem
<1> HIDE DEF m, parts, n, ms
<1>8. /\ off \in [0..n -> Nat] /\ off[0] = 0
      /\ \A i \in 1..n : /\ off[i] = off[i - 1] + Len(parts[i])
                         /\ \A j \in 1..Len(parts[i]) : ms[off[i - 1] + j] = parts[i][j]
      /\ \A k \in 1..Len(ms) : \E i \in 1..n : \E j \in 1..Len(parts[i]) : k = off[i - 1] + j
      /\ off[n] = Len(ms)
  BY <1>2, <1>3 DEF Placed, parts, ms
<1>9. DOMAIN ms = 1..Len(ms) /\ Len(ms) \in Nat
  BY <1>2
<1>i. /\ calling = {i \in 1..Len(ms) : OfType(ms[i], "call") # <<>>}
      /\ answering = {i \in 1..Len(ms) : OfType(ms[i], "result") # <<>>}
  BY <1>9
<1> HIDE DEF calling, answering
<1>10. ASSUME NEW k \in 1..Len(ms)
       PROVE  \E i \in 1..n : k = off[i - 1] + 1 /\ parts[i] = <<m(i)>> /\ ms[k] = m(i)
  <2>1. PICK i \in 1..n : \E j \in 1..Len(parts[i]) : k = off[i - 1] + j
    BY <1>8
  <2>2. PICK j \in 1..Len(parts[i]) : k = off[i - 1] + j
    BY <2>1
  <2>3. parts[i] # <<>>
    BY <2>2
  <2>4. parts[i] = <<m(i)>>
    BY <1>5, <2>3 DEF n, parts, m
  <2>5. j = 1 /\ parts[i][1] = m(i) /\ Len(parts[i]) = 1
    BY <2>2, <2>4
  <2>6. ms[off[i - 1] + j] = parts[i][j]
    BY <1>8, <2>2
  <2> QED BY <2>2, <2>4, <2>5, <2>6
<1>11. ASSUME NEW i \in 1..n, parts[i] = <<m(i)>>
       PROVE  /\ off[i] = off[i - 1] + 1 /\ off[i - 1] \in Nat /\ off[i] \in 1..Len(ms)
              /\ ms[off[i]] = m(i)
  <2>1. Len(parts[i]) = 1 /\ parts[i][1] = m(i)
    BY <1>11
  <2>2. off[i] = off[i - 1] + 1 /\ ms[off[i - 1] + 1] = m(i)
    <3>1. off[i] = off[i - 1] + Len(parts[i])
      BY <1>8
    <3>2. \A j \in 1..Len(parts[i]) : ms[off[i - 1] + j] = parts[i][j]
      BY <1>8
    <3>3. ms[off[i - 1] + 1] = parts[i][1]
      BY <2>1, <3>2
    <3> QED BY <2>1, <3>1, <3>3
  <2>3. i - 1 \in 0..n /\ i \in 0..n /\ n \in 0..n /\ i <= n
    BY <1>1
  <2>4. off[i - 1] \in Nat /\ off[i] \in Nat
    BY <1>8, <2>3
  <2>5. off[i] <= off[n]
    <3>1. Len(parts) = n
      BY <1>2
    <3> QED BY <1>2, <1>3, <2>3, <3>1, PlacedGrows
  <2> QED BY <1>8, <1>9, <2>2, <2>4, <2>5
<1>12. ASSUME NEW k \in calling
       PROVE  \E i \in 1..n :
                /\ i + 1 \in 1..n /\ Calling(ts[i]) # <<>> /\ Answering(ts[i + 1]) # <<>>
                /\ k \in 1..Len(ms) /\ k + 1 \in 1..Len(ms)
                /\ ms[k] = m(i) /\ ms[k + 1] = m(i + 1)
  <2>1. k \in 1..Len(ms) /\ OfType(ms[k], "call") # <<>>
    BY <1>i
  <2>2. PICK i \in 1..n : k = off[i - 1] + 1 /\ parts[i] = <<m(i)>> /\ ms[k] = m(i)
    BY <1>10, <2>1
  <2>3. Calling(ts[i]) # <<>>
    BY <1>4, <2>1, <2>2 DEF Tells, m, n
  <2>4. i + 1 \in 1..n /\ Answering(ts[i + 1]) # <<>>
    BY <2>3, Facing DEF n
  <2>5. parts[i + 1] = <<m(i + 1)>>
    BY <1>7, <2>4 DEF n, m, parts
  <2>6. off[i] = k /\ off[i] \in Nat
    BY <1>11, <2>2
  <2>7. off[i + 1] = off[i + 1 - 1] + 1 /\ off[i + 1] \in 1..Len(ms) /\ ms[off[i + 1]] = m(i + 1)
    BY <1>11, <2>4, <2>5
  <2>8. i + 1 - 1 = i
    OBVIOUS
  <2> QED BY <2>1, <2>2, <2>3, <2>4, <2>6, <2>7, <2>8
<1>13. ASSUME NEW k \in calling
       PROVE  /\ k + 1 \in answering
              /\ ms[k].role = "assistant" /\ ms[k + 1].role = "user"
              /\ IdsIn(ms[k], "call") = IdsIn(ms[k + 1], "result")
              /\ NamesIn(ms[k], "call") = NamesIn(ms[k + 1], "result") \/ d = "anthropic"
              /\ \A j \in 1..Len(OfType(ms[k + 1], "result")) : ms[k + 1].parts[j].type = "result"
  <2>1. PICK i \in 1..n :
          /\ i + 1 \in 1..n /\ Calling(ts[i]) # <<>> /\ Answering(ts[i + 1]) # <<>>
          /\ k \in 1..Len(ms) /\ k + 1 \in 1..Len(ms)
          /\ ms[k] = m(i) /\ ms[k + 1] = m(i + 1)
    BY <1>12
  <2> DEFINE calls == Calling(ts[i])
             answers == Answering(ts[i + 1])
             p == ms[k]
             q == ms[k + 1]
  <2>2. Tells(d, ts, i, p) /\ Tells(d, ts, i + 1, q)
    BY <1>4, <2>1 DEF m, n
  <2>3. /\ p.role = "assistant" /\ q.role = "user"
    <3>1. p.role = ts[i].role /\ q.role = ts[i + 1].role
      BY <2>2 DEF Tells
    <3> QED BY <1>6, <2>1, <3>1
  <2>4. Len(answers) = Len(calls) /\ \A j \in 1..Len(calls) : answers[j].id = calls[j].id
    BY <2>1, Facing DEF n
  <2>5. \A j \in 1..Len(calls) : ResolveToolName(ts, i + 1, answers[j].id) = calls[j].tool
    BY <2>1, NamedAlike DEF n
  <2>6. /\ IdsIn(p, "call") = [j \in 1..Len(calls) |-> IF d = "gemini" THEN Absent ELSE calls[j].id]
        /\ NamesIn(p, "call") = [j \in 1..Len(calls) |-> calls[j].tool]
    BY <2>2 DEF Tells
  <2>7. /\ IdsIn(q, "result") = [j \in 1..Len(answers) |-> IF d = "gemini" THEN Absent ELSE answers[j].id]
        /\ d = "gemini" => NamesIn(q, "result") =
                             [j \in 1..Len(answers) |-> ResolveToolName(ts, i + 1, answers[j].id)]
        /\ OfType(q, "result") # <<>>
        /\ Len(OfType(q, "result")) = Len(answers)
        /\ \A j \in 1..Len(answers) : q.parts[j].type = "result"
    BY <2>1, <2>2 DEF Tells
  <2> HIDE DEF calls, answers, p, q
  <2>8. IdsIn(p, "call") = IdsIn(q, "result")
    BY <2>4, <2>6, <2>7
  <2>9. NamesIn(p, "call") = NamesIn(q, "result") \/ d = "anthropic"
    BY <2>4, <2>5, <2>6, <2>7
  <2>10. k + 1 \in answering
    BY <1>i, <2>1, <2>7 DEF q
  <2>11. \A j \in 1..Len(OfType(q, "result")) : q.parts[j].type = "result"
    BY <2>7
  <2> QED BY <2>3, <2>8, <2>9, <2>10, <2>11 DEF p, q
<1>14. ASSUME NEW k \in answering PROVE \E c \in calling : k = c + 1
  <2>1. k \in 1..Len(ms) /\ OfType(ms[k], "result") # <<>>
    BY <1>i
  <2>2. PICK i \in 1..n : k = off[i - 1] + 1 /\ parts[i] = <<m(i)>> /\ ms[k] = m(i)
    BY <1>10, <2>1
  <2>3. Answering(ts[i]) # <<>>
    BY <1>4, <2>1, <2>2 DEF Tells, m, n
  <2>4. i > 1 /\ Calling(ts[i - 1]) # <<>>
    BY <2>3, Facing DEF n
  <2>5. i - 1 \in 1..n
    BY <1>1, <2>4
  <2>6. parts[i - 1] = <<m(i - 1)>>
    BY <1>7, <2>4, <2>5 DEF n, m, parts
  <2>7. off[i - 1] \in 1..Len(ms) /\ ms[off[i - 1]] = m(i - 1)
    BY <1>11, <2>5, <2>6
  <2>8. OfType(m(i - 1), "call") # <<>>
    BY <1>4, <2>4, <2>5 DEF Tells, m, n
  <2>9. off[i - 1] \in calling
    BY <1>i, <2>7, <2>8
  <2> QED BY <2>2, <2>9
<1>15. answering = {i + 1 : i \in calling}
  <2>1. \A k \in calling : k + 1 \in answering
    BY <1>13
  <2>2. \A k \in answering : \E c \in calling : k = c + 1
    BY <1>14
  <2> QED BY <2>1, <2>2
<1> QED BY <1>13, <1>15 DEF AnswersNext, calling, answering, ms, parts

\* The r messages behind place k are replies, and no more are.
Followed(ms, k, r) ==
  /\ k + r <= Len(ms)
  /\ \A j \in 1..r : ms[k + j].role = "tool"
  /\ k + r < Len(ms) => ms[k + r + 1].role # "tool"

\* They are what Replies collects.
LEMMA RepliesAre ==
  ASSUME NEW S, NEW ms \in Seq(S), NEW k \in 1..Len(ms), NEW r \in Nat, Followed(ms, k, r)
  PROVE  /\ Replies(ms, k) \in Seq(S) /\ Len(Replies(ms, k)) = r
         /\ \A j \in 1..r : Replies(ms, k)[j] = ms[k + j]
<1> DEFINE L == Len(ms)
           after == SubSeq(ms, k + 1, L)
           stops == {i \in DOMAIN after : after[i].role # "tool"}
           first == SubSeq(after, 1, r)
<1>0. \A j \in 1..r : ms[k + j].role = "tool"
  BY DEF Followed
<1>1. L \in Nat /\ k \in 0..L /\ k \in Nat /\ L - k \in Nat /\ r <= L - k
  BY DEF Followed
<1>2. /\ after \in Seq(S) /\ Len(after) = L - k
      /\ \A i \in 1..(L - k) : after[i] = ms[k + i]
  <2>1. k \in 0..Len(ms)
    BY <1>1
  <2> QED BY <2>1, Halves
<1>3. Replies(ms, k) = IF stops = {} THEN after
                       ELSE SubSeq(after, 1, (CHOOSE i \in stops : \A l \in stops : i <= l) - 1)
  BY DEF Replies
<1>4. DOMAIN after = 1..(L - k)
  BY <1>2
<1>5. k + r < L => ms[k + r + 1].role # "tool"
  BY DEF Followed
<1> HIDE DEF L, after
<1>6. CASE r = L - k
  <2>1. \A i \in 1..(L - k) : after[i].role = "tool"
    BY <1>0, <1>2, <1>6
  <2>2. stops = {}
    BY <1>4, <2>1
  <2> QED BY <1>2, <1>3, <1>6, <2>2
<1>7. CASE r < L - k
  <2>1. r + 1 \in 1..(L - k) /\ k + (r + 1) = k + r + 1 /\ k + r < L
    BY <1>1, <1>7
  <2>2. after[r + 1].role # "tool"
    BY <1>2, <1>5, <2>1
  <2>3. r + 1 \in stops
    BY <1>4, <2>1, <2>2
  <2>4. \A i \in 1..r : i \in 1..(L - k) /\ after[i].role = "tool"
    <3>1. \A i \in 1..r : i \in 1..(L - k)
      BY <1>1
    <3> QED BY <1>0, <1>2, <3>1
  <2>5. \A i \in stops : i \in Nat /\ ~(i <= r) /\ r + 1 <= i
    <3> SUFFICES ASSUME NEW i \in stops PROVE i \in Nat /\ ~(i <= r) /\ r + 1 <= i
      OBVIOUS
    <3>1. i \in 1..(L - k) /\ after[i].role # "tool"
      BY <1>4
    <3>2. i \notin 1..r
      BY <2>4, <3>1
    <3> QED BY <1>1, <3>1, <3>2
  <2> HIDE DEF stops
  <2> DEFINE least == CHOOSE i \in stops : \A l \in stops : i <= l
  <2>6. least \in stops /\ \A l \in stops : least <= l
    BY <2>3, <2>5
  <2>7. least = r + 1
    <3>1. least <= r + 1 /\ r + 1 <= least /\ least \in Nat
      BY <2>3, <2>5, <2>6
    <3> QED BY <3>1
  <2> HIDE DEF least
  <2>8. Replies(ms, k) = first
    <3>1. stops # {}
      BY <2>3
    <3>2. Replies(ms, k) = SubSeq(after, 1, least - 1)
      BY <1>3, <3>1 DEF least
    <3>3. least - 1 = r
      BY <2>7
    <3> QED BY <3>2, <3>3
  <2>9. r \in 0..Len(after)
    BY <1>1, <1>2
  <2>10. /\ first \in Seq(S) /\ Len(first) = r /\ \A i \in 1..r : first[i] = after[i]
    BY <1>2, <2>9, Halves
  <2> HIDE DEF first
  <2>11. \A i \in 1..r : first[i] = ms[k + i]
    BY <1>2, <2>4, <2>10
  <2> QED BY <2>8, <2>10, <2>11
<1> QED BY <1>1, <1>6, <1>7

\* The calls, the results and their places in OpenAI's dialect: a message for
\* each result right behind the message with the calls.
LEMMA AnsweredBehind ==
  ASSUME NEW ts, Valid(ts), NEW ms, ms = Whole(Encoded("openai", ts)),
         NEW calling, calling = {i \in DOMAIN ms : OfType(ms[i], "call") # <<>>},
         NEW answering, answering = {i \in DOMAIN ms : OfType(ms[i], "result") # <<>>}
  PROVE  /\ \A k \in calling :
              IdsIn(ms[k], "call") = Over(Replies(ms, k), LAMBDA m : IdsIn(m, "result"))
         /\ \A k \in answering : \E c \in calling : c < k /\ k <= c + Len(Replies(ms, c))
<1> DEFINE n == Len(ts)
           parts == Encoded("openai", ts)
<1>1. ts \in Seq(Turns) /\ n \in Nat /\ DOMAIN ts = 1..n /\ \A i \in 1..n : ts[i] \in Turns
  BY DEF Valid
<1>2. parts \in Seq(Seq(Messages)) /\ Len(parts) = n /\ ms \in Seq(Messages)
  BY <1>1, EncodedTyped, JoinedTyped
<1>3. PICK off : Placed(parts, off)
  BY <1>2, HasPlaces
<1>4. \A i \in 1..n : parts[i] = IF IsSystem(ts[i]) THEN <<>> ELSE TurnMessages(ts[i])
  BY <1>1 DEF Encoded, MessagesOf
<1>5. ASSUME NEW i \in 1..n
      PROVE  /\ Shows(ts[i], TurnMessages(ts[i]))
             /\ Calling(ts[i]) \in Seq(LogEntries) /\ Answering(ts[i]) \in Seq(LogEntries)
             /\ Calling(ts[i]) # <<>> => ts[i].role = "assistant"
             /\ Answering(ts[i]) # <<>> => ts[i].role = "user"
  <2> DEFINE t == ts[i]
  <2>1. t \in Turns
    BY <1>1
  <2>2. Uniform(t)
    BY <1>1 DEF Valid
  <2>3. \A j \in DOMAIN t.entries : AsStored(t.entries[j])
    BY <1>1 DEF Valid
  <2> HIDE DEF t
  <2>4. Shows(t, TurnMessages(t))
    BY <2>1, <2>2, <2>3, TurnShown
  <2>5. /\ Calling(t) \in Seq(LogEntries) /\ Answering(t) \in Seq(LogEntries)
        /\ Calling(t) # <<>> => t.role = "assistant"
        /\ Answering(t) # <<>> => t.role = "user"
    BY <2>1, <2>2, <2>3, WhoActs
  <2> QED BY <2>4, <2>5 DEF t
<1>6. \A i \in 1..n : Calling(ts[i]) # <<>> \/ Answering(ts[i]) # <<>> => Shows(ts[i], parts[i])
  BY <1>4, <1>5 DEF IsSystem
<1>7. \A i \in 1..n : parts[i] # <<>> => Shows(ts[i], parts[i])
  BY <1>4, <1>5
<1>f. /\ \A i \in 1..n : Answering(ts[i]) # <<>> => i > 1 /\ Calling(ts[i - 1]) # <<>>
      /\ \A i \in 1..n : Calling(ts[i]) # <<>> =>
           /\ i + 1 \in 1..n
           /\ Len(Answering(ts[i + 1])) = Len(Calling(ts[i])) /\ Answering(ts[i + 1]) # <<>>
           /\ \A j \in 1..Len(Calling(ts[i])) : Answering(ts[i + 1])[j].id = Calling(ts[i])[j].id
  BY Facing
<1> HIDE DEF parts, n
<1>8. /\ off \in [0..n -> Nat] /\ off[0] = 0 /\ off[n] = Len(ms)
      /\ \A i \in 1..n : off[i] = off[i - 1] + Len(parts[i])
      /\ \A i \in 1..n : \A j \in 1..Len(parts[i]) : ms[off[i - 1] + j] = parts[i][j]
      /\ \A k \in 1..Len(ms) : \E i \in 1..n : \E j \in 1..Len(parts[i]) : k = off[i - 1] + j
  BY <1>2, <1>3 DEF Placed, parts
<1>9. DOMAIN ms = 1..Len(ms) /\ Len(ms) \in Nat
  BY <1>2
<1>10. \A i \in 1..n : i \in 0..n /\ i - 1 \in 0..n /\ n \in 0..n /\ i <= n
  BY <1>1
<1>11. \A i \in 0..n : \A k \in 0..n : i <= k => off[i] <= off[k]
  <2> SUFFICES ASSUME NEW i \in 0..n, NEW k \in 0..n, i <= k PROVE off[i] <= off[k]
    OBVIOUS
  <2>1. i \in 0..Len(parts) /\ k \in 0..Len(parts)
    BY <1>2
  <2> QED BY <1>2, <1>3, <2>1, PlacedGrows
<1>12. \A i \in 1..n : off[i] \in Nat /\ off[i - 1] \in Nat /\ Len(parts[i]) \in Nat
  <2>1. \A i \in 1..n : off[i] \in Nat /\ off[i - 1] \in Nat
    BY <1>8, <1>10
  <2>2. \A i \in 1..n : parts[i] \in Seq(Messages)
    BY <1>2
  <2>3. \A i \in 1..n : Len(parts[i]) \in Nat
    BY <2>2
  <2> QED BY <2>1, <2>3
\* Where a message comes from.
<1>13. ASSUME NEW k \in 1..Len(ms)
       PROVE  \E i \in 1..n : \E j \in 1..Len(parts[i]) :
                k = off[i - 1] + j /\ ms[k] = parts[i][j] /\ Shows(ts[i], parts[i])
  <2>1. PICK i \in 1..n : \E j \in 1..Len(parts[i]) : k = off[i - 1] + j
    BY <1>8
  <2>2. PICK j \in 1..Len(parts[i]) : k = off[i - 1] + j
    BY <2>1
  <2>3. parts[i] # <<>>
    BY <2>2
  <2>4. Shows(ts[i], parts[i])
    BY <1>7, <2>3
  <2>5. ms[off[i - 1] + j] = parts[i][j]
    BY <1>8
  <2> QED BY <2>2, <2>4, <2>5
\* A reply is one of the first messages of a turn, for a result of it.
<1>14. ASSUME NEW i \in 1..n, Shows(ts[i], parts[i]), NEW j \in 1..Len(parts[i])
       PROVE  IF j <= Len(Answering(ts[i]))
              THEN /\ Answering(ts[i]) # <<>> /\ j \in 1..Len(Answering(ts[i]))
                   /\ Answering(ts[i])[j] \in LogEntries /\ parts[i][j] = ReplyTo[Answering(ts[i])[j]]
                   /\ OfType(parts[i][j], "call") = <<>>
              ELSE parts[i][j].role # "tool" /\ OfType(parts[i][j], "result") = <<>>
  <2> DEFINE answers == Answering(ts[i])
             told == parts[i]
  <2>1. answers \in Seq(LogEntries)
    BY <1>5
  <2>2. Len(answers) \in Nat /\ j \in Nat /\ 1 <= j /\ (answers = <<>>) <=> (Len(answers) = 0)
    BY <1>12, <2>1, SequenceIs
  <2>3. /\ \A l \in 1..Len(answers) : told[l] = ReplyTo[answers[l]]
        /\ \A l \in 1..Len(told) :
             l > Len(answers) => told[l].role # "tool" /\ OfType(told[l], "result") = <<>>
    BY <1>14 DEF Shows
  <2> HIDE DEF answers, told
  <2>4. CASE j <= Len(answers)
    <3>1. answers # <<>> /\ j \in 1..Len(answers)
      BY <2>2, <2>4
    <3>2. answers[j] \in LogEntries
      BY <2>1, <3>1
    <3>3. told[j] = ReplyTo[answers[j]]
      BY <2>3, <3>1
    <3>4. OfType(told[j], "call") = <<>>
      BY <3>2, <3>3, ReplyIs
    <3> QED BY <2>4, <3>1, <3>2, <3>3, <3>4 DEF answers, told
  <2>5. CASE ~(j <= Len(answers))
    <3>1. j > Len(answers) /\ j \in 1..Len(told)
      BY <2>2, <2>5 DEF told
    <3>2. told[j].role # "tool" /\ OfType(told[j], "result") = <<>>
      BY <2>3, <3>1
    <3> QED BY <2>5, <3>2 DEF answers, told
  <2> QED BY <2>4, <2>5
\* The message of a turn with calls.
<1>15. ASSUME NEW i \in 1..n, Calling(ts[i]) # <<>>
       PROVE  /\ Len(parts[i]) = 1 /\ off[i] = off[i - 1] + 1 /\ off[i] \in 1..Len(ms)
              /\ ms[off[i]] = parts[i][1] /\ off[i] \in calling
              /\ IdsIn(ms[off[i]], "call") = [j \in 1..Len(Calling(ts[i])) |-> Calling(ts[i])[j].id]
  <2>1. Shows(ts[i], parts[i])
    BY <1>6, <1>15
  <2>2. /\ Len(parts[i]) = 1 /\ OfType(parts[i][1], "call") # <<>>
        /\ IdsIn(parts[i][1], "call") = [j \in 1..Len(Calling(ts[i])) |-> Calling(ts[i])[j].id]
    BY <1>15, <2>1 DEF Shows
  <2>3. off[i] = off[i - 1] + 1
    BY <1>8, <2>2
  <2>4. 1 \in 1..Len(parts[i])
    BY <2>2
  <2>5. ms[off[i - 1] + 1] = parts[i][1]
    BY <1>8, <2>4
  <2>6. off[i] <= off[n]
    BY <1>10, <1>11
  <2>7. off[i] \in 1..Len(ms)
    BY <1>8, <1>9, <1>12, <2>3, <2>6
  <2> QED BY <1>9, <2>2, <2>3, <2>5, <2>7
<1>16. ASSUME NEW k \in calling
       PROVE  \E i \in 1..n : Calling(ts[i]) # <<>> /\ k = off[i]
  <2>1. k \in 1..Len(ms) /\ OfType(ms[k], "call") # <<>>
    BY <1>9
  <2>2. PICK i \in 1..n : \E j \in 1..Len(parts[i]) :
          k = off[i - 1] + j /\ ms[k] = parts[i][j] /\ Shows(ts[i], parts[i])
    BY <1>13, <2>1
  <2>3. PICK j \in 1..Len(parts[i]) :
          k = off[i - 1] + j /\ ms[k] = parts[i][j] /\ Shows(ts[i], parts[i])
    BY <2>2
  <2>4. ~(j <= Len(Answering(ts[i])))
    BY <1>14, <2>1, <2>3
  <2>5. Calling(ts[i]) # <<>>
    <3>1. j > Len(Answering(ts[i]))
      <4>1. Len(Answering(ts[i])) \in Nat
        BY <1>5
      <4>2. j \in Nat
        BY <1>12
      <4> QED BY <2>4, <4>1, <4>2
    <3> QED BY <2>1, <2>3, <3>1 DEF Shows
  <2>6. Len(parts[i]) = 1 /\ off[i] = off[i - 1] + 1
    BY <1>15, <2>5
  <2>7. j = 1
    BY <2>6
  <2> QED BY <2>3, <2>5, <2>6, <2>7
\* What is behind it.
<1>17. ASSUME NEW i \in 1..n, Calling(ts[i]) # <<>>
       PROVE  LET c == off[i]
                  answers == Answering(ts[i + 1])
              IN  /\ c + Len(answers) <= Len(ms) /\ Len(answers) \in Nat
                  /\ \A j \in 1..Len(answers) : ms[c + j] = ReplyTo[answers[j]]
                  /\ c + Len(answers) < Len(ms) => ms[c + Len(answers) + 1].role # "tool"
  <2> DEFINE c == off[i]
             answers == Answering(ts[i + 1])
             r == Len(answers)
  <2>1. i + 1 \in 1..n /\ answers # <<>>
    BY <1>f, <1>17
  <2>2. answers \in Seq(LogEntries) /\ r \in Nat /\ c \in Nat /\ i + 1 - 1 = i
    BY <1>5, <1>12, <2>1
  <2>3. Shows(ts[i + 1], parts[i + 1])
    BY <1>6, <2>1
  <2>4. r <= Len(parts[i + 1]) /\ \A j \in 1..r : parts[i + 1][j] = ReplyTo[answers[j]]
    BY <2>3 DEF Shows
  <2>5. off[i + 1] = c + Len(parts[i + 1]) /\ off[i + 1] <= Len(ms) /\ off[i + 1] \in Nat
        /\ Len(parts[i + 1]) \in Nat
    <3>1. off[i + 1] = off[i + 1 - 1] + Len(parts[i + 1])
      BY <1>8, <2>1
    <3>2. off[i + 1] <= off[n]
      BY <1>10, <1>11, <2>1
    <3> QED BY <1>8, <1>12, <2>1, <2>2, <3>1, <3>2
  <2>6. c + r <= off[i + 1] /\ c + r <= Len(ms)
    BY <1>9, <2>2, <2>4, <2>5
  <2>7. ASSUME NEW j \in 1..r PROVE ms[c + j] = ReplyTo[answers[j]]
    <3>1. j \in 1..Len(parts[i + 1])
      BY <2>2, <2>4, <2>5
    <3>2. ms[off[i + 1 - 1] + j] = parts[i + 1][j]
      BY <1>8, <2>1, <3>1
    <3> QED BY <2>2, <2>4, <3>2
  <2>8. ASSUME c + r < Len(ms), ms[c + r + 1].role = "tool" PROVE FALSE
    <3> DEFINE k == c + r + 1
    <3>1. k \in 1..Len(ms)
      BY <1>9, <2>2, <2>8
    <3>2. PICK at \in 1..n : \E j \in 1..Len(parts[at]) :
            k = off[at - 1] + j /\ ms[k] = parts[at][j] /\ Shows(ts[at], parts[at])
      BY <1>13, <3>1
    <3>3. PICK j \in 1..Len(parts[at]) :
            k = off[at - 1] + j /\ ms[k] = parts[at][j] /\ Shows(ts[at], parts[at])
      BY <3>2
    <3>4. j <= Len(Answering(ts[at])) /\ Answering(ts[at]) # <<>>
      BY <1>14, <2>8, <3>3
    <3>5. off[at] = off[at - 1] + Len(parts[at]) /\ off[at] \in Nat /\ off[at - 1] \in Nat
          /\ Len(parts[at]) \in Nat
      BY <1>8, <1>12
    <3>6. k <= off[at] /\ off[at - 1] < k
      BY <3>3, <3>5
    <3>7. at > 1 /\ Calling(ts[at - 1]) # <<>>
      BY <1>f, <3>4
    <3>8. at - 1 \in 1..n
      BY <1>1, <3>7
    <3>9. ~(at <= i)
      <4>1. at <= i => off[at] <= c
        BY <1>10, <1>11
      <4> QED BY <2>2, <3>5, <3>6, <4>1
    <3>10. at # i + 1
      <4>1. ASSUME at = i + 1 PROVE FALSE
        <5>1. k = c + j /\ j <= r
          BY <2>2, <3>3, <3>4, <4>1
        <5>2. j \in Nat
          BY <3>5
        <5> QED BY <2>2, <5>1, <5>2
      <4> QED BY <4>1
    <3>11. at - 1 # i + 1
      <4>1. ts[at - 1].role = "assistant"
        BY <1>5, <3>7, <3>8
      <4>2. ts[i + 1].role = "user"
        BY <1>5, <2>1
      <4> QED BY <4>1, <4>2
    <3>12. i + 1 <= at - 2 /\ at - 2 \in 0..n /\ i + 1 \in 0..n /\ at - 1 - 1 = at - 2
      BY <1>1, <2>1, <3>8, <3>9, <3>10, <3>11
    <3>13. off[i + 1] <= off[at - 2] /\ off[at - 2] \in Nat
      BY <1>8, <1>11, <3>12
    <3>14. off[at - 1] = off[at - 2] + 1
      BY <1>15, <3>7, <3>8, <3>12
    <3> DEFINE w == off[at - 2]
               x == off[at - 1]
               y == off[i + 1]
    <3>15. w \in Nat /\ y <= w /\ x = w + 1 /\ x < k
      BY <3>6, <3>13, <3>14
    <3>16. y \in Nat /\ c + r <= y
      BY <2>5, <2>6
    <3>17. c \in Nat /\ r \in Nat
      BY <2>2
    <3> HIDE DEF w, x, y, c, r
    <3> QED BY <3>15, <3>16, <3>17
  <2> QED BY <2>2, <2>6, <2>7, <2>8
\* So these are its replies.
<1>18. ASSUME NEW i \in 1..n, Calling(ts[i]) # <<>>
       PROVE  LET c == off[i]
                  answers == Answering(ts[i + 1])
                  replies == Replies(ms, c)
              IN  /\ replies \in Seq(Messages) /\ Len(replies) = Len(answers)
                  /\ \A j \in 1..Len(answers) : replies[j] = ReplyTo[answers[j]]
  <2> DEFINE c == off[i]
             answers == Answering(ts[i + 1])
             r == Len(answers)
             replies == Replies(ms, c)
  <2>1. /\ c + r <= Len(ms) /\ r \in Nat
        /\ \A j \in 1..r : ms[c + j] = ReplyTo[answers[j]]
        /\ c + r < Len(ms) => ms[c + r + 1].role # "tool"
    BY <1>17, <1>18
  <2>2. c \in 1..Len(ms)
    BY <1>15, <1>18
  <2>3. i + 1 \in 1..n
    BY <1>f, <1>18
  <2>4. answers \in Seq(LogEntries)
    BY <1>5, <2>3
  <2> HIDE DEF c, answers
  <2>5. \A j \in 1..r : ms[c + j].role = "tool"
    <3>1. \A j \in 1..r : answers[j] \in LogEntries
      BY <2>4
    <3> QED BY <2>1, <3>1, ReplyIs
  <2>6. /\ replies \in Seq(Messages) /\ Len(replies) = r
        /\ \A j \in 1..r : replies[j] = ms[c + j]
    <3>1. Followed(ms, c, r)
      BY <2>1, <2>5 DEF Followed
    <3>2. r \in Nat
      BY <2>1
    <3>3. ms \in Seq(Messages)
      BY <1>2
    <3> HIDE DEF r
    <3> QED BY <2>2, <3>1, <3>2, <3>3, RepliesAre
  <2>7. \A j \in 1..r : replies[j] = ReplyTo[answers[j]]
    BY <2>1, <2>6
  <2> QED BY <2>6, <2>7 DEF c, answers
<1>19. ASSUME NEW k \in calling
       PROVE  IdsIn(ms[k], "call") = Over(Replies(ms, k), LAMBDA m : IdsIn(m, "result"))
  <2>1. PICK i \in 1..n : Calling(ts[i]) # <<>> /\ k = off[i]
    BY <1>16
  <2> DEFINE calls == Calling(ts[i])
             answers == Answering(ts[i + 1])
             replies == Replies(ms, k)
             one == [m \in Messages |-> m.parts[1].id]
             ids == [m \in Messages |-> IdsIn(m, "result")]
  <2>2. /\ replies \in Seq(Messages) /\ Len(replies) = Len(answers)
        /\ \A j \in 1..Len(answers) : replies[j] = ReplyTo[answers[j]]
    BY <1>18, <2>1
  <2>3. /\ i + 1 \in 1..n /\ Len(answers) = Len(calls)
        /\ \A j \in 1..Len(calls) : answers[j].id = calls[j].id
    BY <1>f, <2>1
  <2>4. answers \in Seq(LogEntries)
    BY <1>5, <2>3
  <2>5. IdsIn(ms[k], "call") = [j \in 1..Len(calls) |-> calls[j].id]
    BY <1>15, <2>1
  <2> HIDE DEF calls, answers, replies
  <2>6. \A j \in 1..Len(answers) : answers[j] \in LogEntries
    BY <2>4
  <2>7. /\ DOMAIN replies = 1..Len(answers)
        /\ \A j \in 1..Len(answers) : replies[j] \in Messages
    BY <2>2
  <2>8. \A j \in DOMAIN replies : ids[replies[j]] = <<one[replies[j]]>>
    <3> SUFFICES ASSUME NEW j \in 1..Len(answers) PROVE ids[replies[j]] = <<one[replies[j]]>>
      BY <2>7
    <3>1. replies[j] = ReplyTo[answers[j]] /\ answers[j] \in LogEntries /\ replies[j] \in Messages
      BY <2>2, <2>6, <2>7
    <3>2. IdsIn(replies[j], "result") = <<replies[j].parts[1].id>>
      BY <3>1, ReplyIs
    <3> QED BY <3>1, <3>2
  <2>9. \A j \in 1..Len(answers) : one[replies[j]] = answers[j].id
    <3> SUFFICES ASSUME NEW j \in 1..Len(answers) PROVE one[replies[j]] = answers[j].id
      OBVIOUS
    <3>1. replies[j] = ReplyTo[answers[j]] /\ answers[j] \in LogEntries /\ replies[j] \in Messages
      BY <2>2, <2>6, <2>7
    <3>2. ReplyTo[answers[j]].parts[1].id = answers[j].id
      BY <3>1, ReplyIs
    <3> QED BY <3>1, <3>2
  <2>10. Over(replies, LAMBDA m : IdsIn(m, "result")) = Each(replies, ids)
    <3>1. [j \in DOMAIN replies |-> IdsIn(replies[j], "result")] = Mapped(replies, ids)
      BY <2>7 DEF Mapped
    <3> QED BY <2>2, <3>1 DEF Over, Each
  <2> HIDE DEF one, ids
  <2>11. Each(replies, ids) = Mapped(replies, one)
    BY <2>2, <2>8, EachOne
  <2>12. Mapped(replies, one) = [j \in 1..Len(answers) |-> answers[j].id]
    BY <2>7, <2>9 DEF Mapped
  <2>13. [j \in 1..Len(answers) |-> answers[j].id] = [j \in 1..Len(calls) |-> calls[j].id]
    BY <2>3
  <2> QED BY <2>5, <2>10, <2>11, <2>12, <2>13 DEF replies
<1>20. ASSUME NEW k \in answering
       PROVE  \E c \in calling : c < k /\ k <= c + Len(Replies(ms, c))
  <2>1. k \in 1..Len(ms) /\ OfType(ms[k], "result") # <<>>
    BY <1>9
  <2>2. PICK i \in 1..n : \E j \in 1..Len(parts[i]) :
          k = off[i - 1] + j /\ ms[k] = parts[i][j] /\ Shows(ts[i], parts[i])
    BY <1>13, <2>1
  <2>3. PICK j \in 1..Len(parts[i]) :
          k = off[i - 1] + j /\ ms[k] = parts[i][j] /\ Shows(ts[i], parts[i])
    BY <2>2
  <2>4. j <= Len(Answering(ts[i])) /\ Answering(ts[i]) # <<>> /\ j \in 1..Len(Answering(ts[i]))
    BY <1>14, <2>1, <2>3
  <2>5. i > 1 /\ Calling(ts[i - 1]) # <<>>
    BY <1>f, <2>4
  <2>6. i - 1 \in 1..n /\ i - 1 + 1 = i
    BY <1>1, <2>5
  <2> DEFINE c == off[i - 1]
  <2>7. c \in calling /\ c \in 1..Len(ms)
    BY <1>15, <2>5, <2>6
  <2>8. Len(Replies(ms, c)) = Len(Answering(ts[i - 1 + 1]))
    BY <1>18, <2>5, <2>6
  <2>9. Len(Replies(ms, c)) = Len(Answering(ts[i]))
    BY <2>6, <2>8
  <2>10. Len(Answering(ts[i])) \in Nat
    BY <1>5
  <2> HIDE DEF c
  <2>11. c \in Nat /\ k = c + j
    BY <2>3, <2>7 DEF c
  <2>12. c < k /\ k <= c + Len(Replies(ms, c))
    BY <2>4, <2>9, <2>10, <2>11
  <2> QED BY <2>7, <2>12
<1> QED BY <1>19, <1>20

\* What is stored as valid is encoded as valid.
LEMMA ReadyPairsHeld == Ready /\ Encodable => PairsHeld
<1> SUFFICES ASSUME Ready, Encodable, stage = "encoded" PROVE PairsHeld
  BY DEF PairsHeld
<1> DEFINE ms == Body.messages
           calling == {i \in DOMAIN ms : OfType(ms[i], "call") # <<>>}
           answering == {i \in DOMAIN ms : OfType(ms[i], "result") # <<>>}
<1>1. host[1] \in Hosts /\ turns = Context(host[1].log)
  BY RequestAgent
<1>2. /\ dialect \in {"anthropic", "gemini", "openai"} /\ turns \in Seq(Turns)
      /\ \A i \in DOMAIN turns : Fits(dialect, turns[i])
      /\ ms = Whole(Encoded(dialect, turns))
  BY RequestBody
<1>3. IsPaired(turns)
  BY <1>1, LogsPaired
<1>4. Valid(turns)
  BY <1>2, <1>3 DEF Valid, Fits
<1> HIDE DEF ms
<1>5. CASE dialect = "openai"
  <2>1. ms = Whole(Encoded("openai", turns))
    BY <1>2, <1>5
  <2>2. /\ \A i \in calling :
             IdsIn(ms[i], "call") = Over(Replies(ms, i), LAMBDA m : IdsIn(m, "result"))
        /\ \A i \in answering : \E c \in calling : c < i /\ i <= c + Len(Replies(ms, c))
    BY <1>4, <2>1, AnsweredBehind
  <2> QED BY <1>5, <2>2 DEF PairsHeld, ms
<1>6. CASE dialect # "openai"
  <2>1. dialect \in {"anthropic", "gemini"}
    BY <1>2, <1>6
  <2>2. AnswersNext(dialect, Whole(Encoded(dialect, turns)))
    BY <1>4, <2>1, AnsweredNext
  <2>3. AnswersNext(dialect, ms)
    BY <1>2, <2>2
  <2> QED BY <1>6, <2>3 DEF PairsHeld, AnswersNext, ms
<1> QED BY <1>5, <1>6

-----------------------------------------------------------------------------
(* The theorems.                                                            *)

\* Whatever builder calls a host makes and in whatever order, the request is
\* that of the agent it registered last under the id it asks for, with every
\* setting's last value, at the endpoint it was given.
THEOREM ConfiguredHolds == ByokSpec => []AsConfigured
BY ReadyInit, ReadyStep, ReadyConfigured, PTL DEF ByokSpec

\* Whatever tools a host registers and in whatever order the map that holds
\* them is iterated, a prompt offers each once, as it was registered last.
THEOREM OfferedHolds == ByokSpec => []ToolsOffered
BY ReadyInit, ReadyStep, ReadyOffered, PTL DEF ByokSpec

\* Whatever a log holds that its provider does not refuse, the body carries each
\* entry once and in order, in its slot, but the kinds that are dropped.
THEOREM CarriedHolds == ByokSpec => []NothingLost
BY ReadyInit, ReadyStep, EncodableInit, EncodableStep, ReadyNothingLost, PTL DEF ByokSpec

\* Whatever is said after a request, short of a system turn, the next one has
\* its system slot, its tools and, at the front, all of its messages but the last,
\* so that a provider that caches prefixes finds this one again.
THEOREM KeptHolds == ByokSpec => []PrefixKept
BY ReadyInit, ReadyStep, EncodableInit, EncodableStep, ReadyPrefixKept, PTL DEF ByokSpec

\* Whatever conversation is valid as stored, with the results of a turn's calls
\* in the next turn, is valid as its provider reads it: a result of each call,
\* under its id or its name, in order and in the place the provider wants.
THEOREM PairedHolds == ByokSpec => []PairsHeld
BY ReadyInit, ReadyStep, EncodableInit, EncodableStep, ReadyPairsHeld, PTL DEF ByokSpec
=============================================================================
