------------------------------- MODULE Runtime -------------------------------
(***************************************************************************)
(* ManchBuilder and the registries of the runtime it builds.  A builder call *)
(* registers an agent, a tool or a channel by its id, or sets the store, the  *)
(* permission policy or the budget; what is registered is a value that this   *)
(* module does not look into.  An optional field is a sequence of no value    *)
(* or of one.                                                               *)
(***************************************************************************)
EXTENDS Integers, Sequences, FiniteSets

Kinds == {"agent", "tool", "channel", "memory", "permission_policy", "max_tool_iters"}

BuilderCall(kind, id, value) == [kind |-> kind, id |-> id, value |-> value]

Empty ==
  [agents |-> <<>>, tools |-> <<>>, channels |-> <<>>,
   memory |-> <<>>, policy |-> <<>>, maxToolIters |-> <<>>]

\* Slip: the first one registered under an id stays.
InsertFirst(map, id, value) ==
  [k \in DOMAIN map \cup {id} |-> IF k \in DOMAIN map THEN map[k] ELSE value]

\* HashMap::insert
Insert(map, id, value) ==
  [k \in DOMAIN map \cup {id} |-> IF k = id THEN value ELSE map[k]]

Register(builder, call) ==
  CASE call.kind = "agent" -> [builder EXCEPT !.agents = Insert(@, call.id, call.value)]
    [] call.kind = "tool" -> [builder EXCEPT !.tools = Insert(@, call.id, call.value)]
    [] call.kind = "channel" -> [builder EXCEPT !.channels = Insert(@, call.id, call.value)]
    [] call.kind = "memory" -> [builder EXCEPT !.memory = <<call.value>>]
    [] call.kind = "permission_policy" -> [builder EXCEPT !.policy = <<call.value>>]
    [] call.kind = "max_tool_iters" -> [builder EXCEPT !.maxToolIters = <<call.value>>]

BuilderOf(calls) ==
  LET after[n \in 0..Len(calls)] ==
        IF n = 0 THEN Empty ELSE Register(after[n - 1], calls[n])
  IN  after[Len(calls)]

SetOr(option, default) == IF option = <<>> THEN default ELSE option[1]

\* DEFAULT_MAX_TOOL_ITERS
DefaultMaxToolIters == 8
Budget(builder) == SetOr(builder.maxToolIters, DefaultMaxToolIters)

\* build refuses a runtime without a store, or that can never call a tool.
Buildable(builder) == builder.memory # <<>> /\ Budget(builder) # 0

\* A map is iterated in an order of its own, the same for as long as it lives.
Orders(map) ==
  {q \in [1..Cardinality(DOMAIN map) -> DOMAIN map] :
     \A i, j \in DOMAIN q : q[i] = q[j] => i = j}

Build(builder, order) ==
  [agents |-> builder.agents, tools |-> builder.tools, channels |-> builder.channels,
   memory |-> builder.memory[1], policy |-> SetOr(builder.policy, "AskOncePolicy"),
   maxToolIters |-> Budget(builder), order |-> order]

\* agent_for, which finds nothing under an id nobody registered.
Knows(manch, id) == id \in DOMAIN manch.agents
AgentFor(manch, id) == manch.agents[id]

\* The tools a prompt offers.
Schemas(manch) == [i \in DOMAIN manch.order |-> manch.tools[manch.order[i]]]
=============================================================================
