# Manch: a verification project

Manch is a runtime for conversations between a person, AI agents and tools. An
application (the desktop app, a server, another crate) hands the runtime a user
message; the runtime prompts an agent with the session's history, streams the
agent's events to a sink, runs the tools the agent calls, asks the person before
a tool changes anything, and prompts again with the results.

This directory holds TLA+ models of that program, TLC configurations that check
them on small instances, and TLAPS proofs of the results that should hold for
every instance.  `PROJECT.json` is the machine-readable side of this text: it
maps every definition to source lines and lists runs, mutants, findings, hazards
and theorems.  Paths below are relative to the repository.

## 1. The system

| Component | State | Operations | Talks to |
| --- | --- | --- | --- |
| `crates/manch-core` loop (`lib.rs`, `dispatch.rs`) | per call: batch queue, `Buffer`, prompts left | `handle`, `approve`, `handle_with_approver` | agents, tools, policy, store, sink (all traits; all awaited) |
| `crates/manch-core` store (`store.rs`) | `MemStore::entries`, one vector under a mutex | `append`, `assemble_context`, `coalesce_turns` | the loop |
| `crates/manch-core` builder (`builder.rs`) | registries by id | `agent`, `tool`, `build` | the application |
| `crates/manch-protocol` | none | traits, wire types, `ApprovalOption`, `Tier` | everything |
| `crates/manch-llm` (`lib.rs`, `http.rs`, `anthropic.rs`, `openai.rs`, `gemini.rs`, `fireworks.rs`) | per prompt: byte buffer, open calls (`ToolAccum`), stop reason, retry count | builder methods, `Agent::prompt`, `Http::send`, `list_models_at` | provider over HTTP and SSE; the sink |
| `crates/manch-acp` | per prompt: text merged so far, tool names, whether anything was emitted | `Agent::prompt`, permission and notification handlers | an external agent process |
| `apps/desktop/src-tauri` | SQLite connection under a mutex | commands, `send_prompt_stream`, `resolve_agent` | agents, the webview channel |
| `apps/desktop/src` stream (`engine`, `data/useSend.ts`) | event queue, waiter, conversations, busy flag | `TauriEngine.send`, `useSend` | the backend command, its channel |
| `apps/desktop/src` data (`data/queries.ts`, `containers`), `packages/ui` | query cache, active workspace, model select | queries, mutations, the effect of `WorkspaceBar` | the backend commands |
| `apps/server`, `crates/manch-dto`, `packages/*` | none worth modelling | a version endpoint, types, React components | |

How they interact.  Everything in `manch-core` runs inside the caller's task:
`handle` and `approve` are futures that await an agent, a tool, a policy, a store
and a sink in turn, and nothing is locked across those awaits.  Two calls for one
session may therefore interleave at every await point.  A pause is not a
suspended task: `handle` *returns* `AwaitingApproval { pending, options }`, the
application keeps `pending` for as long as it likes, and a later `approve` starts
a new future from it.  The provider agents of `manch-llm` turn a byte stream into
events; a call reaches the runtime only when it is whole.  The ACP agent runs its
own tools in another process and asks for permission by a request handled
concurrently with the prompt.  The desktop app does not go through the loop at
present: it prompts an agent directly with no tools and forwards mapped events
through a channel.

### What is hard here

* **Await points between steps of one batch.**  A flush is several appends; a
  reader or another writer may come in between, any append or emit may fail, and
  the `?` that follows drops what the call had in its locals.
* **A pause that is data.**  The pending call leaves the runtime and comes back;
  it can come back twice, late, after an error, or never.
* **History as a contract with providers.**  Providers reject a call without a
  result, a result without a call, or a call that is not answered in the next user
  turn, so *every* path through a batch has to leave valid history behind.
* **Side effects before bookkeeping.**  A tool runs, then its result is reported,
  then stored: three points at which a failure leaves the others undone.
* **Unbounded models.**  An agent may call tools forever.
* **Streams.**  Frames cut anywhere, calls opened and never closed, streams that
  break, retries that must not repeat output.
* **One conversation, three wire formats.**  What a provider demands of calls and
  results differs, and a mistake shows with some conversations only.
* **Two ends of a channel.**  The command's return and its last events reach the
  page in either order, while the user goes on clicking.
* **A cache in front of a database.**  Answers that were read before a change
  arrive after it.

### What makes each component correct

* *Loop*: a tool that changes something runs only with consent, and no more
  often than it was allowed; a pause holds; history is valid whenever a model reads it; a batch is stored whole or
  not at all; what the user was shown agrees with what is stored; every call into
  the runtime returns, within a bounded number of prompts.
* *Store*: append-only, by session; neighbours of one role fold into one turn.
* *Provider stream*: each call of the stream is reported exactly once, with its
  own arguments and in issue order; exactly one Done, last; nothing is retried once
  output has been emitted; retries bounded.
* *Requests*: the body carries the conversation, calls stand next to their
  results in the provider's way, the prefix stays, and the request is the one the
  host configured, whatever the order of its builder calls.
* *ACP bridge*: text is neither lost nor repeated; the answer to a permission
  request never selects an option the agent could read as an allow unless someone
  allowed it; nothing follows Done.
* *Desktop stream*: every stream ends with one terminal event; no event is lost or
  overtaken by the end of the stream; a reply is filed below its question; the
  drain loop never sleeps through its last wake-up.
* *Desktop data*: when nothing is under way the screen shows the database, in the
  workspace the user chose, with models that can be prompted.

## 2. Modules

| Module | Models |
| --- | --- |
| `TurnLoop` | `Manch::handle`, `approve`, `drive`, `run_batch`, `apply`, `execute`, `Buffer`, `InterceptSink`, `MemStore` |
| `PromptLoop` | what bounds a call into the runtime: the control of `drive` with its budget, the calls of a reply only counted |
| `AtomicHistory` | what the loop promises about history: whole messages, whole batches |
| `LlmPrompt` | one `Agent::prompt` of a provider agent: `Http::send`, `parse_line` of the three dialects, `drain_sse`, `ToolAccum`, `stream_items` |
| `AgentReply` | what `Agent::prompt` promises its sink about tool calls |
| `Requests` | how a stored conversation becomes a request: `coalesce_turns`, `unsupported_content`, `request_body` of the three dialects |
| `Agents` | a provider agent before its prompt: constructors, builder methods, `Http` clients, `pick_base`, the request and where it goes |
| `Runtime` | `ManchBuilder`, `build`, and the registries of the runtime |
| `ByokPrompt` | composes the last three with `LlmPrompt`: a prompt from the host's builder calls to its end |
| `AcpBridge` | one prompt of `AcpCliAgent`: `push_chunk`, titles, `decide_permission`, the end of a prompt |
| `Desktop` | composes `AcpBridge`, or a provider agent as the sink sees it, with `send_prompt_stream`, `map_event`, the engine and `useSend` |
| `Catalogue` | `parse_models` of the four providers, `list_models_with`, `list_models_at` |
| `Database` | every statement of `db.rs` |
| `DesktopData` | composes `Database` and `Catalogue` with `queries.ts`, the pages and the model select |
| `MCTurnLoop`, `MCLlmPrompt`, `MCByokPrompt`, `MCDesktop`, `MCDesktopData` | constants for TLC |
| `Counting` | induction along the natural numbers as a fact about sets |
| `TurnLoopProofs`, `TurnLoopCallProofs`, `TurnLoopHistoryProofs` | proofs about `TurnLoop`: types, ownership, consent, budget, order of results; what happens to a call; history and the refinement |
| `LlmPromptProofs` | proofs about `LlmPrompt`: retries, the stream and the refinement |
| `ByokPromptProofs` | proofs about `ByokPrompt`: what a host configured, and what a conversation becomes |
| `DesktopProofs` | proofs about `Desktop`: permissions, filing, the stream from the agent to the screen |
| `DesktopDataProofs` | proofs about `DesktopData`: the cache, the active workspace, the select, the lists of models |

### TurnLoop

A *turn* is one user message with everything done about it: the `handle` that
starts it and the `approve` calls that resume it.  `pc[t]` is the await point the
turn's current call stands at, and each action runs from one await point to the
next, so overlapping turns interleave exactly where the executor may switch
tasks.

| Model | Code |
| --- | --- |
| `log` | `MemStore::entries` (store.rs); one entry per content block appended |
| `queue[t]` | the `calls` that `run_batch` iterates over, the current one at the head |
| `buf[t]`, `Record` | `Buffer` and `Buffer::record` (dispatch.rs) |
| `appended[t]` | the position in the append loop of `handle` or `Buffer::flush` |
| `fate[t]` | `Batch::{Completed, Cancelled, Suspended}` |
| `iters[t]` | iterations left of `for _ in 0..self.max_tool_iters` |
| `held[t]` | the pending call a turn suspended at |
| `handed` | the pending calls consumers were given (`AwaitingApproval::pending`), and keep |
| `Handle`, `HandleUnknownAgent`, `AppendBlock`, `MessageStored` | `Manch::handle` |
| `Assemble`, `AgentReplies`, `AppendText`, `Exceeded`, `EmitDone` | `Manch::drive` and `InterceptSink` |
| `AnswerUnfit`, `DispatchRead`, `PolicyResolves`, `PolicyAsks`, `BatchEnds` | `run_batch` |
| `Apply` | `dispatch::apply`, from the policy and from `approve` |
| `ReportInProgress`, `CallTool`, `ReportResult`, `ReportRefusal`, `Settle` | `execute` and the refusal path |
| `FlushEntry`, `FlushEnds` | `Buffer::flush`, one append per step |
| `Approve`, `ApproveUnknown` | `Manch::approve` |
| `AgentFails`, `SinkFails`, `PolicyFails`, `AppendFails` | the `?` after each await |

The other variables are histories the properties speak of: who issued a call and
in which prompt, whether a human was asked, how many decisions allowed it, how
often it ran, what the sink was last told.

Abstractions.  A call is an atom with a tier; its arguments are readable or not;
the text of a reply is there or not; results and previews carry no content.  An
agent may reply with any sequence of distinct fresh calls up to `MaxBatch`, with
or without text.  The agent's call ids are assumed distinct: `manch-core` takes
them as given (section 6 says where a provider does not keep that promise).
`handle_with_approver` is `handle` followed by `approve` for each question, all
from one task: its behaviours are behaviours of `TurnLoop`.

Parameters that are switches: `Serial` says that the application runs one turn of
a session at a time (which the README of the repository leaves to it), `Retry`
that it submits a pending call more than once, `Faults` which collaborators may
fail.  `approve` takes whatever pending call it is given and keeps no record of what
it resolved (lib.rs:100-118), so with `Retry` every call in `handed` may be submitted
at any time: after an error, after it ran, and while another `approve` of the same
call still runs.  The model gives each call of `approve` a place in `pc`; a repeated one
takes that of any turn with no call open, so as many of them run at once as there are
turns.  Without `Retry` a pending call is submitted once.  Dropping a call's future at an await point equals the failure there.

### PromptLoop

The `for` loop of `drive` and nothing else: a stage, a number of calls to answer, a
budget.  The agents of this module may call tools in every reply for ever.
`TurnLoop` moves only as `PromptLoop` does (`BudgetedLoop`), with every fault,
overlap and repeated `approve`, so the budget bounds its calls too.

### AtomicHistory

The contract behind `Buffer`: history grows by a block, by a text, or by a whole
batch (its calls, then their results in the same order, each call once).
`TurnLoop` implements it under the mapping `Flushed`: the log without the entries
of a flush that has not ended.  This holds with one turn at a time, pending
calls submitted once and a store that does not fail; the run `overlap` is about the rest.

### LlmPrompt

| Model | Code |
| --- | --- |
| `attempt`, `pause`, `RetryIn`, `Overloaded`, `Unreached`, `Resume` | `Http::send` with `should_retry`, `retry_after`, `backoff` (http.rs); time in half seconds |
| `GivesUp`, `Accepted` | the response or error `send` returns, and the status check of each `prompt` |
| `AnthropicParts`, `OpenAiParts`, `GeminiParts`, `Frames` | what a provider may send next, as far as `parse_line` reads it |
| `Parse`, `PartItems`, `IdOf` | `parse_line`: the items a frame yields, in their order |
| `partial`, `ChunkArrives`, `TailArrives` | the byte buffer of `stream_items` and `drain_sse`: a line is parsed when it is whole |
| `items`, `Handles` and the actions that use it | the inner loop of `stream_items` over what `drain_sse` returned |
| `open`, `StartCall`, `AddArgs`, `EndCall`, `FlushCall` | `ToolAccum`, keyed by the provider's slot; `flush` drains it in any order |
| `Arguments` | `parse_tool_arguments`: `{}`, the parsed value, or null |
| `StreamEnds`, `StreamBreaks`, `HearError`, `SinkFails`, `EmitDone` | how `stream_items` ends |

The provider is the environment.  Its frames are records (text or token counts,
a stop reason, parts of calls); the contents of arguments are reduced to which
call each piece belongs to, so that arguments mixed up between calls differ from
a call's own.  It is assumed to number the calls of one reply apart, to send a
call's pieces in order and none after it closed the call; it may cut the reply
anywhere, also in the middle of a line, and close a call whose arguments are not
complete, as a reply that hits its token limit does.  Lines that are no frame
(comments, `[DONE]`, broken JSON) yield no item and are left out.  A chunk carries
the rest of a cut line and one more frame; a chunk with more is the same sequence
of items.

### AgentReply

The contract between an agent and the loop: a call is reported once, after it
began; Done comes only when every call that began is reported, and is last.
`LlmPrompt` implements it (`ReplyKept`).  It is also what `TurnLoop` takes for
granted when `AgentReplies` hands it a sequence of distinct calls.

### Requests, Agents, Runtime and ByokPrompt

`Requests` reads a log of entries (blocks, calls, results), each known by its place,
and gives the body a provider reads: a system slot and messages made of parts that
say which entries they carry.  So "nothing is lost" and "results follow their calls"
are statements about places.  `Agents` is an agent as a record: `New`, then one
`Configure` per builder method, then `RequestOf`.  A client is a pair of timeouts
that are fixed when it is built, as `reqwest`'s are.  `Runtime` is the builder as a
record of registries, `Insert` being `HashMap::insert`.

`ByokPrompt` puts them in front of `LlmPrompt`.  Its actions are `BuildRuntime`
(`build`, which may refuse), `Handle` (`agent_for`, `assemble_context`),
`RefuseContent` and `BuildRequest` (`unsupported_content`, `request_body`) and
`PostRequest`, after which the steps are those of `LlmPrompt`.  What a host did is
moved into the request when it is sent, so no later step reads it; this keeps the
runs of many hosts from multiplying the states of the stream.

| Model | Code |
| --- | --- |
| `CoalesceTurns`, `Context` | `coalesce_turns`, `MemStore::assemble_context` |
| `Accepts`, `Unsupported` | `unsupported_content`, `unsupported_resource` |
| `AnthropicBody`, `EntryJson` | `request_body`, `entry_json`, `system_blocks` (anthropic.rs) |
| `GeminiBody`, `EntryPart`, `ResolveToolName` | `request_body`, `entry_part`, `resolve_tool_name` (gemini.rs) |
| `OpenAiBody`, `TurnMessages` | `request_body`, `turn_messages` (openai.rs) |
| `Http`, `WithReadTimeout`, ... | `Http::build`, `with_read_timeout`, ... |
| `PickBase`, `ResolveBase` | `pick_base`, `resolve_base`; a base is a text and the slashes behind it |
| `Register`, `Buildable`, `Build`, `Schemas` | `ManchBuilder`, `build`, the list of schemas in `drive` |

Conversations are the ones `TurnLoop` can store: a message of one or two blocks, a
text of an agent, a whole batch, a system entry between them.  `IsLog` and `InOrder`
say that of a log of any length: the roles of calls and results are those of
`Buffer::flush`, the text of a reply precedes its calls, and results come first in the
turn behind them.  Media types are those the providers tell apart, one that none takes,
and none at all.

### AcpBridge

| Model | Code |
| --- | --- |
| `buf`, `PushChunk` | `text_buf`, `push_chunk`; text is a sequence of letters |
| `names`, `Announce`, `Update` | `names` and the handlers of `ToolCall`, `ToolCallUpdate` |
| `emitted`, `Answers`, `Fails` | `emitted`, and the end of `prompt` |
| `Trustworthy`, `Outcomes`, `AskPermission` | `decide_permission` and the request handler |

The agent is the environment: it streams deltas, snapshots of all it said so far, or
deltas and the whole message again, announces and updates tool calls, and asks
permission with any list of options.  It may update a call that it has not announced:
the bridge then has no title to fill in, and a blank one goes on to the page.  `given`
holds the titles a call was given, `None` where a message left one out.  `said` is what it said, whatever the chunks
looked like; `blurred` records that a delta could not be told from a repeat.

### Desktop

One step is one task of the page or one resumption of the generator.  `out` is what
the channel has not delivered, `queue` and `finished` are those of `tauriEngine.ts`,
`gen` is where the generator stands (`asleep` is the await of a notification,
`closing` the await of `done`), `live` is the state `applyEvent` folds.  `rendered`
is the busy flag as the last render saw it, which is the one `send` reads.
`Reload` is the window being loaded again while the backend goes on: conversations
are kept, the stream is not heard again.

### Catalogue, Database and DesktopData

A query of the page is its key, with the last answer (`data`), a fetch in flight, and
whether it is observed; a mutation is a call that goes through `done`, `refreshing`,
`refreshed` and `over`, as `mutationFn`, `onSuccess` of the hook (which returns the
promise of its invalidation) and `onSuccess` of the call follow each other.  A render
with its effects is one step, and it comes when the state differs from what is
rendered.

| Model | Code |
| --- | --- |
| `CreateWorkspace`, ..., `ListModelsAt` | `db.rs`, one statement each; `list_models_at` |
| `Observed`, `PageKeys`, `Read` | which queries a page mounts, and the commands behind them |
| `Arrive`, `Refetch`, `Focus` | React Query as `queries.ts` uses it |
| `Invalidates`, `Invalidate`, `Return` | `onSuccess` of the hooks, and of `mutate` |
| `EffectDue` in `Render` | the effect of `WorkspaceBar` |
| `SelectOf` | the uncontrolled select of `ProviderSettings`, made anew when its key changes |

## 3. Runs

| Run | Question | Instance |
| --- | --- | --- |
| `serial` | with a consumer that runs one turn at a time and a store that works, is history always valid, atomic, folded, agreed with the sink, and is the loop a refinement of `AtomicHistory` and of `PromptLoop`? | 2 turns, calls Read/Draft/unregistered, 2 calls per reply, 2 prompts, 1 decision, every other collaborator may fail |
| `overlap` | what is left with turns that overlap, pending calls submitted again, and every collaborator failing? | 2 turns, Read and Draft call, 2 decisions, also of one call |
| `live` | does every call into the runtime return, if agents never stop calling tools? | `PromptLoop`: 2 turns, 3 iterations, 2 calls per reply, consumers that keep calling |
| `sessions` | does a model see its own session only? (violated) | 2 sessions, 1 turn each |
| `split` | do the calls of *every* batch stay adjacent? (violated) | Read then Draft in one batch |
| `llm_stream` | does every dialect report the calls of a reply once, with their own arguments, and whole calls in order? | 2 calls with 2 and 1 pieces, 6 frames cut anywhere, at most one retry; request, stream, provider and sink may fail |
| `llm_retry` | is the request the one configured, does it carry the conversation in the provider's way; are retries bounded, never after output, and does a prompt return? | every conversation of up to 3 pieces in 3 dialects, up to 3 builder methods of 4 providers in 3 environments, up to 3 calls of a runtime builder; then 8 retries, Retry-After of an hour, one call in 1 frame |
| `llm_order` | are calls reported in issue order? (violated) | 2 OpenAI calls |
| `llm_ids` | are the ids of one reply distinct? (violated) | 2 Gemini calls of one tool |
| `desktop` | is what is shown and filed what the agent said, where it was asked; is the composer freed? | 2 conversations, 2 messages sent, 1 reload, 2 messages of an agent per run, texts of up to 2 letters, 1 tool call with 2 titles or none, updates with one status, 2 option lists |
| `acp_chunks` | is all of a stream of pure deltas shown? (violated) | 3 deltas over 2 letters |
| `workspaces` | does the screen settle on the database, in the workspace the user chose, with models that can be prompted? | 3 ids, 1 provider, 1 page visited, 2 gestures, 5 answers of a provider, one of them a list in another order |

Bounds and why they suffice.  `MaxBatch = 2` is the smallest batch with a call
behind a pause and with an order to get wrong; three calls add the tool that is
not registered and, over two prompts or two turns, a batch behind a batch.
`MaxToolIters = 2` reaches the end of the budget from a loop that has gone round
once.  Two turns are what it takes for one to read, or write into, the other's
batch.  `MaxAnswers = 1` gives `overlap` two decisions, one in the place of each turn,
which may be of one call, at once or one after the other.  In `overlap`,
`MessageBlocks = 0` because greetings touch none of its four properties and
would only multiply the interleavings; `serial` keeps them.  `SYMMETRY` is used
in `overlap` only, over turns of one session, and that run has no liveness
property.

For `LlmPrompt`, two calls are what it takes to interleave or mix up arguments,
and two pieces what it takes to be cut in between; six frames begin and feed both
calls and close one of them, or close both with a piece missing.  Eight retries go
past the sixth, where the backoff stops doubling, and an hour is past the cap of
`retry_after`; the run keeps the stream short because the two parts meet only in
the question whether anything was emitted.

For requests, three pieces are what it takes for a message, a batch and what follows
it, or for a batch between two others; every pair of setters, and a third, decides
whether a later one undoes an earlier one.  Each host asks for the number of retries
the run has, in a dialect the run has, because `LlmPrompt` is given them; the rest of
`HostsOK` says that calls and settings are those the types of the code allow, and
`LogsOK` and `LogsPaired` that logs are as a store holds them.  `LogsPaired` asks of their
turns what coalescing makes of a history that `AtomicHistory` allows, and `TurnLoop` is
proved to implement that one under the hypotheses of `HistoryIsAtomic` (result 12): batches
enter whole, calls first and results behind them in the same order.  A log where two
turns of one session ran at once, or a store failed half way, is outside `PairsHeld`.

For `Desktop`, two conversations and two sends are what it takes to file a reply in
the wrong place or to have one stream's event in the next; one reload ends a stream
in the middle.  Two letters and a text of two tell an order, a repeat and a snapshot
apart, and both option lists put one that cannot be trusted before one that can.

For `DesktopData`, two gestures are a change and what races it (a second change, a
focus, a restart), and three ids allow a workspace to be created beside the first and
another row.  `U32` is 8, so that a window past it wraps.  That run may stop: a user
need not do anything, so it does not check for deadlock.

Fairness (`FairSpec` of `PromptLoop`): weak fairness of each turn's own `Step`.  This says
that an agent, tool, policy, sink or store that was awaited eventually answers and
that the executor keeps polling the future.  `Step` holds no failure, so a call cannot
return merely because something fails, and no step of a consumer, who may never send a
decision.  Nor is there fairness on particular outcomes: an agent may call tools in every
reply for ever, and there is always another call for it to issue, so that `CallsReturn`
holds only because the budget ends the loop; its mutant, a loop that does not count
(`SpendNone`), goes round for ever.  In `TurnLoop` itself the calls an instance
has would run out first; there `BudgetedLoop` says that every prompt spends one
iteration of `PromptLoop`, and that without one left the call ends.  `FairSpec` of `LlmPrompt` is weak fairness of
every step but `StreamBreaks` and `SinkFails`, so that a prompt cannot return
merely because something fails: a provider answers (or a deadline of the client
turns its silence into an outcome), and the sink returns.  That a reply has
finitely many frames is the bound `MaxFrames`; the code sets no limit to a reply
that keeps coming.  `ByokSpec` is the same over the steps before the request.

`DesktopSpec`: weak fairness of the engine's steps, of a render, of the command's
return once its agent returned, and of the end of an agent's prompt.  The last is an
assumption about external agents: nothing on that path has a timeout, so an agent that
never answers keeps the composer busy.  No fairness is put on what an agent streams
nor on the user, and `SendSettles` does not need any.

What the environment is taken to do.  A channel of the desktop keeps its messages in
order, and a timer set when `invoke` resolves fires after the messages sent before it
(the comment at tauriEngine.ts:44-48 rests on this too; nothing in the code checks that
the channel is empty, so `ReplyComplete` shows what the timer is for, not that a timer
of no delay is late enough).  The library of the Agent
Client Protocol runs a handler to its end before it dispatches the next message.
React renders a click before it handles the next one.  React Query starts a fetch when
an observer mounts or the window gets the focus, replaces a fetch in flight on
invalidation unless it is the first of its key, and runs the callbacks of the last
`mutate` only.  Commands that await nothing run in the order they are invoked, and
statements on the local database do not fail.  The user acts on a screen that shows
the state.  The order of a hash map is the same for as long as it lives.  The media
types a provider accepts are those `unsupported_content` lists.

## 4. Proofs

Every theorem holds for arbitrary constants under the assumptions its model states
about them: no bound on turns, calls, batches, budgets, slots, frames, conversations,
sends, reloads or the length of a text.  Where a theorem needs more, it says so:

| Hypothesis | Means | Why it is there |
| --- | --- | --- |
| `~Retry` | a consumer submits each pending call once | `approve` runs and reports the call again otherwise (section 5); `ConsentHolds`, `RunsAtMostOnce`, `PauseStands`, `PromptsValid`, `LoopBudgeted` and what else can do without it does |
| `"append" \notin Faults` | the store works | a flush that fails half way leaves a batch in part, and nothing takes it back |
| `OneAtATime` | the turns are of one session, and its consumer runs one at a time | nothing is locked across an `await`, so a prompt may otherwise read the middle of another's flush |

Each hypothesis is what the run `serial` assumes of its instance; `overlap` is about
what holds without them.

### The loop

1. `TypeCorrect`: `Spec => []TypeOK`.  It contains a real bound, `iters` within
   `0..MaxToolIters`: the prompt budget never underflows.
2. `OwnedCorrect`, with `~Retry`: `Owned` says that the calls in a turn's queue, and the
   one it is suspended at, were issued to that turn.  It is what makes the steps of
   different turns independent.  It follows from `Attributed`, which holds always: the
   calls in a turn's queue are its own, or were handed out and are submitted again.
3. `ConsentHolds`: `Spec => []ConsentBacked`.  `ran[c] <= allowed[c]` is not
   inductive: the step that calls the tool needs one decision in hand, and several
   calls of `approve` may be about to run the same call at once.  `Licensed` counts
   them: the runs of a Draft call and the turns that stand at `starting` or `calling`
   with it (`ArmedBy`) are together no more than its allow decisions.
4. `BudgetHolds`: `Spec => []UnattendedBudget`, from `BudgetKept`: prompts made
   plus prompts left never exceed `MaxToolIters` times the calls into the runtime.
5. `ResultsFollowCalls`: `Spec => []ResultAfterCall`, from `Written`: while a turn
   flushes, the calls of its buffer up to the position it has reached are in the
   log.  Other turns only append, so it survives every interleaving.
6. `PauseStands`: `Spec => []PauseHolds`, with pending calls submitted again, failures
   and overlap.  A
   call behind a pause must not come back by another way, so `Placed` says where
   calls can be: one that was not issued is `Untouched`, the calls behind the head
   of a queue are distinct and untouched, and one set aside (`Aside`) is in no
   queue, no buffer, no consumer's hands and not in the log.
7. `RunsAtMostOnce`: `Spec => []AtMostOnce`, whatever a consumer submits.  A call that
   a human was asked about is a Draft call (`AskedDraft`), and runs as often as it is
   allowed (`Licensed`).  Any other is in one queue only and was not run before
   (`UnaskedOnce`).  `OutcomesStand` (`StatusSettles`, an action property) needs
   `~Retry`; it comes from `Once`: a call about to run, or held for a decision, has
   not run and was not reported.  `Tidy` says that a queue or a buffer is empty outside
   the stages that use it, so an error leaves nothing for a later call to find.
8. `FinishedTurnsAgree` (`FinishedAgrees`), with `~Retry`, from `Reported`: a call
   shown as completed or failed is on its way to the log or in it, one shown as in
   progress is the one its turn is running, and no result is in the log that the
   sink was not told of.  `ResultsWritten` is `Written` for the second half of a
   flush.
9. `BatchesAtomic` (`BatchAtomic`), with `~Retry` and a store that works, from
   `Kept`: whatever ran is in the buffer, in the log, or has just returned; and no
   result of a reply is in the log while its first pass is still handling calls.
   `Rounds` keeps the replies of one turn apart.
10. `PromptsValid` (`HistoryValid`), one turn at a time and a store that works; pending
    calls may be submitted again.
    `OneBusy` is what `Serial` buys; with it the entries that a flush has written
    are the last of the log (`TailInFlight`), so every call of the log is answered
    in the next user turn or is in that tail (`Answers`), and nobody is prompted
    while there is a tail.
11. `BatchesFold` (`BatchFolds`), one turn at a time and `~Retry`, from `Adjacent`: until the
    first pass over a reply ends, the calls of that reply are in the tail only, so
    all of them are written next to one another.
12. `HistoryIsAtomic`: `Spec => AtomicBatches`, the refinement of `AtomicHistory`, under
    all three hypotheses.
    Every step but the last of a flush leaves `Flushed` alone or adds a block or a
    text; the last one adds the calls and the results of the whole buffer
    (`TailInFlight`), which are distinct and new (`Fresh`).
13. `LoopBudgeted`: `Spec => BudgetedLoop`, the refinement of `PromptLoop`, under no
    hypothesis.  Its mapping counts the queue and names the stages, and `Tidy` keeps
    the two together where an error or a pause empties a queue.

### The provider stream

14. `PatienceHolds` and `NothingRepeatedHolds`: `Patient` counts requests against
    retries (a request that cannot be replayed never sleeps, a sleep is at most a
    minute), and `Silent` says that nothing is emitted before a response is
    accepted.  `StreamSteps` confines `stream_items` to the time after that.
15. `StreamCorrect`.  That a call gets its own arguments depends on items that have
    not been handled yet: a piece carries a slot, and whose it is turns on what
    opened that slot.  `Plays(q, a, b)` says that a sequence of items is a legal run
    of the accumulator from `a` to `b` (a run is a function from the places of `q` to
    states of the accumulator), `Meets` that the accumulator has caught up with what
    the provider began and closed.  `Streamed`, the invariant, is that the items
    waiting and then the line that was cut lead from the accumulator as it stands to
    one that meets the provider.  Handling an item takes the first step of the run;
    a chunk appends a run to it, wherever the line was cut.
16. `ArgumentsOwn` (`OwnArguments`), `GeminiInOrder` (`WholeCallsInOrder`) and `TypeCorrect`
    follow; `Accumulated` says that an open call holds the pieces of it that were
    handled and no others.
17. `ReplyIsKept`: `Spec => ReplyKept`, the refinement of `AgentReply`, in every
    dialect.

`NoneApart` is assumed here: `None`, which stands for the absence of an `Option`, is
no open call and no frame.  One bound is the model's own and is in these theorems too:
a frame speaks of at most two calls (`Batches`), so that what `PartsItems` gives is
worked out part by part; a reply has any number of frames.

### The desktop

18. `DenialHolds`: `DesktopSpec => []DeniedStays`, for every list of options, any
    number of prompts and conversations.  `DenialsDeny` is the lemma about
    `decide_permission`: the option it picks is the only one under its id, refuses,
    and its id reads as a refusal or as nothing.  All other steps keep the last answer
    or forget it.
19. `ReplyFiledHolds`: `DesktopSpec => []ReplyFiled`, for any number of conversations,
    sends and reloads and any text.  `QuestionLast` is what makes it inductive: while
    a reply streams, the last message of the conversation it will be filed in is its
    question, because only `Send` and `StoreReply` write there.  `BridgeTyped` and
    `ScreenTyped` carry the types of the texts through `push_chunk` and `applyEvent`;
    `AppendFiles` says that a message added at the end disturbs nothing above it.
20. `StreamsEnd` (`TerminalLast`), from `Ended`: where the five parts of a prompt
    stand together (the agent's task, the command, the channel, the queue and the
    generator).  Until the prompt is `Over` nothing in the stream ends it and nobody
    takes it for finished; from then on it ends with its terminal event until the
    generator has taken that event.
21. `OutcomeHolds` (`OutcomeAgrees`), from `Asked`: while a prompt is under way, or
    failed, no reply to its question is filed anywhere.
22. `ShownHolds` (`ShownAsSaid`), from `Spoken` and `Carded`: what the bridge has
    merged is what the agent said, and the text on the screen, in the queue and in the
    channel is together what it said.  Each title on the screen or on its way is one
    the agent gave, or blank where an update left it out, and each call it spoke of has a
    card or one on its way.  `Titled` says where the title of an announced call comes
    from: its card has one, or an event on its way brings one, and no event about it
    behind that is blank, because from the announcement on the bridge fills titles in.
23. `ReplyIsComplete` (`ReplyComplete`), from these: the generator stops when the
    stream is empty or at its terminal event, which is last, so everything is on the
    screen when the reply is filed.
24. `TypeCorrect` (`TypeOK`).

`DesktopConstantsOK` says that `None` is no card.  `TextOf`, the text of a list of
events, is a recursive function, and what it gives for a list with an event more or
less is proved: `Reached` is induction on a set of numbers, from the existence of a
least element (`WFMin`), which the provers can use where they cannot use the library's
induction theorems.

`TypeOK` of `Desktop` bounds what the agent said by `MaxText` but not what is shown.
An earlier form bounded both, and the attempt to prove it showed that this is an
accident of small bounds: once two chunks of a message could not be told apart, a
repeat of the message may be merged as a new part, and more is shown than was said.

### The desktop's data

25. `DataTypesHold` (`TypeOK` of `DesktopData`), from `Typed`: every id anywhere (in a
    table, an answer, a call, the page) was issued, and each answer has the type of its
    query.  The other results rest on it.
26. `SettledHolds` (`SettledTrue`), from `Current` and `Asking`: a fetch in flight brings
    what the database holds unless an invalidation met it or is due, and so does an
    answer on screen once no fetch is in flight.  A mutation is one step of the database
    and one of its hook, so the proof splits on what each mutation changes (`Mutated`)
    and which key it invalidates.
27. `ActiveHolds` (`ActiveExists`) follows from it and the effect of `WorkspaceBar`.
28. `LastChosenHolds` (`LastChosenActive`), from `Chosen`, `Remembered` and `Announced`:
    no list in flight lacks a workspace that is listed and exists; a workspace created
    is in the list awaited (`Coming`), then in the one on screen (`Shown`), before
    `mutate`'s callback makes it active, so the effect never finds it missing.
29. `SelectHolds` (`SelectShowsUse`), from `Selects`: a select made anew shows the default
    of the two answers it was made from; one that was kept shows what the user picked,
    or has lost its option.
30. `OffersHold` (`OffersTrue`).  What a parser keeps of a response is the recursive
    function `Kept`, proved entry by entry (`Reached`).

`SignsApart` says that the values standing for "no answer" and "failed" are no answers,
and `ResponsesOK` what a JSON response is and how its parts are correlated (a model that
cannot chat does not carry the sign a parser takes for chat).  Two properties were
changed by their proofs.  `SelectShowsUse` was false of lists longer or otherwise ordered
than those of the run, which then were added to it: a list that is asked for again and
begins with another model moves a select whose first pick was not read back (`Outdated`),
and a select that lost its option stays where it fell (`lost`).  `ActiveExists` and
`LastChosenActive` turned out to hold of more than they claimed and now claim it.

### The request

31. `ConfiguredHolds` (`AsConfigured`), from `Ready`: what stands at each stage is computed
    from the host's calls by `BuilderOf`, `Built` and `RequestOf`.  These are recursions along
    the calls and the settings; each field is proved to be the last value of its kind
    (`LastOf`, `LastSet`), call by call.  The proof found the one exception that
    `SameEndpoint` states: a base of slashes alone is empty once trimmed, and the list of
    models is then read elsewhere than prompts go.
32. `OfferedHolds` (`ToolsOffered`): the registry has each name once, with the tool
    inserted last, and the order of the map is any.
33. `CarriedHolds` (`NothingLost`), for every conversation in every dialect.  A body is
    made of sequences of sequences; `Each` is their algebra (of an append, of two
    halves, of one behind the other).  `TurnsOf` shows that coalescing neither loses
    nor moves an entry and leaves turns of one role; a dialect's message carries the entries
    of its turn (`Carried`), and OpenAI, which takes a turn apart into blocks, calls
    and results, keeps their order because a turn has them in order (`EachSorted`).
    `Encodable` adds that what was refused is not encoded.
34. `KeptHolds` (`PrefixKept`): what is said next either begins a turn or goes to the last
    one (`GrownBy`), so the turns before are the same, and so are their messages;
    what the last one becomes begins with all of its own messages but the last
    (`Continues`), since calls and results never share a turn.  A Gemini result's name is
    looked up in the turns before it, which do not change.
35. `PairedHolds` (`PairsHeld`), for every conversation that is valid as stored
    (`LogsPaired`).  What a message shows of its turn (`Tells` for Anthropic and Gemini,
    `Shows` for OpenAI) gives its calls and results, in order; `Placed` says where in
    the body the messages of each turn stand.  One turn is one message for the first two,
    so the results are next (`AnsweredNext`).  For OpenAI the messages collected behind
    a message with calls are exactly the replies of the next turn (`AnsweredBehind`):
    the first message beyond them is of that turn's content or of a later turn, and a turn
    that opens with replies follows one with calls, which is a message of its own.

`Joined`, `Over` and `Those` stand for the community modules' `FlattenSeq`, a map and
`SelectSeq`, whose recursion the provers cannot reach; `EverySequence` is induction along
a sequence, stated with a set instead of an operator.

### What is only model-checked

* `CallsReturn` (of `PromptLoop`), `PromptReturns` and `SendSettles`: liveness under
  fairness is out of TLAPS's reach.  That `TurnLoop` moves as `PromptLoop` does is
  proved.
* The five properties that the code does not have (section 5).

## 5. What was found

* **One store, many sessions** (`sessions`).  `MemStore` ignores the session id it
  is given, on append and on read, so sessions that share a runtime are prompted
  with each other's messages.
* **A suspended batch is split** (`split`).  The comment on `Buffer::record` says
  that the calls of a batch stay adjacent, because a provider rejects it
  otherwise.  A batch that pauses is flushed before the pause, and its pending
  call is stored later by a buffer of its own.  The history stays valid
  (`HistoryValid` holds); the calls are just in two turns.
* **OpenAI calls lose their order** (`llm_order`).  The calls of a reply that are
  still open at its end are drained from a hash map, in any order; `run_batch` then
  runs and stores them in that order.
* **Gemini ids repeat** (`llm_ids`).  An id is made of the tool's name and the
  part's place in its *frame*, so a second call of a tool in a later frame of the
  same reply has the id of the first.
* **A delta dropped** (`acp_chunks`).  `push_chunk` takes a chunk that repeats the end
  of the text for a repeat, and one that begins with all of it for a snapshot, so an
  agent that streams pure deltas loses text whenever a delta happens to look so.

Not runs, but worth knowing:

* A flush that fails in the middle leaves a batch stored in part; all-or-nothing, as
  the comment at dispatch.rs:10-13 has it, is a promise of the buffer only.
* `approve` (lib.rs:100-118) keeps no record of what it has resolved.  A pending call
  that is submitted twice (a double click, after an error, after it ran, or at the same
  time) is run, reported and stored twice.  What holds then is that each run costs an
  allow decision (`ConsentBacked`, `AtMostOnce`); that a call has one outcome and one
  result, which `StatusSettles`, `FinishedAgrees`, `BatchAtomic`, `BatchFolds` and
  `AtomicBatches` speak of, is up to a consumer that submits each pending call once.
  The comment on `approve` promises a fresh budget of `DEFAULT_MAX_TOOL_ITERS` where
  the code uses the configured `max_tool_iters`.
* `list_models_with` is to degrade to the fallback "on any failure" (lib.rs:395-396),
  but an answer with status 200 that is not JSON is an error.  `pick_base` says that
  one trailing slash is trimmed, and trims all; a base of slashes alone is then empty,
  and the list of models is read elsewhere than prompts go (`SameEndpoint`).
* The doc comments of the three encoders say that audio "and the two resource variants
  are still dropped" (openai.rs:249, anthropic.rs:178-180, gemini.rs:172-174).  The code
  sends embedded resources (openai.rs:270, anthropic.rs:199, gemini.rs:188) and drops
  audio and resource links only.  `Dropped`, and `NothingLost` with it, follow the code.
* Tools are offered in the order of a hash map, so the prefix providers cache changes
  when the program starts again (`PrefixKept` is claimed within one runtime).  A
  system entry stored between a call and its result would leave Gemini's result
  without its name; a turn of nothing but dropped blocks becomes an empty message; a
  resource that holds text is refused for want of a media type.
* An external agent is started anew for each prompt and is sent the last user turn
  only, so it remembers nothing of the conversation, although the comment at
  manch-acp lib.rs:243-244 says that it owns its history.  A title an update changed
  may go back to the announced one; an update of a call that was not announced, if it
  brings no title, shows a card without one (manch-acp lib.rs:304-311, agent.rs:63);
  and an update without a status shows a completed
  call as running again (agent.rs:64).
* The text of a reply that fails half way is dropped by `useSend`; text that streams is
  shown in whichever conversation is selected.
* The first load of the list of workspaces, when it is overtaken by a create, is not
  asked for again, and the effect of `WorkspaceBar` then takes the user away from the
  new workspace; a create that returns late overrides a later choice; renaming a
  workspace deleted meanwhile fails and leaves the list as it is.
* A list of models that is asked for again and begins with another model moves the select
  away from a first pick that was not read back; a select made while the saved model is
  not listed shows the first one, and goes on to when the saved one is listed again.
* Without a saved choice the model select shows the first model listed, while prompts
  use the provider's fallback, and that first one cannot be picked.  Saving a key does
  not ask for the models again.  A context window past 2^32 wraps (`v as u32`).
* Deleting a workspace leaves its teams and schedules behind.

## 6. Not modelled

* Text: messages, previews, results, error wording, serialisation of stored turns.
* How an external agent's process is launched (its command line, its environment) and
  which blocks it is sent: pure functions with tests of their own.
* The commands `search`, `cross_verify` and `assign_team_task`, which answer with
  fixed data or are stubs; the search page; the members of a team; what `row_to_team`
  makes of damaged JSON; garbage collection of React Query's cache.
* Layout, themes and most of `packages/ui`: they render state kept elsewhere.
* `apps/server`, `manch-dto`, `packages/api`: a version stub, types, a generator.
* Uniqueness of call ids is an assumption of `TurnLoop`; the run `llm_ids` shows
  where a provider does not keep it.
* Clocks and timeouts as durations (a timeout is an outcome of an attempt), token
  counts, display names.

## 7. Plan

1. The runtime behind the desktop: when the app prompts through `Manch::handle`,
   `TurnLoop` takes the place of `ResolveByok` in `Desktop`.
