----------------------------- MODULE Catalogue -----------------------------
(***************************************************************************)
(* The models a provider can be asked for: its list-models response parsed  *)
(* in its dialect (parse_models of anthropic.rs, gemini.rs, openai.rs and   *)
(* fireworks.rs), and what stands in for a response that lists nothing      *)
(* (list_models_with, list_models_at).                                      *)
(*                                                                         *)
(* An entry of a response has the fields some dialect reads, None where the *)
(* provider left one out or gave it another type.                           *)
(***************************************************************************)
EXTENDS Integers, Sequences

CONSTANTS
  None,     \* an absent field
  Fallback, \* the id of a provider's FALLBACK_MODEL
  NotFound, \* no such provider
  U32       \* 2^32, what u32 counts modulo (bound: smaller in the runs)

ASSUME CatalogueConstantsOK == U32 \in Nat \ {0}

Dialects == {"anthropic", "gemini", "openai", "fireworks"}

\* ModelInfo::new.
ModelInfo(id) ==
  [id |-> id, window |-> None, tools |-> None, images |-> None,
   reasoning |-> None, kind |-> None]

\* v as u32.
Narrow(v) == IF v = None THEN None ELSE v % U32

\* supports_streaming; methods is the set of methods listed.
SupportsStreaming(e) == e.methods # None /\ "streamGenerateContent" \in e.methods

\* is_chat_model; family is whether the id starts like a chat model's, marker
\* whether it names another modality.
IsChatModel(e) == ~e.marker /\ e.family

\* model_kind.
ModelKind(kind) == IF kind = "EMBEDDING_MODEL" THEN "embedding" ELSE "chat"

AnthropicModel(e) == [ModelInfo(e.id) EXCEPT !.kind = "chat"]

GeminiModel(e) ==
  [ModelInfo(e.id) EXCEPT !.window = Narrow(e.window), !.reasoning = e.thinking,
                          !.kind = "chat"]

OpenAiModel(e) == [ModelInfo(e.id) EXCEPT !.kind = "chat"]

\* Slip, as elsewhere: a plausible mistake that the properties must notice.  A
\* flag left out read as false.
FireworksModelSure(e) ==
  [ModelInfo(e.id) EXCEPT !.window = Narrow(e.window), !.tools = (e.tools = TRUE),
                          !.images = (e.images = TRUE), !.kind = ModelKind(e.kind)]

FireworksModel(e) ==
  [ModelInfo(e.id) EXCEPT !.window = Narrow(e.window), !.tools = e.tools,
                          !.images = e.images, !.kind = ModelKind(e.kind)]

Mapped(entries, Op(_)) == [i \in DOMAIN entries |-> Op(entries[i])]

\* The entries whose places are in the set, in their order.
Kept(entries, places) ==
  LET kept[n \in 0..Len(entries)] ==
        IF n = 0 THEN <<>>
        ELSE IF n \in places THEN Append(kept[n - 1], entries[n]) ELSE kept[n - 1]
  IN  kept[Len(entries)]

Named(entries) == Kept(entries, {i \in DOMAIN entries : entries[i].id # None})

Streaming(entries) == Kept(entries, {i \in DOMAIN entries : SupportsStreaming(entries[i])})

Chatting(entries) == Kept(entries, {i \in DOMAIN entries : IsChatModel(entries[i])})

ParseModels(dialect, entries) ==
  CASE dialect = "anthropic" -> Mapped(Named(entries), AnthropicModel)
    [] dialect = "gemini" -> Mapped(Named(Streaming(entries)), GeminiModel)
    [] dialect = "openai" -> Mapped(Chatting(Named(entries)), OpenAiModel)
    [] dialect = "fireworks" -> Mapped(Named(entries), FireworksModel)

\* fallback_model.
FallbackModel == ModelInfo(Fallback)

\* A response that does not parse is an error, and so no list.
ListModelsWith(dialect, response) ==
  CASE response.kind = "list" ->
         LET models == ParseModels(dialect, response.entries)
         IN  IF models = <<>> THEN <<FallbackModel>> ELSE models
    [] response.kind = "not json" -> None
    [] response.kind = "failed" -> <<FallbackModel>>

ListModelsAt(provider, response) ==
  IF provider \in Dialects THEN ListModelsWith(provider, response) ELSE NotFound
=============================================================================
