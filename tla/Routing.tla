------------------------------ MODULE Routing ------------------------------
(***************************************************************************)
(* How a turn finds its model and talks to it: the providers of the router *)
(* and their cached catalogues, the resolver over what they list, the walk *)
(* down the fallbacks, the streamed and the buffered call of the agent, and*)
(* the mediation of the tools the model asks for.                          *)
(*                                                                         *)
(* A step ends where the code awaits: a listing, the answer of a provider, *)
(* an item of a stream.  The providers themselves are external: they list, *)
(* answer and fail as they like.                                           *)
(***************************************************************************)
EXTENDS Resolver

CONSTANTS
    Turns,            \* turns served by this router
    Workloads,        \* what they ask: a set of functions [Turns -> requests]
    Config,           \* [ollama, providers, compat]: the router's configuration
    Models,           \* what may be listed: instance -> model -> reported facts
    Ttl,              \* ticks a cached catalogue is fresh
    CatalogTimeout,   \* ticks a listing may take
    MaxInternalTurns, \* MAX_INTERNAL_TOOL_TURNS
    MaxRounds,        \* bound: rounds in which every tool was refused
    MaxItems,         \* bound: pieces of text of one stream
    MaxCalls,         \* bound: tools asked for in one answer
    MaxNow,           \* bound: the clock stops here
    MaxChanges        \* bound: models that come or go

ASSUME WorkloadsTyped == \A w \in Workloads : w \in [Turns -> ResolveArgs]

\* estimate_tokens counts the tokens of a content.
ASSUME SizeTyped == \A content \in DOMAIN Size : Size[content] \in Nat

\* An entry says whether its endpoint is local, or takes the default.
ASSUME ConfigTyped == \A c \in Config.compat : c.local \in BOOLEAN

ASSUME BoundsTyped ==
    /\ MaxInternalTurns \in Nat /\ MaxRounds \in Nat
    /\ MaxNow \in Nat /\ MaxChanges \in Nat

\* None is no error, and no text.
ASSUME NoneDistinct ==
    /\ None \notin {"no_route", "override_not_allowed", "fallback_exhausted",
                    "context_window_exceeded"}
    /\ None \notin Seq({"plain", "open", "close"})

VARIABLES
    now,              \* the clock
    offers,           \* what each instance would list now
    changes,          \* how often that changed
    cache,            \* TtlCache of each instance: None or [models, stored]
    req,              \* the request of each turn
    pc,               \* where the turn is
    fetch,            \* its listings: instance -> [state, since, models]
    plan,             \* ResolvedTurn
    at,               \* place in the chain of the plan
    called,           \* instances called by this invocation
    inner,            \* rounds of the agent's own tools
    stream,           \* the TextToolCallStream: [candidate, native, deferred]
    said,             \* text the model has produced in this stream
    sent,             \* text the client has seen in this invocation
    voices,           \* history: whose text it has seen, and in which round
    calls,            \* tools the model asks for
    rounds,           \* refused rounds
    cancel,           \* the turn was superseded
    result            \* how the turn ended

world == <<now, offers, changes>>
turn == <<pc, plan, at, called, inner, stream, said, sent, voices, calls, rounds, result>>
vars == <<now, offers, changes, cache, req, pc, fetch, plan, at, called, inner, stream,
          said, sent, voices, calls, rounds, cancel, result>>

----------------------------------------------------------------------------
(* The providers of the router *)

\* An instance is known by its provider id and where it runs.
Instance(id, local) == [id |-> id, local |-> local]

\* The daemon on this machine has a block of its own.
LocalOllama(config) == IF config.ollama THEN {Instance("ollama", TRUE)} ELSE {}

\* with_configured_provider: the built-in ones are remote.
BuiltIn(config) == {Instance(id, FALSE) : id \in config.providers}

\* with_openai_compat_provider: an entry without an endpoint is skipped.
CompatInstances(config) ==
    {Instance(c.id, c.local) : c \in {d \in config.compat : d.url}}

\* Router::build
Instances == LocalOllama(Config) \cup BuiltIn(Config) \cup CompatInstances(Config)

\* A window and a reply are counted in tokens; a reply may be unbounded.
ASSUME ModelsTyped ==
    \A i \in Instances : \A m \in DOMAIN Models[i] :
        /\ Models[i][m].window \in Nat
        /\ Models[i][m].output \in Opt(Nat)

\* Router::provider prefers the local instance.
Provider(id) ==
    CASE Instance(id, TRUE) \in Instances -> Instance(id, TRUE)
      [] Instance(id, TRUE) \notin Instances /\ Instance(id, FALSE) \in Instances ->
            Instance(id, FALSE)
      [] OTHER -> None

\* Router::fetch_models keeps one promise per id: the remote instance, which comes
\* last, takes the place of the local one.
Promised == {i \in Instances : i.local => Instance(i.id, FALSE) \notin Instances}

\* Only these ask an API and remember the answer.
Cached == {"anthropic", "gemini", "ollama"}

Described(i, key, capabilities, facts) ==
    [local |-> i.local, key |-> key, capabilities |-> capabilities,
     window |-> facts.window, output |-> facts.output]

\* normalize_model and normalize_tag_reference: what a listing does not flag per
\* model is seeded, locality and key belong to the endpoint.
AnthropicModel(i, facts) ==
    Described(i, TRUE, {"streaming", "system_prompt", "tools", "memory"} \cup facts.reports,
              facts)

GeminiModel(i, facts) ==
    Described(i, TRUE, {"streaming", "system_prompt", "tools", "memory", "json_output",
                        "images"} \cup facts.reports, facts)

\* OllamaEndpoint::auth_requirement: the daemon needs no key, the cloud does.
OllamaNeedsKey(i) == ~i.local

OllamaModel(i, facts) ==
    Described(i, OllamaNeedsKey(i), {"streaming", "system_prompt", "json_output"} \cup facts.reports
                           \cup (IF "tools" \in facts.reports THEN {"memory"} ELSE {}),
              [facts EXCEPT !.output = None])

\* The table of the OpenAI models, and the facts that are configured.
OpenAIModel(i, facts) == Described(i, TRUE, facts.reports, facts)
ToDescriptor(i, facts) == Described(i, facts.key, facts.reports, facts)

Descriptor(i, facts) ==
    CASE i.id = "anthropic" -> AnthropicModel(i, facts)
      [] i.id = "gemini" -> GeminiModel(i, facts)
      [] i.id = "ollama" -> OllamaModel(i, facts)
      [] i.id = "openai" -> OpenAIModel(i, facts)
      [] OTHER -> ToDescriptor(i, facts)

\* GeminiProvider::is_chat_model: only these are listed.
IsChatModel(i, model) == i.id = "gemini" => Models[i][model].chat

\* list_models of one instance, from the models it offers.
Listing(i, models) ==
    [ref \in {[provider |-> i.id, model |-> m] : m \in {n \in models : IsChatModel(i, n)}} |->
        Descriptor(i, Models[i][ref.model])]

\* The management API of a provider with keys refuses a request without one.
NeedsKey(i) == i.id \in {"anthropic", "gemini"}

\* TtlCache::lookup
Hit(i) == cache[i] # None /\ now - cache[i].stored < Ttl

\* TtlCache::store
Remember(i, models) == cache' = [cache EXCEPT ![i] = [models |-> models, stored |-> now]]

Static(i) == i.id \notin Cached

\* The catalogue of OpenAI is compiled in, that of a compatible endpoint configured.
StaticCatalog(i) == DOMAIN Models[i]

----------------------------------------------------------------------------
(* Listing the models *)

Idle == [state |-> "idle", since |-> 0, models |-> {}]

Begin(t) ==
    /\ pc[t] = "begin"
    /\ fetch' = [fetch EXCEPT ![t] = [i \in Instances |-> [Idle EXCEPT !.state = "spawned"]]]
    /\ pc' = [pc EXCEPT ![t] = "listing"]
    /\ plan' = [plan EXCEPT ![t] = None]
    /\ at' = [at EXCEPT ![t] = 1]
    /\ called' = [called EXCEPT ![t] = <<>>]
    /\ sent' = [sent EXCEPT ![t] = <<>>]
    /\ UNCHANGED <<world, cache, req, inner, stream, said, voices, calls, rounds, cancel, result>>

Fetched(t, i, state, models) ==
    /\ fetch' = [fetch EXCEPT ![t][i] =
                    [state |-> state, since |-> IF state = "asked" THEN now ELSE 0,
                     models |-> models]]
    /\ UNCHANGED <<world, req, turn, cancel>>

\* The task of one instance runs: a static catalogue, a fresh one, or a request.
\* It runs on when nobody waits for it.
ListModels(t, i) ==
    /\ fetch[t][i].state = "spawned" /\ UNCHANGED cache
    /\ \/ Static(i) /\ Fetched(t, i, "ok", StaticCatalog(i))
       \/ ~Static(i) /\ Hit(i) /\ Fetched(t, i, "ok", cache[i].models)
       \/ ~Static(i) /\ ~Hit(i) /\ NeedsKey(i) /\ i.id \notin req[t].credentialed
          /\ Fetched(t, i, "failed", {})
       \/ ~Static(i) /\ ~Hit(i) /\ (NeedsKey(i) => i.id \in req[t].credentialed)
          /\ Fetched(t, i, "asked", {})

\* The provider answers with what it offers then, and the answer is remembered.
ListAnswers(t, i) ==
    /\ fetch[t][i].state = "asked"
    /\ Remember(i, offers[i])
    /\ Fetched(t, i, "ok", offers[i])

\* The provider fails, or the timeout drops the request.
ListFails(t, i) ==
    /\ fetch[t][i].state = "asked" /\ UNCHANGED cache
    /\ Fetched(t, i, "failed", {})

\* The models of all promises; a failed provider contributes none.
Catalog(t) ==
    LET ok == {i \in Promised : fetch[t][i].state = "ok"}
        lists == {Listing(i, fetch[t][i].models) : i \in ok}
    IN [ref \in UNION {DOMAIN l : l \in lists} |->
            (CHOOSE l \in lists : ref \in DOMAIN l)[ref]]

\* run_turn_inner resolves over the catalogue once every promise has returned.
ResolveTurn(t) ==
    LET p == Resolve(req[t], Catalog(t)) IN
    /\ pc[t] = "listing"
    /\ \A i \in Promised : fetch[t][i].state \in {"ok", "failed"}
    /\ plan' = [plan EXCEPT ![t] = p]
    /\ pc' = [pc EXCEPT ![t] = IF p.error = None THEN "invoke" ELSE "done"]
    /\ result' = [result EXCEPT ![t] = p.error]
    /\ fetch' = [fetch EXCEPT ![t] = [i \in Instances |-> IF i \in Promised THEN Idle ELSE @[i]]]
    /\ UNCHANGED <<world, cache, req, at, called, inner, stream, said, sent, voices, calls, rounds, cancel>>

----------------------------------------------------------------------------
(* Walking down the chain *)

\* From<StatusCode>
CategoryFromStatus(status) ==
    CASE status = 400 -> "invalid_request"
      [] status = 401 -> "invalid_credentials"
      [] status = 403 -> "authentication"
      [] status = 429 -> "rate_limit"
      [] status \in 500..599 -> "provider_unavailable"
      [] OTHER -> "unknown"

\* categorize_message: the most specific marker of the message counts.
Markers == <<"context_length", "model_not_found", "rate_limit", "authentication",
             "invalid_credentials", "timeout">>

CategorizeMessage(found) ==
    LET hits == {i \in DOMAIN Markers : Markers[i] \in found} IN
    IF hits = {} THEN "unknown" ELSE Markers[CHOOSE i \in hits : \A j \in hits : i <= j]

\* message_or
MessageOr(found, fallback) ==
    IF CategorizeMessage(found) = "unknown" THEN fallback ELSE CategorizeMessage(found)

\* category_from_reqwest
CategoryFromTransport(error) ==
    CASE error.kind = "timeout" -> "timeout"
      [] error.kind = "connect" -> "provider_unavailable"
      [] OTHER -> CategoryFromStatus(error.status)

\* category_from_completion, category_from_http: a status with a message, a body that
\* cannot be parsed, an error that the provider words itself, the transport.
CategoryFromCompletion(error) ==
    CASE error.kind = "http" -> MessageOr(error.found, CategoryFromStatus(error.status))
      [] error.kind = "json" -> "invalid_request"
      [] error.kind = "response" -> MessageOr(error.found, "invalid_request")
      [] error.kind = "provider" -> MessageOr(error.found, "unknown")
      [] OTHER -> CategoryFromTransport(error)

Error(kind, status, found) == [kind |-> kind, status |-> status, found |-> found]

\* What a provider may do.
Errors == {Error("http", 429, {}), Error("http", 400, {"context_length", "rate_limit"}),
           Error("http", 401, {}), Error("http", 503, {}), Error("timeout", None, {}),
           Error("connect", None, {}), Error("response", None, {}),
           Error("provider", None, {})}

\* ProviderErrorCategory::is_fallback_eligible
FallbackEligible == {"provider_unavailable", "rate_limit", "timeout", "unknown"}

HasMore(t) == at[t] < Len(plan[t].chain)

End(t, how) ==
    /\ pc' = [pc EXCEPT ![t] = "done"]
    /\ result' = [result EXCEPT ![t] = how]

\* The error ends the turn.
GiveUp(t, category) ==
    /\ End(t, category)
    /\ UNCHANGED <<world, req, fetch, plan, at, called, inner, stream, said, sent, voices, calls,
                   rounds, cancel>>

\* classify_failure: the next model, or the error.
Fail(t, category) ==
    \/ /\ category \in FallbackEligible /\ HasMore(t)
       /\ at' = [at EXCEPT ![t] = @ + 1]
       /\ pc' = [pc EXCEPT ![t] = "invoke"]
       /\ UNCHANGED <<world, req, fetch, plan, called, inner, stream, said, sent, voices, calls,
                      rounds, cancel, result>>
    \/ ~(category \in FallbackEligible /\ HasMore(t)) /\ GiveUp(t, category)

Superseded(t) ==
    /\ End(t, "superseded")
    /\ UNCHANGED <<world, cache, req, fetch, plan, at, called, inner, stream, said, sent, voices,
                   calls, rounds, cancel>>

Ref(t) == plan[t].chain[at[t]]
Serving(t) == Provider(Ref(t).provider)

\* The loop looks at the token before each model.
CancelledBefore(t) == pc[t] = "invoke" /\ cancel[t] /\ Superseded(t)

Goto(t, label) ==
    /\ pc' = [pc EXCEPT ![t] = label]
    /\ UNCHANGED <<world, req, fetch, plan, at, called, inner, stream, said, sent, voices, calls,
                   rounds, cancel, result>>

\* Agent::new loads the memories; a storage that fails is not worth a fallback.
AgentNew(t) == Goto(t, "call") \/ GiveUp(t, "storage")

\* require_api_key: a model behind a key is not built without one, and that is not
\* worth a fallback either.
RequireApiKey(t, i) ==
    \/ i.id \in req[t].credentialed /\ AgentNew(t)
    \/ i.id \notin req[t].credentialed /\ GiveUp(t, "missing_credentials")

\* The constructors of the adapters.  Ollama, and an endpoint that speaks OpenAI's
\* protocol, are also called without a key.
AnthropicModelNew(t, i) == RequireApiKey(t, i)
GeminiModelNew(t, i) == RequireApiKey(t, i)
OpenAIModelNew(t, i) == RequireApiKey(t, i)
OllamaModelNew(t) == AgentNew(t)
OpenAICompatModelNew(t) == AgentNew(t)

ModelNew(t, i) ==
    CASE i.id = "anthropic" -> AnthropicModelNew(t, i)
      [] i.id = "gemini" -> GeminiModelNew(t, i)
      [] i.id = "openai" -> OpenAIModelNew(t, i)
      [] i.id = "ollama" -> OllamaModelNew(t)
      [] OTHER -> OpenAICompatModelNew(t)

\* How a listing fails: a key that is missing, a refusal, the transport, a body that
\* cannot be read.  The client of Ollama does not look at the status.
ListTransport == {"timeout", "provider_unavailable", "unknown"}
KeyedListErrors(t, i) ==
    IF i.id \in req[t].credentialed THEN ListTransport \cup {"invalid_request"}
                                    ELSE {"authentication"}
OllamaListErrors == ListTransport
ListErrors(t, i) == IF NeedsKey(i) THEN KeyedListErrors(t, i) ELSE OllamaListErrors

\* resolve_model: the instance looks the model up in its catalogue, which it lists
\* again when the cached one is no longer fresh.  A model that is not there is not worth a
\* fallback.
ResolveModel(t) ==
    /\ pc[t] = "invoke" /\ ~cancel[t]
    /\ LET i == Serving(t)
           known(models) == Ref(t).model \in models
       IN
       \/ i = None /\ UNCHANGED cache /\ GiveUp(t, "model_not_found")
       \/ /\ i # None /\ (Static(i) \/ Hit(i)) /\ UNCHANGED cache
          /\ LET models == IF Static(i) THEN StaticCatalog(i) ELSE cache[i].models
             IN \/ known(models) /\ ModelNew(t, i)
                \/ ~known(models) /\ GiveUp(t, "model_not_found")
       \/ i # None /\ ~Static(i) /\ ~Hit(i) /\ UNCHANGED cache /\ Goto(t, "relist")

\* The second listing is neither timed nor raced against the cancellation.
Relist(t) ==
    LET i == Serving(t) IN
    /\ pc[t] = "relist"
    /\ \/ /\ NeedsKey(i) => i.id \in req[t].credentialed
          /\ Remember(i, offers[i])
          /\ \/ Ref(t).model \in offers[i] /\ ModelNew(t, i)
             \/ Ref(t).model \notin offers[i] /\ GiveUp(t, "model_not_found")
       \/ /\ UNCHANGED cache
          /\ \E c \in ListErrors(t, i) : Fail(t, c)

\* The call starts, raced against the token: the token is polled first.  Only the
\* model of the plan decides whether the turn is streamed.
BeginCall(t) ==
    /\ pc[t] = "call" /\ ~cancel[t]
    /\ called' = [called EXCEPT ![t] = Append(@, Serving(t))]
    /\ inner' = [inner EXCEPT ![t] = 0]
    /\ calls' = [calls EXCEPT ![t] = {}]
    /\ said' = [said EXCEPT ![t] = <<>>]
    /\ stream' = [stream EXCEPT ![t] = [candidate |-> IF Ref(t).provider = "ollama"
                                                      THEN <<>> ELSE None,
                                        native |-> FALSE, deferred |-> FALSE]]
    /\ pc' = [pc EXCEPT ![t] = IF req[t].sink /\ "streaming" \in plan[t].model.capabilities
                               THEN "open" ELSE "complete"]
    /\ UNCHANGED <<world, cache, req, fetch, plan, at, sent, voices, rounds, cancel, result>>

\* tokio::select! with biased: whatever is pending is dropped.
CancelledDuring(t) ==
    pc[t] \in {"call", "open", "complete", "streaming"} /\ cancel[t] /\ Superseded(t)

\* A call that could not be made, and a stream that could not be opened.
CallFails(t) ==
    /\ pc[t] \in {"open", "complete"} /\ ~cancel[t] /\ UNCHANGED cache
    /\ pc[t] = "complete" => inner[t] < MaxInternalTurns
    /\ \E c \in {CategoryFromCompletion(e) : e \in Errors} : Fail(t, c)

----------------------------------------------------------------------------
(* Agent::complete *)

Tools == {"read_file", "write_file", "shell", "memory", "unknown"}

Internal(asked) == asked # {} /\ asked \subseteq {"memory"}

\* ModelEvent::TextDelta goes to the client; the history notes whose text it is.
Emit(t, text) ==
    /\ sent' = [sent EXCEPT ![t] = @ \o text]
    /\ voices' = IF text = <<>> THEN voices ELSE
            [voices EXCEPT ![t] = @ \cup {[by |-> Ref(t), round |-> rounds[t]]}]

Responded(t, asked, text) ==
    /\ pc' = [pc EXCEPT ![t] = "mediate"]
    /\ calls' = [calls EXCEPT ![t] = asked]
    /\ Emit(t, IF req[t].sink THEN text ELSE <<>>)
    /\ UNCHANGED <<world, cache, req, fetch, plan, at, called, inner, stream, said, rounds,
                   cancel, result>>

\* The answer of the model: text, or tools that the router mediates.  A streaming
\* request gets the text as one delta.
CompleteReturns(t) ==
    /\ pc[t] = "complete" /\ ~cancel[t] /\ inner[t] < MaxInternalTurns
    /\ \E asked \in SUBSET Tools, text \in {<<>>, <<"plain">>} :
        Cardinality(asked) <= MaxCalls /\ ~Internal(asked) /\ Responded(t, asked, text)

\* Mutant: the count starts again.
InternalToolsForever(t) ==
    /\ pc[t] = "complete" /\ ~cancel[t]
    /\ inner' = [inner EXCEPT ![t] = (@ + 1) % MaxInternalTurns]
    /\ UNCHANGED <<world, cache, req, pc, fetch, plan, at, called, stream, said, sent, voices, calls,
                   rounds, cancel, result>>

\* A round of the agent's own tool is executed and fed back.
InternalTools(t) ==
    /\ pc[t] = "complete" /\ ~cancel[t] /\ inner[t] < MaxInternalTurns
    /\ inner' = [inner EXCEPT ![t] = @ + 1]
    /\ UNCHANGED <<world, cache, req, pc, fetch, plan, at, called, stream, said, sent, voices, calls,
                   rounds, cancel, result>>

\* Its tool failed, or the rounds are used up.
InternalToolsFail(t) ==
    /\ pc[t] = "complete" /\ ~cancel[t] /\ UNCHANGED cache
    /\ Fail(t, "unknown")

----------------------------------------------------------------------------
(* Agent::stream, the TextToolCallStream and aggregate_stream *)

\* OllamaTextToolCallDecoder: text that opens an envelope may still become one.
MayMatch(candidate) == candidate # <<>> => candidate[1] = "open"

\* parse_text_tool_calls: an envelope that is complete.
Decodes(candidate) == candidate = <<"open", "close">>

EnvelopeTool == "shell"

Buffered(t) == IF stream[t].candidate = None THEN <<>> ELSE stream[t].candidate

\* Mutant: the buffer is dropped instead of released.
FlushCandidateLost(t) == UNCHANGED <<sent, voices>>

\* flush_candidate: what was held back is released.
FlushCandidate(t) == Emit(t, Buffered(t))

StreamOpens(t) ==
    /\ pc[t] = "open" /\ ~cancel[t] /\ UNCHANGED cache
    /\ Goto(t, "streaming")

Streaming(t) ==
    /\ pc[t] = "streaming" /\ ~cancel[t]
    /\ UNCHANGED <<world, cache, req, fetch, plan, called, inner, rounds, cancel>>

\* push_text: text is told apart only where it is looked at.
PushText(t) ==
    /\ Streaming(t) /\ Len(said[t]) < MaxItems
    /\ \E chunk \in {"plain"} \cup (IF stream[t].candidate = None THEN {}
                                   ELSE {"open", "close"}) :
        LET candidate == Append(Buffered(t), chunk) IN
        /\ said' = [said EXCEPT ![t] = Append(@, chunk)]
        /\ \/ stream[t].candidate = None /\ Emit(t, <<chunk>>) /\ UNCHANGED stream
           \/ /\ stream[t].candidate # None /\ MayMatch(candidate)
              /\ stream' = [stream EXCEPT ![t].candidate = candidate]
              /\ UNCHANGED <<sent, voices>>
           \/ /\ stream[t].candidate # None /\ ~MayMatch(candidate)
              /\ Emit(t, candidate)
              /\ stream' = [stream EXCEPT ![t].candidate = None, ![t].deferred = FALSE]
    /\ UNCHANGED <<pc, at, calls, result>>

\* A call in the provider's own format ends the buffering.
PushToolCall(t) ==
    /\ Streaming(t)
    /\ \E tool \in Tools : calls' = [calls EXCEPT ![t] = @ \cup {tool}]
    /\ Cardinality(calls'[t]) <= MaxCalls
    /\ FlushCandidate(t)
    /\ stream' = [stream EXCEPT ![t].candidate = None, ![t].native = TRUE]
    /\ UNCHANGED <<pc, at, said, result>>

\* Usage waits for the text before it.
PushUsage(t) ==
    /\ Streaming(t) /\ stream[t].candidate # None
    /\ stream' = [stream EXCEPT ![t].deferred = TRUE]
    /\ UNCHANGED <<pc, at, said, sent, voices, calls, result>>

\* finish: an envelope becomes a call, other text is released.
StreamEnds(t) ==
    LET promoted == ~stream[t].native /\ Decodes(Buffered(t)) IN
    /\ Streaming(t)
    /\ stream' = [stream EXCEPT ![t].candidate = None, ![t].deferred = FALSE]
    /\ \/ promoted /\ calls' = [calls EXCEPT ![t] = @ \cup {EnvelopeTool}] /\ UNCHANGED <<sent, voices>>
       \/ ~promoted /\ FlushCandidate(t) /\ UNCHANGED calls
    /\ pc' = [pc EXCEPT ![t] = "mediate"]
    /\ UNCHANGED <<at, said, result>>

\* Mutant: the next model takes over.
StreamBreaksRetry(t) ==
    /\ Streaming(t)
    /\ FlushCandidate(t)
    /\ stream' = [stream EXCEPT ![t].candidate = None, ![t].deferred = FALSE]
    /\ \/ HasMore(t) /\ at' = [at EXCEPT ![t] = @ + 1]
          /\ pc' = [pc EXCEPT ![t] = "invoke"] /\ UNCHANGED result
       \/ ~HasMore(t) /\ End(t, "unknown") /\ UNCHANGED at
    /\ UNCHANGED <<said, calls>>

\* An error is the last item; there is no way back to the chain.
StreamBreaks(t) ==
    /\ Streaming(t)
    /\ FlushCandidate(t)
    /\ stream' = [stream EXCEPT ![t].candidate = None, ![t].deferred = FALSE]
    /\ \E c \in {CategoryFromCompletion(e) : e \in Errors} : End(t, c)
    /\ UNCHANGED <<at, said, calls>>

----------------------------------------------------------------------------
(* Mediation *)

\* ToolsConfig::mode_for
Mode(t, tool) == IF tool \in DOMAIN req[t].modes THEN req[t].modes[tool] ELSE None

\* offered_tools
OfferedTools(t) == {tool \in Tools \ {"unknown"} : Mode(t, tool) # "deny"}

\* tool_changes_files
ChangesFiles == {"write_file", "edit_file"}

\* mediate: the calls that go to the client.
ForClient(t) ==
    {tool \in calls[t] \cap OfferedTools(t) :
        /\ req[t].planning => tool \notin ChangesFiles
        /\ Mode(t, tool) # "deny"}

\* The end of run_turn_inner: an answer, a pause for the client, or another round
\* after every call was refused.
Mediate(t) ==
    /\ pc[t] = "mediate"
    /\ \/ calls[t] = {} /\ End(t, IF req[t].planning THEN "awaiting_approval" ELSE "completed")
          /\ UNCHANGED <<rounds, calls>>
       \/ calls[t] # {} /\ ForClient(t) # {} /\ End(t, "awaiting_tool")
          /\ calls' = [calls EXCEPT ![t] = ForClient(t)] /\ UNCHANGED rounds
       \/ /\ calls[t] # {} /\ ForClient(t) = {} /\ rounds[t] < MaxRounds
          /\ rounds' = [rounds EXCEPT ![t] = @ + 1]
          /\ pc' = [pc EXCEPT ![t] = "begin"]
          /\ calls' = [calls EXCEPT ![t] = {}]
          /\ UNCHANGED result
    /\ said' = [said EXCEPT ![t] = <<>>]
    /\ stream' = [stream EXCEPT ![t].native = FALSE]
    /\ inner' = [inner EXCEPT ![t] = 0]
    /\ UNCHANGED <<world, cache, req, fetch, plan, at, called, sent, voices, cancel>>

----------------------------------------------------------------------------
(* The world around a turn *)

\* A later request supersedes the turn.
Cancel(t) ==
    /\ pc[t] # "done" /\ ~cancel[t]
    /\ cancel' = [cancel EXCEPT ![t] = TRUE]
    /\ UNCHANGED <<world, cache, req, fetch, turn>>

\* What passes while a call runs is seen only at the next listing or lookup: it may
\* as well happen there.
Busy == \E t \in Turns : pc[t] \in {"begin", "listing", "invoke", "relist"}

\* A model is pulled, removed or withdrawn.
OffersChange ==
    /\ changes < MaxChanges /\ changes' = changes + 1 /\ Busy
    /\ \E i \in Instances : ~Static(i) /\ \E m \in DOMAIN Models[i] :
        offers' = [offers EXCEPT ![i] = IF m \in @ THEN @ \ {m} ELSE @ \cup {m}]
    /\ UNCHANGED <<now, cache, req, fetch, turn, cancel>>

\* Time passes; a listing that is waited for is dropped in time.
Tick ==
    /\ now < MaxNow /\ now' = now + 1 /\ Busy
    /\ \A t \in Turns, i \in Instances :
        fetch[t][i].state = "asked" => now < fetch[t][i].since + CatalogTimeout
    /\ UNCHANGED <<offers, changes, cache, req, fetch, turn, cancel>>

----------------------------------------------------------------------------
(* Specification *)

Init ==
    /\ now = 0 /\ changes = 0
    /\ offers = [i \in Instances |-> DOMAIN Models[i]]
    /\ cache = [i \in Instances |-> None]
    /\ req \in Workloads
    /\ pc = [t \in Turns |-> "begin"]
    /\ fetch = [t \in Turns |-> [i \in Instances |-> Idle]]
    /\ plan = [t \in Turns |-> None]
    /\ at = [t \in Turns |-> 1]
    /\ called = [t \in Turns |-> <<>>]
    /\ inner = [t \in Turns |-> 0]
    /\ stream = [t \in Turns |-> [candidate |-> None, native |-> FALSE, deferred |-> FALSE]]
    /\ said = [t \in Turns |-> <<>>]
    /\ sent = [t \in Turns |-> <<>>]
    /\ voices = [t \in Turns |-> {}]
    /\ calls = [t \in Turns |-> {}]
    /\ rounds = [t \in Turns |-> 0]
    /\ cancel = [t \in Turns |-> FALSE]
    /\ result = [t \in Turns |-> None]

List(t) == \E i \in Instances : ListModels(t, i) \/ ListAnswers(t, i) \/ ListFails(t, i)

Invoke(t) == \/ CancelledBefore(t) \/ ResolveModel(t) \/ Relist(t) \/ BeginCall(t)
             \/ CancelledDuring(t) \/ CallFails(t)

Answer(t) == \/ CompleteReturns(t) \/ InternalTools(t) \/ InternalToolsFail(t)
             \/ StreamOpens(t) \/ PushText(t) \/ PushToolCall(t) \/ PushUsage(t)
             \/ StreamEnds(t) \/ StreamBreaks(t)

Serve(t) == Begin(t) \/ List(t) \/ ResolveTurn(t) \/ Invoke(t) \/ Answer(t) \/ Mediate(t)

Next == (\E t \in Turns : Serve(t) \/ Cancel(t)) \/ OffersChange \/ Tick

Spec == Init /\ [][Next]_vars

\* The steps that the router takes by itself.  No more is owed: the clients of the
\* providers have no timeout, and the listing of resolve_model is not cancelled either.
OwnStep(t) ==
    \/ CancelledBefore(t) \/ ResolveModel(t) \/ BeginCall(t) \/ CancelledDuring(t)
    \/ inner[t] = MaxInternalTurns /\ InternalToolsFail(t)

\* The runtime runs a turn that can go on by itself.
FairSpec == Spec /\ \A t \in Turns : WF_vars(OwnStep(t))

----------------------------------------------------------------------------
(* Properties *)

TypeOK ==
    /\ now \in 0..MaxNow /\ changes \in 0..MaxChanges
    /\ \A i \in Instances :
        /\ offers[i] \subseteq DOMAIN Models[i]
        /\ cache[i] # None => cache[i].models \subseteq DOMAIN Models[i]
                              /\ cache[i].stored \in 0..now
    /\ \A t \in Turns :
        /\ pc[t] \in {"begin", "listing", "invoke", "relist", "call", "open", "complete",
                      "streaming", "mediate", "done"}
        /\ pc[t] \in {"invoke", "relist", "call", "open", "complete", "streaming"} =>
                at[t] \in DOMAIN plan[t].chain
        /\ inner[t] \in 0..MaxInternalTurns /\ calls[t] \subseteq Tools
        /\ rounds[t] \in 0..MaxRounds

Resolved(t) == plan[t] # None /\ plan[t].error = None

\* When required context is restricted, the client asked for local models, or the
\* rule is local_only, the model of the plan runs locally: the locality that select
\* read in a listing is that of the instance that Router::provider picks for the call.
LocalFirst ==
    \A t \in Turns : Resolved(t) /\ plan[t].local =>
        /\ Provider(plan[t].chain[1].provider).local
        /\ at[t] = 1 => \A i \in Range(called[t]) : i.local

\* The context of a plan leaves room for the reply of its model, whatever was
\* discardable.
ContextFits ==
    \A t \in Turns : Resolved(t) => Tokens(plan[t].context) <= Budget(plan[t].model)

\* What the request, the rule or the user requires is in the context of the plan,
\* also when the history or the memory holds the same file or the same text.
RequiredKept ==
    \A t \in Turns : Resolved(t) =>
        \A c \in Range(Offered(plan[t].route, req[t])) : c.required =>
            \E d \in Range(plan[t].context) : d.required /\ DedupeKey(d) = DedupeKey(c)

\* In one round of a turn the client reads the text of one model: invoke falls back
\* only before anything was streamed.  Another model may speak into the same answer
\* only in a later round, after every call of the one before was refused and the
\* turn was resolved again.
OneVoice ==
    \A t \in Turns : \A v, w \in voices[t] : v.round = w.round => v.by = w.by

\* No text is lost, doubled or reordered by the buffering for textual tool calls:
\* the client has read a prefix of what the model said, and all of it at the end
\* of the stream unless the text was promoted to a call.
TextKept ==
    \A t \in Turns : stream[t].candidate = None /\ pc[t] \in {"streaming", "mediate"}
                     /\ said[t] # <<>> =>
        sent[t] = said[t] \/ (sent[t] = <<>> /\ Decodes(said[t]) /\ EnvelopeTool \in calls[t])

\* After a turn is superseded, no provider is called and nothing is sent for it.
QuietAfterCancel ==
    [][\A t \in Turns : cancel[t] /\ called'[t] # <<>> =>
            called'[t] = called[t] /\ (sent'[t] = sent[t] \/ sent'[t] = <<>>)]_vars

\* One and the same call of a provider is never answered.
StaysOut(t) ==
    \/ \E l \in {"relist", "open", "streaming"} : <>[](pc[t] = l)
    \/ \E k \in 0 .. MaxInternalTurns - 1 : <>[](pc[t] = "complete" /\ inner[t] = k)

\* An invocation comes to an end, whatever providers fail and however often the
\* model asks for the agent's own tools, unless a call stays out for good: nothing
\* times one out.
InvocationEnds ==
    \A t \in Turns : StaysOut(t) \/ (pc[t] = "invoke" ~> pc[t] \in {"mediate", "done"})

\* A turn that has to stay local never reaches a remote provider, not even through
\* its fallbacks.
LocalStaysLocal ==
    \A t \in Turns : Resolved(t) /\ plan[t].local => \A i \in Range(called[t]) : i.local

\* A local_only rule for a model of the local Ollama daemon is served by it.
LocalOllamaServes ==
    \A t \in Turns :
        /\ plan[t] # None /\ Instance("ollama", TRUE) \in Instances
        /\ req[t].localOnly /\ changes = 0
        /\ fetch[t][Instance("ollama", TRUE)].state = "ok"
        => plan[t].error # "fallback_exhausted"
=============================================================================
