------------------------------- MODULE Config -------------------------------
(***************************************************************************)
(* The two configurations of the program, as pure definitions.             *)
(*                                                                         *)
(* The CLI's `config.toml` (smista-cli/src/config) is read from a global   *)
(* and a project file, each completed with the built-in defaults when it   *)
(* is parsed, and the layers are merged section by section and validated.  *)
(* The router's `router.toml` (smista-router/src/config) is one file,      *)
(* completed, overridden by the OpenTelemetry flags and validated.         *)
(* Workspace models the commands that read and write those files.          *)
(***************************************************************************)
EXTENDS Integers, Sequences, FiniteSets

CONSTANTS
    Providers,      \* provider identities
    Models,         \* model references, as in "provider/model"
    ProviderOf,     \* the provider half of each reference
    BuiltInModel,   \* the built-in default model (Ollama's)
    Globs,          \* path patterns
    BadGlobs,       \* the ones that do not compile
    None            \* an unset optional field

ASSUME ConfigAssumption ==
    /\ ProviderOf \in [Models -> Providers]
    /\ BuiltInModel \in Models
    /\ BadGlobs \subseteq Globs

-----------------------------------------------------------------------------
(* `config.toml`                                                           *)

(* PermissionMode, ordered allow < ask < deny.                             *)
Allow == 0
Ask == 1
Deny == 2
Modes == Allow .. Deny

(* An `api_key` is absent, a ${secret:NAME} reference, or a literal.       *)
KeyForms == {"absent", "reference", "literal"}

ClientFields == {"url", "connect_timeout_ms", "request_timeout_ms", "auth_source"}
PreferenceFields == {"auto_apply", "local_only", "no_network", "encrypt_sessions"}
Sections == {"providers", "routing", "classification", "tools", "restricted",
             "blocked", "remote", "local", "client", "auto_start", "preferences"}

(* A route is a model with its fallbacks; a rule adds what it matches.     *)
Route(model, fallbacks) == [model |-> model, fallbacks |-> fallbacks]
Routing(default, rules) == [default |-> default, rules |-> rules]
EmptyRouting == Routing(None, <<>>)

(* The built-in configuration: Ollama and its default model, all else at   *)
(* its type's default.                                                     *)
DefaultConfig ==
    [providers |-> [p \in {ProviderOf[BuiltInModel]} |-> "absent"],
     routing |-> Routing(Route(BuiltInModel, <<>>), <<>>),
     classification |-> 0,
     tools |-> [t \in {} |-> Ask],
     restricted |-> {}, blocked |-> {}, remote |-> None, local |-> None,
     client |-> [f \in ClientFields |-> None], auto_start |-> FALSE,
     preferences |-> [f \in PreferenceFields |-> None]]

(* A parsed document: a section the file leaves out is the one of the      *)
(* built-in configuration (#[serde(default)] on the whole struct).         *)
Parse(doc) == [s \in Sections |-> IF s \in DOMAIN doc THEN doc[s] ELSE DefaultConfig[s]]

Stricter(a, b) == IF a < b THEN b ELSE a

MergeModeUnset(low, high, default, preference) ==
    IF high = None THEN low
    ELSE IF preference /\ low # None THEN Stricter(low, high)
    ELSE high

(* merge_mode: a preference layer can only tighten what is in force.       *)
MergeMode(low, high, default, preference) ==
    IF high = None THEN low
    ELSE IF preference THEN Stricter(IF low = None THEN default ELSE low, high)
    ELSE high

(* merge_tools, tool by tool.                                              *)
MergeTools(low, high, preference) ==
    [t \in DOMAIN low \cup DOMAIN high |->
        IF t \notin DOMAIN high THEN low[t]
        ELSE IF t \in DOMAIN low /\ preference THEN Stricter(low[t], high[t])
        ELSE high[t]]

(* Field by field: the higher layer's value when it has one.               *)
OrElse(high, low) == [f \in DOMAIN low |-> IF high[f] = None THEN low[f] ELSE high[f]]

ReplaceIfNonEmpty(low, high) == IF DOMAIN high = {} THEN low ELSE high

MergeRoutingLow(low, high) == IF low = EmptyRouting THEN high ELSE low

MergeRouting(low, high) == IF high = EmptyRouting THEN low ELSE high

(* merge_privacy: path lists are unioned, modes merged by MergeMode with   *)
(* the defaults ask (remote) and allow (local).                            *)
MergePrivacy(low, high, preference) ==
    [restricted |-> low.restricted \cup high.restricted,
     blocked |-> low.blocked \cup high.blocked,
     remote |-> MergeMode(low.remote, high.remote, Ask, preference),
     local |-> MergeMode(low.local, high.local, Allow, preference)]

MergeTwo(low, high, preference) ==
    LET privacy == MergePrivacy(low, high, preference)
    IN  [providers |-> ReplaceIfNonEmpty(low.providers, high.providers),
         routing |-> MergeRouting(low.routing, high.routing),
         classification |-> IF high.classification = 0 THEN low.classification
                            ELSE high.classification,
         tools |-> MergeTools(low.tools, high.tools, preference),
         restricted |-> privacy.restricted, blocked |-> privacy.blocked,
         remote |-> privacy.remote, local |-> privacy.local,
         client |-> OrElse(high.client, low.client),
         auto_start |-> high.auto_start \/ low.auto_start,
         preferences |-> OrElse(high.preferences, low.preferences)]

(* The layers, lowest first, and which of them is a mere preference.       *)
Layers == <<"defaults", "global", "project", "runtime">>
IsPreference(layer) == layer = "runtime"

(* merge: the layers that are present, folded in order over the defaults.  *)
Merge(ls) ==
    LET Onto(acc, layer) == IF layer \in DOMAIN ls
                            THEN MergeTwo(acc, ls[layer], IsPreference(layer)) ELSE acc
    IN  Onto(Onto(Onto(Onto(DefaultConfig, Layers[1]), Layers[2]), Layers[3]), Layers[4])

(* --- validation: every finding is an error ---                           *)

Finding(condition, code) == IF condition THEN {code} ELSE {}

Routes(routing) == {routing.rules[i] : i \in DOMAIN routing.rules}
                   \cup (IF routing.default = None THEN {} ELSE {routing.default})
ModelsOf(route) == {route.model} \cup {route.fallbacks[i] : i \in DOMAIN route.fallbacks}

CheckReferences(c) ==
    Finding(\E r \in Routes(c.routing) : \E m \in ModelsOf(r) :
               ProviderOf[m] \notin DOMAIN c.providers, "UnknownProvider")

CheckFallbacks(r) ==
    Finding(\E i \in DOMAIN r.fallbacks :
               \/ r.fallbacks[i] = r.model
               \/ \E j \in DOMAIN r.fallbacks : j < i /\ r.fallbacks[j] = r.fallbacks[i],
            "InvalidFallback")

CheckRoutingStructure(c) ==
    Finding(c.routing.default = None, "MissingDefaultRoute")
    \cup UNION {CheckFallbacks(r) : r \in Routes(c.routing)}
    \cup Finding(\E i, j \in DOMAIN c.routing.rules :
                    i < j /\ c.routing.rules[i].name = c.routing.rules[j].name, "DuplicateRule")

Specificity(rule) == (IF rule.intent # None THEN 1 ELSE 0)
                     + (IF rule.paths # {} THEN 1 ELSE 0)
                     + (IF rule.local_only THEN 1 ELSE 0)

RulesOverlap(a, b) == a.intent = None \/ b.intent = None \/ a.intent = b.intent

CheckRuleAmbiguity(c) ==
    LET rules == c.routing.rules
    IN  Finding(\E i, j \in DOMAIN rules :
                   /\ i < j /\ rules[i].priority = rules[j].priority
                   /\ Specificity(rules[i]) = Specificity(rules[j])
                   /\ RulesOverlap(rules[i], rules[j]), "RuleAmbiguity")

CheckGlobs(c) ==
    LET patterns == c.restricted \cup c.blocked
                    \cup UNION {c.routing.rules[i].paths : i \in DOMAIN c.routing.rules}
    IN  Finding(patterns \cap BadGlobs # {}, "InvalidGlob")

CheckInlineSecrets(c) ==
    Finding(\E p \in DOMAIN c.providers : c.providers[p] = "literal", "InlineSecret")

Validate(c) == CheckReferences(c) \cup CheckRoutingStructure(c) \cup CheckRuleAmbiguity(c)
               \cup CheckGlobs(c) \cup CheckInlineSecrets(c)

(* --- provenance: what a preference layer tries to weaken ---             *)

CheckUnsafeOverride(floor, c) ==
    Finding(floor.remote # None /\ c.remote # None /\ c.remote < floor.remote, "UnsafeOverride")

CheckPermissionWidening(floor, c) ==
    Finding(\E t \in DOMAIN c.tools : t \in DOMAIN floor.tools /\ c.tools[t] < floor.tools[t],
            "PermissionWidening")

CheckProvenance(ls) ==
    LET authored == {l \in DOMAIN ls : ~IsPreference(l)}
        floor == Merge([l \in authored |-> ls[l]])
    IN  IF \A l \in authored : ls[l] = DefaultConfig THEN {}
        ELSE UNION {CheckUnsafeOverride(floor, ls[l]) \cup CheckPermissionWidening(floor, ls[l]) :
                        l \in DOMAIN ls \ authored}

ValidateLayers(merged, ls) == Validate(merged) \cup CheckProvenance(ls)

-----------------------------------------------------------------------------
(* `router.toml`                                                           *)

StorageModes == {"embedded", "memory", "remote"}
Timeouts == {"request_timeout_ms", "provider_timeout_ms", "tool_timeout_ms"}
Sizes == {"max_request_body_bytes", "max_context_bytes"}
MaxSaneTimeout == 2     \* one hour, on the model's scale of zero, sane, absurd
BuiltInEndpoints == {"anthropic", "gemini", "openai"}

(* The configuration of a router with an empty or absent `router.toml`.    *)
(* `path` is the directory found under the home directory.                 *)
DefaultRouterConfig ==
    [port |-> 1, host |-> "loopback",
     mode |-> "embedded", path |-> "db", url |-> None,
     local_bootstrap_enabled |-> TRUE,
     timeouts |-> [t \in Timeouts |-> 1], sizes |-> [s \in Sizes |-> 1],
     rate_limit |-> [enabled |-> TRUE, period |-> 1, burst |-> 1],
     cors |-> [enabled |-> FALSE, origins |-> {}],
     otel |-> [enabled |-> FALSE, endpoint |-> "collector", service |-> "router", ratio |-> 1],
     base_urls |-> {}]

ParseRouter(doc) ==
    [s \in DOMAIN DefaultRouterConfig |-> IF s \in DOMAIN doc THEN doc[s]
                                          ELSE DefaultRouterConfig[s]]

(* resolve_opentelemetry: the flags of `smista start` win over the file.   *)
ResolveOpenTelemetry(otel, flags) ==
    [f \in DOMAIN otel |-> IF f \in DOMAIN flags THEN flags[f] ELSE otel[f]]

CheckBinding(c) == Finding(c.port = 0, "InvalidPort")
                   \cup Finding(c.host = "malformed", "InvalidHost")
BindingWarnings(c) == Finding(c.host = "public" /\ c.mode = "embedded", "UnsafePublicBind")

CheckStorage(c) ==
    Finding((c.mode = "embedded" /\ c.path = None) \/ (c.mode = "remote" /\ c.url = None),
            "MissingStorageConfig")

CheckAuth(c) == Finding(c.mode = "remote" /\ c.local_bootstrap_enabled, "LocalBootstrapInRemote")

CheckLimits(c) == Finding(\E t \in Timeouts : c.timeouts[t] = 0, "InvalidTimeout")
                  \cup Finding(\E s \in Sizes : c.sizes[s] = 0, "InvalidLimit")
LimitWarnings(c) ==
    Finding(\E t \in Timeouts : c.timeouts[t] > MaxSaneTimeout, "ExcessiveTimeout")

CheckRateLimit(c) ==
    Finding(c.rate_limit.enabled /\ (c.rate_limit.period = 0 \/ c.rate_limit.burst = 0),
            "InvalidRateLimit")

CheckCors(c) ==
    Finding(c.cors.enabled /\ (c.cors.origins = {} \/ "*" \in c.cors.origins), "UnsafeCors")

CheckOpenTelemetry(c) ==
    Finding(c.otel.enabled /\ (c.otel.endpoint = "" \/ c.otel.service = "" \/ c.otel.ratio \notin {0, 1}),
            "InvalidOpenTelemetry")

ProviderWarnings(c) == Finding(c.base_urls \cap BuiltInEndpoints # {}, "IgnoredProviderBaseUrl")

RouterErrors(c) == CheckBinding(c) \cup CheckStorage(c) \cup CheckAuth(c) \cup CheckLimits(c)
                   \cup CheckRateLimit(c) \cup CheckCors(c) \cup CheckOpenTelemetry(c)
RouterWarnings(c) == BindingWarnings(c) \cup LimitWarnings(c) \cup ProviderWarnings(c)

(* --- what a start does with it ---                                       *)

(* build_router keeps the limiter only if the bucket can be built.         *)
LimiterOn(c) == c.rate_limit.enabled /\ c.rate_limit.period > 0 /\ c.rate_limit.burst > 0

(* build_storage: `url` is the scheme of the address of a remote store.    *)
StorageBuilt(c) == \/ c.mode = "memory"
                   \/ c.mode = "embedded"
                   \/ c.mode = "remote" /\ c.url \in {"ws", "http"}
=============================================================================
