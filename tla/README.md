# Verification of smista.ai

smista.ai is a local-first agent: a router that keeps sessions in a database and
sends each phase of a task to a model, and a CLI that runs tools, approves plans
and holds the encryption keys. This directory holds TLA+ modules for the router,
the CLI and the HTTP boundary between them, the TLC configurations that check them
and the TLAPS proofs about them. Paths below are relative to `src/crates/` unless
they start with `docs/`.

## The system

| Component | State it keeps | Operations | What is hard | Module |
| --- | --- | --- | --- | --- |
| Run lock, supersede, settlement (`smista-router/src/orchestrator.rs`, `orchestrator/registry.rs`) | the run-state row (`phase`, `active`), the in-process registry of live turns | `execute`, six continuations, `finish_step`, `settle`, `abort` | requests of one session interleave at every await; `break` and `inject` seize a run that is being served; every path must give the lock back | `RunLock` |
| Turn pipeline and encryption (`orchestrator.rs`, `orchestrator/turn.rs`, `recall.rs`, `persist.rs`) | messages, tool calls, plans, memory, traces, the run-input bundle | recall, record, mediate, pause | the router has no key: writes are deferred over pauses, reads need a round trip, and what a turn knew must survive it | `RunContent` |
| Sessions, accounts, storage, memory tool, retention (`smista-router/src/session.rs`, `auth.rs`, `retention.rs`, `smista-storage`) | all rows | create, update, archive, delete; bootstrap, sign in and out; record and forget; sweep | ownership is checked in one statement and used in the next; cascades; windows at their limit | `Store` |
| Routing, providers, agent, mediation (`smista-router/src/router*`, `orchestrator/invoke.rs`, `smista-providers`) | catalogue caches, the plan of a turn, the stream | list, resolve, invoke, fall back, stream, mediate | stale catalogues, failure after part of a stream, budgets at their limit | `Resolver`, `Routing` |
| Trace, prices, usage (`smista-router/src/trace.rs`, `usage.rs`, `orchestrator/trace_emit.rs`, `cost.rs`) | trace events, routing decisions | record, reseal, report, page | superseded turns write between; lost writes; sweeps between pages | `Ledger` |
| CLI worker and run loop (`smista-cli/src/app.rs`, `app/router_client*`) | pending calls, approvals, the pause it answers | stream, run a tool, answer, break | requests repeated, decided late, left over by a broken stream; bounded channels both ways | `Cli` |
| CLI terminal (`smista-cli/src/app/tui*`) | prompt, lists, transcript | keys, pastes, messages | one prompt is a text, a command or a mention, each with derived state | `Terminal`, `LineEditor` |
| CLI processes, credentials (`smista-cli/src/command/router*`, `credentials*`) | pidfile, port, secrets files, keyring | start, stop, chat, login, edit a secret | nothing is locked; kills between two writes; reused process ids | `Host` |
| CLI configuration, skills, tools (`smista-cli/src/config*`, `command/config*`, `skills*`, `tools.rs`), router configuration | `config.toml` in layers, `router.toml`, `.gitignore`, skill directories | init, check, show, edit, load, discover, run a tool | sections merge by different rules; files change between two reads | `Config`, `Workspace` |
| HTTP client, web middleware (`smista-router-client`, `smista-router/src/web*`) | API key and token cells of a client, rate limiter, the event stream | requests, layers, server-sent events | clones overlap; a chunk may end anywhere | `Wire` |

A client sends `execute` to start a run and a continuation (`tool_results`,
`approval_decisions`, `decrypted`, `sealed`, `inject`, `break`) to answer the pause
the run rests at. The web handler opens the session and hands the request to an
`Orchestrator`, which takes the lock of the run, dispatches to the handler of the
continuation, runs a turn against a provider and writes the next checkpoint. The
router calls nobody back: clients, the database and the provider are all it talks to.

Each module takes its neighbours as external: `RunLock` knows of a turn only that it
ends; `RunContent` serves one request at a time; `Store` takes any command from any
request; `Cli` takes any stream a router could send; `Routing` takes any answer of a
provider. What one module assumes of the next is what the next one's code lets happen.

## Modules

### RunLock: who serves a run

One session, many requests. A request is a process with a program counter; each of
its steps ends where the code awaits the database or the provider, so two requests
interleave exactly where the program lets them.

| State | Code |
| --- | --- |
| `row` | `RunState` of `smista-storage/src/entity/session_run_state.rs`: run, `phase`, `active` |
| `input` | the run-input row: run and `plan_active` |
| `calls`, `plans`, `flushed` | status of the tool-call and plan rows a turn authored; pauses whose deferred rows were written sealed |
| `live`, `cancelled` | `InFlightRegistry`: the live token of each Orchestrator, cancelled tokens |
| `overtaken` | history: a request took the run from one that was serving it, or with a checkpoint that is not the stored one any more |
| `pc`, `kind`, `snap`, `plan`, `next`, `reply` | locals of a request: the row it read (`state` in `advance_streaming`), the phase it is about to write, its answer |

Actions follow the code's order. Admission: `ExecuteAcquire`/`ExecuteBusy` and
`ContinueAcquire`/`ContinueBusy` are the one-statement `acquire_run_lock`; `ReadState`
and `ReadInput` happen before it, unlocked; `Supersede` then `MarkActive` is the
branch of `break` and `inject`. Handlers: one action per continuation and outcome,
`Reject` for `UnexpectedContinuation`, `FlushFails` and `SupersedeFails` for rows that
exist already or not yet. The turn: `InvokeReturns` and `Superseded` are the two ends
of the biased `select!`, after which the token is not looked at again. Settlement:
`Release`, `Restore` (a rejected continuation keeps its checkpoint), `Abort`, `Finish`.
Environment: `Fault(site)` fails a storage call, `Crash` kills the process, `Drop`
drops the handler of a lost connection.

`OrchestratorOf` says which requests share a registry. The instances follow the web
handlers, which build an `Orchestrator` per request (`web/routes/execute.rs:89`,
`continue_run.rs:91`): its registry holds that request's own token and nothing else,
so `break` and `inject` cancel nobody. The turn they take the run from goes on beside
them, and what it writes when it settles lands on whatever row is there by then.
`CheckpointAnswerable` and `DecisionsAreFinal` therefore speak of executions in which
every request that took the run found it free and with the checkpoint it had read
(`~overtaken`), however many others read, were refused, failed or broke off in between.
`AlwaysAnswerable` and `OneUncancelled` say the same without that condition, and fail.

Abstractions: ids are the requests that drew them, the rows of one pause change
together, texts and turn numbers are left out.

### RunContent: what a run stores and what the model is shown

Requests one at a time, in a plaintext or an encrypted session. `history`, `bundle`,
`memory` and `traces` record how each kind of content is stored (clear, placeholder,
sealed); `pending` is what the checkpoint defers; `offer` the `to_encrypt` and
`to_decrypt` maps of the last response, by kind; `turn` the `TurnCx` of the turn being
served. Each handler is one action with everything it writes (flush, reseal, traces,
plan flag) and the turn it starts; the turn is `PauseForDecrypt` or `BuildPrompt`,
then one of `AllDenied`, `PauseForTools`, `PauseForApproval`, `FinishCompleted`, or
`TurnFails` at any point. The client is modelled from the CLI
(`app/router_client/handler/stream.rs`): it seals what the response asked for, may
forget the kinds in `Omissions`, and with `Echoes` repeats the text it sealed.

Texts are numbers in the order they were sent; an assistant message carries the
number of the input it answers.

### Store: the rows, and everybody who works on them

`users`, `tokens`, `sessions`, `rows` and `content` are the tables of
`smista-storage/src/database/surreal/schema.rs`; child tables with a `_content` half
are `PairedTables`. A request runs a command (`cmd`): authentication first, then one
action per database statement or explicit transaction, because that is where the
code awaits; what it read stays in `snap` until a later statement uses it. The
groups of `Next` are the callers: `Account` (`auth.rs` and the routes of accounts),
`SessionRoutes` (create, update, delete), `Lists` (the reads), `TurnWrites` (append,
status, seal, run state), `Memories` (`memory/tool.rs` and `memory_storage.rs`) and
the sweep with its four statements and their failures (`retention.rs`). `NextDay` is
the clock.

Abstractions: each statement is atomic, as SurrealDB makes it; ids are the requests
that drew them; a presented secret is genuine or not; times are days.

### Resolver and Routing: from a request to an answer

`Resolver` holds the stages of `router/resolver.rs` as operators: `Normalize` with
its fuzzy labels, `MatchPolicy` with the specificity of rules, the choice among the
candidates, and the scoring, deduplication, selection and trimming of context. A path,
a word and a content are values that are compared; a glob list is the set of paths it
matches; the edit distance is a constant function.

`Routing` runs a turn over it. `Begin` and the listing actions are
`Router::models` over the cached catalogues of every provider instance (`cache`,
`fetch`; a listing may succeed, fail or exceed the timeout); `ResolveTurn` makes the
plan; `Invoke` and `Answer` are `invoke.rs` with the agent behind it: the fallback
walk, the streamed and the buffered call, the internal tool rounds and the buffering
of text that may be a tool call; `Mediate` ends the turn or starts a refused round.
Providers are external: what they list changes (`OffersChange`), they answer and fail
as they like. `ConfigTyped`, `BoundsTyped` and `NoneDistinct` are what the proofs need
of the constants: the locality of an endpoint is a Boolean, bounds are natural, and
`None` is neither an error nor a text. `said`, `sent` and `voices` are history: what
the model produced, what the client saw of it, and which model spoke in which round. A
turn whose calls were all refused resolves again and streams into the same answer,
possibly from another model (`orchestrator/turn.rs:442`); `rounds` counts these.

### Cli: the worker, the run loop and the channels

`w` is the `RouterClient` worker, `t` the state of the terminal that follows its
messages, `cmds` and `msgs` the two channels, `exit` the cancellation token, `r` the
router's side of the run; what it asks for is replayed in the order of the calls
(`Ascending`, `Replayed`). A handler runs to its end before the task looks at its
channels again, so each handler is one action; messages a handler cannot send because
the channel is full leave the worker `Blocked`, and a command that finds no room leaves
the run loop `Waiting`. After the token is cancelled the worker may still take commands,
since its `select!` is unbiased; it leaves its loop at `LoopStops`, signs out, and stops
with the answer (`SignedOut`). Streams may break off after any event.
Tool calls are numbers with a tool, a permission mode and a shell command in words,
from which `approvals/alias.rs` makes its aliases. `executed`, `approved`, `grants`,
`answer` are history; `held`, `left` and `lost` mark the situations the properties
name as exceptions.

### Terminal and LineEditor: the prompt, and what it promises

`Terminal` has the console's state (`prompt` with its kinds `Text`, `Command` and
`File`, recall, lists, approval cursor, transcript) and one action per key and per
message, each with the drawing behind it. `LineEditor` is the abstract specification:
a text, a cursor, and keys that insert, remove, move, complete or replace.
`PromptEdits` states that `Terminal` implements it, under the mapping
`text <- Rendered(prompt)`, `cursor <- CursorPosition(prompt)`.

### Host: the processes of one machine

A process is an identifier with a program counter; every read or write of the
pidfile, the port and a secrets file is an action of its own. `Crash` kills a process
anywhere; its identifier is free for anything then. `Launch` runs any command of the
instance; a chat starts a router by itself. The keyring may lock. `HostAssumption` says
which entries a user edits by hand: the API key and a provider's key, not the keys of
sessions. `raced` and `torn`
record the overlaps that the code does not exclude, so that the properties can say
what holds without them.

### Config and Workspace: two configurations and a directory

`Config` has no state: parsing a document to its defaults, `Merge` section by section,
the validation of `config.toml` and of `router.toml`, what a start does with the
result. `Workspace` runs the commands on files: `config init` with the rewriting of
`.gitignore` in its three steps, `check`, `show`, `edit`, the loading of layers one
file at a time (`WithLayer`, `Complete`), the discovery of skills, requests built from them, and
the tools of a chat on paths of the workspace. `DocsAssumption` says what a document
may hold: modes are `Allow`, `Ask` or `Deny`, the numbers of the rate limiter natural.
The user with an editor acts between any two steps. `Resolves` is the lexical check of
`resolve_path` (`smista-cli/src/tools.rs:170`): it looks at the components of a path,
and the file operations behind it follow links, so that where a tool call ends up is
not something the module can say.

### Wire: the HTTP boundary

The three backends of the client are written alike; each definition is mapped to one
of them. They differ in the seeding of credentials: the reqwest builder replaces the
cell a clone shares, ureq and isahc write into it. A request passes the layers in the
order they run (the last `.layer` call runs first): query-credential guard, rate
limiter, log, authentication, handler. The streamed turn is a sequence of bytes:
`framed` events, `arrived` bytes, the `buffer` and the `queue` of `sse_events`; a chunk
may end at any byte, the link may be cut, the turn's task may die.

### Ledger: trace, prices and usage

Turns write trace events one at a time, and each write may fail alone. A turn that
completes is three actions or more, as the code has an await behind each: `Returns` (the
call is answered), then the rows it has still to write (`writing`), each drawn a
`created_at` (`trace.rs:372`) in one step and stored by `Insert` in a later one. Rows of
two turns may so be stored in another order than they were stamped, and `events`, which
the database reads by `created_at`, grows in the middle. Stamps are distinct here: the
code orders by them alone, and what it does with two that are equal is the database's
choice. `events` are the stored rows, sealed or clear; `Usage` is the report of
`usage.rs` over them; `pages` the CLI's reading by offset. `ActualCost`, `Aggregate` and
the tally are translated with their options: a price or a count that is not there is not
zero.

## Runs

`tlc -workers 2 -config X.cfg Module`; the module is named in `PROJECT.json`. The runs
that are kept in `PROJECT.json`:

| Run | Instance | States | Shows |
| --- | --- | --- | --- |
| `RunLock` | 3 requests of any kind, two at once, each with its own Orchestrator; a fault at any site, a crash, a dropped handler | 4,124,969 | a set lock has a request that will release it (`LockHasHolder`); unless the run was overtaken, a checkpoint at rest can be answered (`CheckpointAnswerable`) and no plan or call is decided twice (`DecisionsAreFinal`) |
| `RunContent` | plaintext and encrypted, 4 texts, 8 messages, injections, clients that forget any seal | 162,404 | only sealed content is stored (`StoredSealed`), no turn parses the placeholder (`PlaceholderNeverParsed`), an approved plan ends plan mode (`NoPlanAfterApproval`), results reach the model in plaintext sessions (`ModelSeesResults`), sealing leaves nothing clear (`SealedLeavesNothingClear`) |
| `StoreRaces` | two requests, all pairs of commands where one takes away or replaces what the other works on; the sweep with one failure; three days | 1,560,525 | `NoOrphans`, `Paired`, `DeletedStaysDeleted`, `SignedOutStaysOut`, `RetentionKeeps` |
| `Routing` | one turn, requests for each stage of the resolver, three kinds of provider, a catalogue that changes and expires, streams of 3 pieces, 2 internal rounds, a second round after refused calls | 1,034,934 | a local turn resolves to a local instance (`LocalFirst`), the context leaves room for the reply (`ContextFits`), the client's text is the model's (`TextKept`), a round speaks with one voice (`OneVoice`), invocations end unless a provider does not answer (`InvocationEnds`) |
| `RoutingFallback` | a local_only rule and restricted context | violated | `LocalStaysLocal`: see Findings |
| `Cli` | 3 calls (read, edit, an allowed shell command), 3 inputs of the user, a fault, channels of 1 and 2 | 7,104,652 | a tool runs once (`ExecutedOnce`) and approved (`ApprovedOnly`), the worker's answers fit their pause (`AnswersFit`), an idle worker leaves no turn on display (`TuiFollows`), one that waits for a decision has its prompt there (`PromptShown`) |
| `Terminal` | 2 letters, 10 commands, 5 keys, a message | 375,968 | the prompt implements `LineEditor` (`PromptEdits`), derived state is fresh (`DerivedFresh`) |
| `Host` | 3 process ids, 3 launches of 8 commands, a kill, a fault | 1,426,817 | no stray pidfile (`NoneLeftBehind`), no lost secret (`SecretsKept`), no encrypted session without its key (`SessionsReadable`) |
| `Wire` | a client and a clone, reqwest and isahc, 3 requests, a stream | 2,502,317 | the caller sees the events of the turn (`StreamFaithful`), a confirmed sign-out holds (`SignedOutNotHeld`, `RevokedNotServed`) |
| `Workspace` | 2 invocations, 2 changes by the user, 7 configuration files and 2 overrides | 1,077,600 | what `check` accepts loads (`CheckedLoads`), overrides only tighten (`PreferenceTightens`), secrets stay ignored (`SecretsIgnored`), requests offer the skills on disk (`SkillsOffered`) |
| `Ledger` | 2 turns that both complete, a priced and an unpriced model, calls that report all, nothing or half of what they used, an encrypted session | 2,128,487 | the report adds up (`ReportAddsUp`), a completed turn is charged once (`ChargedOnce`), a continuation records its turn's route (`RouteCarried`) |
| `LedgerPages` | 2 turns that stamp and store rows in any order, pages of 2, a sweep | 1,258,927 | pages show all that was there (`PagesComplete`) and repeat an event only behind a late one (`RepeatsAreLate`) |

Bounds. The races of `RunLock` are between a holder, one that takes over and one that
arrives later: three requests, of which two are served at the same time. `RunContent`
needs a first run, a second over sealed history and an injection, and one text more for
runs that failed in between; `MaxMessages` blocks `BuildPrompt` only, where a turn can
still fail. `Store`: a request's statements meet at most one other request and the
sweep; the proofs cover any number. Two invocations, clones or turns meet in the same
way in `Workspace`, `Wire` and `Ledger`, where each of the two turns completes in one
call and the report adds up any two of sealed, clear, priced, unpriced and unreported
events; `Host` has three processes because a chat starts a router while another command
runs, and as many identifiers, so that each is used again. The channels of `Cli` are as
small as their full and empty cases allow; three inputs are a prompt, a decision and
what comes after it. A grant that outlives its session takes more inputs and is left to
the proof (`OnlyApprovedIsRun`). `MaxNow` and `Ttl` of `Routing` let a cache be fresh,
exactly expired and refreshed; its fallback chains are shorter than the bound of the
walk. Deadlock is checked in `RunLock`, `RunContent` and `StoreRaces`; elsewhere the
inputs are bounded and the system rests when they are used up.

Fairness. No provider client sets a timeout, and `router.limits.provider_timeout_ms` and
`request_timeout_ms` are read, validated and used nowhere, although
`docs/configuration/router.md:199` documents the first as the "Provider call timeout".
No fairness is therefore assumed of a provider. `RunLock`: an admitted request takes its
next step (tokio polls every ready task, storage calls return) except at the call of its
provider (`pc = "turn"`), which ends for certain only if its token is cancelled;
`LockReleased` names that case, and nothing is assumed about new requests. `Routing`: a
turn takes the steps that are its own (`OwnStep`), so `InvocationEnds` says that an
invocation ends or waits for one and the same call for good; the listing of a catalogue
to resolve a model is such a call, as it is neither timed nor cancelled there. What the
property excludes is an invocation that goes on for ever by itself: through fallbacks,
or the agent's own tools. `RunContent`: in addition to `RunLock` the client answers a
decrypt pause, which the CLI does without the user (`handle_turn_end`). `Cli`, in
`CliQuit` only: the tasks are polled, the router ends its turns and answers the
sign-out; `select!` chooses at random among its ready branches, so the branch of the
token, ready again and again, is taken (strong fairness of `LoopEnds`, `WorkerExits`,
`Break`). No user is made to press a key.

Exceptions. Some properties name a situation the code does not handle, recorded by a
history variable: `overtaken` in `RunLock`, `lost`, `held` and `left` in `Cli`, `raced`
and `torn` in `Host`. The comments at the properties say which code they are about.

### Further instances

Configurations that are run by hand. Passing:

| Configuration | Properties |
| --- | --- |
| `RunLockLiveness` | `LockReleased` (the lock comes free again and again, or a turn stands at its provider), `BreakUnlocks` (a break behind its reads brings the lock down, also one that a crash left behind) |
| `RunContentPatient` | `PauseAnswerable` (also proved), `UserMessageFirst`, `AskedIsEnough`, `DecryptEnds`, without injections |
| `RoutingContext` | `TypeOK`, `RequiredKept` (required context is in the plan), `QuietAfterCancel` (nothing is called or sent after a cancel was seen); all also proved |

Violated by what the code does, against what a document or a comment says:

| Configuration | What TLC finds |
| --- | --- |
| `RunLockWebSupersede` | With an Orchestrator per request the registry is empty: `break` does not cancel the turn in flight, which goes on and settles (`OneUncancelled`; `docs/technical/execution-protocol.md:133`: "A new client request for a run cancels any in-flight turn for that run"). |
| `RunLockStale` | A continuation reads the row, another one answers the pause and finishes; the first then takes the free lock with its old copy, re-installing the settled checkpoint. |
| `RunLockWedged` | A crash leaves `active` set and nothing at startup clears it; without a break the session is busy for good. |
| `RunContentResults` | In an encrypted session the turn after tool results always pauses to decrypt, and the turn after that starts without them. |
| `RunContentLoop` | After an inject over sealed history the router asks for messages, then for the run input, then for messages again, and the model is never invoked. |
| `RoutingCollision` | With a provider block for Ollama beside the local daemon (the default of `smista-router/src/config/model.rs:125`) both instances have the same name; a `local_only` rule finds the listing of the remote one and fails, although `docs/configuration/cli.md:278` says that "an `ollama/` model resolves to the local instance, never Ollama Cloud". |
| `CliAnswers` | Two calls of one pause that the user decides one by one are posted one by one; the router wants them together ("The results must answer every outstanding call exactly once", `smista-router/src/orchestrator.rs:528`). |
| `CliQuit` | Quitting never ends: the run loop has stopped reading and waits for the worker, which waits for room in the message channel (`smista-cli/src/app.rs:98`, `handler.rs:77`; `QuitEnds`). The channels hold 100 messages; a burst of streamed text can fill them as it fills those of 1. |
| `LedgerUncharged` | Of a turn that calls its model twice only the last call is charged (`EveryCallCharged`; `docs/technical/run-state-machine.md:252`: "on recording usage after an invocation"). |
| `TerminalResume` | The transcript of a resumed session is not printed as far as it is no longer than what was printed before (`docs/usage/cli-commands.md:355`: "press Enter to load its transcript"). |
| `HostPidfile` | Two overlapping starts: the loser removes or overwrites the pidfile of the router that serves (`smista-cli/src/command/router.rs:50`: "re-checks this atomically while acquiring the pidfile"). |
| `WireLogged` | Refusals of the rate limiter and the credential guard are not logged: those layers run outside of the log (`smista-router/src/web.rs:215`: "Logging runs outermost"). |
| `WorkspaceGlobal` | An absent project file is read as `Config::default()` (`smista-cli/src/config/load.rs:60`), whose routing and providers are not empty, so they replace those of the global file (`load.rs:90`: "Missing files are treated as empty layers"). |

## Findings

`RoutingFallback`: a turn that must stay local is sent to a remote provider when its
local model fails before the stream opens. `remaining_fallbacks`
(`smista-router/src/router/resolver.rs:379`) hands on the fallbacks of the policy as
they are; `docs/technical/routing.md:165` says "A `local_only` rule additionally
restricts its **fallback chain** to local models".

Other disagreements met while modelling, each a reachable behaviour of the modules:

- `break` and `inject` cancel nothing: the registry they look in belongs to their own
  request (`web/routes/execute.rs:89`, `continue_run.rs:91`), so the turn goes on to its
  end (`RunLockWebSupersede`).
- A provider that does not answer holds its turn, and the turn the lock, until it is
  overtaken: the documented timeouts are not applied (see Fairness).
- A superseded turn's `abort`, and the `release` of one cancelled after its provider
  call, write the row whoever holds the lock. The first clears the lock of the inject
  that superseded it; the second puts its own pause over the idle state of a break
  (`docs/technical/execution-protocol.md:461`: "`break` lets the run go idle").
- `is_encrypted(&session).await?` at `orchestrator.rs:211` returns with the lock held
  (`orchestrator.rs:158`: "A failure anywhere releases the lock before returning").
- A break of an encrypted run that waits for tools fails: the call rows it wants to
  mark are not stored yet (`docs/technical/run-state-machine.md:55`: "Always accepted").
- The decrypt pause in the middle of an encrypted run records the user message again
  (`orchestrator/turn.rs:219`: "recorded once, on a fresh run's first turn").
- After an inject that came before the run input was sealed, the pause requires a seal
  it does not offer: `PauseAnswerable` fails with `Injects = TRUE`.
- A client that does not repeat the text it sealed (`Echoes = FALSE`) never leaves the
  decrypt pause; `docs/technical/execution-protocol.md:341` does not ask for it.
- Trace and memory rows of a run that was broken off or failed stay readable until a
  later run completes (`docs/technical/run-state-machine.md:148`).
- A model that asks only for refused tools is called again without a bound
  (`orchestrator/turn.rs:442`).
- `required_permissions`, `cost_limit` and `effort` of a rule are never applied
  (`docs/technical/routing.md:179`). `privacy.remote.mode` raises no approval.
- Candidates are filtered by the full window of a model, the context is trimmed to the
  window less the reply: a model may be chosen for which required context then fails.
- Concurrent updates of a session lose one another's fields, because the handler
  writes the whole row it read (`docs/api/http-api.md:342`: "any field you omit keeps
  its current value"). Two concurrent records of a memory key make two rows.
- A session in use is purged if nothing was updated within the window: only an update
  bumps `updated_at`. A sign-out whose token the sweep removed answers with an error.
- Trace and prices name the model the resolver chose, also when a fallback served
  (`orchestrator/turn.rs:399`); counts a provider did not report are stored as 0; only
  a turn that completes is charged (`docs/technical/run-state-machine.md:252`: "on
  recording usage after an invocation"), and refused calls are not recorded (line 254:
  "A `deny`ed tool call is recorded as a `ToolCall`").
- A project file overrides a `deny` of the global file
  (`smista-cli/src/config.rs:10`: tool `Deny` permissions "latch on and are never
  weakened"); the floor holds for runtime overrides only, which `PreferenceTightens`
  checks.
- `cleanup_interval_seconds = 0` is accepted and makes the timer of the retention task
  panic. The configured timeouts, body sizes and CORS origins are validated and not
  applied.

## Proofs

`tlapm X.tla` checks each. What is proved holds for every value of the constants that
satisfies the assumptions of the module. A proof module may be about two components,
whose names then differ (`LedgerInit`, `WireInit`).

`RequestProofs`, first about `RunLock`, for any set of requests, any orchestrators, kinds
and bounds:

| Theorem | Assumes besides | Argument |
| --- | --- | --- |
| `TypeCorrect`: `[]TypeOK` | – | `TypeOK` is not inductive: a handler reads `snap[r].run` and `input.plan`. `Typing` adds that a continuation behind its read has a snapshot, that a request behind its admission has a kind, and that the run input exists once it was read. |
| `PatientClientsExclude`: `[]OneHolder` | no `inject`, no `break` | strengthened by `HolderLocks`: a request between its acquisition and its release implies that the durable lock is set |
| `LockNeverOrphaned`: `[]LockHasHolder` | no drop, no `is_encrypted` or `rollback` fault | inductive with `Typing`: each step that stops holding writes the row unlocked; the property itself speaks of executions without a crash |
| `CheckpointsStayAnswerable`: `[]CheckpointAnswerable` | – | any number of requests at the same time. `Sound == ~overtaken => Settled`: until the run is overtaken one request holds it (`OneHolder`), what it read is the row it took over, and the pause it answers or writes back is open; the requests that only read or were refused wrote nothing (`OthersRest`), and a turn that has stored nothing is named by no checkpoint |
| `DecidedOnce`: `DecisionsAreFinal` | – | the same invariant: a decision is taken for the calls and plans of an open pause |

Without `~overtaken` both fail: a request that read the checkpoint, waited, and then took
the free run re-installs it (`RunLockStale`).

`RequestProofs`, then about `Wire`, for any handles, clones, calls and seeded tokens on
each of the backends, and any streamed turn:

| Theorem | Argument |
| --- | --- |
| `SignedOutForGood`: `[]SignedOutNotHeld` | `MintedOnce`: every token that is held, presented or handed out was minted, and handed out once; `Undelivered`: a token in an answer that nobody took is nowhere else; `SignOutCloses`: a sign-out that was confirmed closed its token for good |
| `ClosedTokenNotServed`: `[]RevokedNotServed` | the same invariant, `IInv`, with `DeadStays`: a request that presents a closed token gets no further than `authenticate` |
| `StreamIsFaithful`: `[]StreamFaithful` | `StreamInv`. `Buffered`: while the client reads, it holds back the bytes of the record that has not arrived whole; `InOrder`: what was yielded or queued are the items of the events, up to a failure; `Closing`: what a finished stream ended with. `NextByte` and `Drained` say what `DrainRecords`, a fold over bytes, makes of any part of a body that starts with a record |

The stream proof also shows that the end of the body closes only the stream of a turn
that died (`CloseKeeps`): otherwise `turn_end` was yielded before it.

`RunProofs`, first about `RunContent`, for any number of texts and messages and any seals
clients forget:

| Theorem | Assumes besides | Argument |
| --- | --- | --- |
| `ContentTypeCorrect`: `[]TypeOK` | – | strengthened by `RunStored`: a run that exists has a stored input, and a turn runs only for such a run |
| `OnlySealedIsStored`: `[]StoredSealed` | – | an authored message of an encrypted run is deferred, never stored; flushing stores rows sealed |
| `PlaceholderIsReplaced`: `[]PlaceholderNeverParsed` | – | strengthened by `PlaceholderIsEncrypted`: only an encrypted run has a placeholder, so the continuation that starts the next turn had to seal it |
| `ApprovalLeavesPlanMode`: `[]NoPlanAfterApproval` | – | strengthened by `PlanModeLeft`: after the approval neither the stored run input nor the turn in flight is in plan mode |
| `PausesCanBeAnswered`: `[]PauseAnswerable` | no `inject` | strengthened by `PlaceholderRides`: while the run input is the placeholder, the turn in flight is the one whose pause carries it out. An injection breaks this: its turn does not own the run input |
| `SealingIsComplete`: `SealedLeavesNothingClear` | clients forget no memory and no trace | `ClearIsOffered`: the pause of a completed run asks for every row that is stored in clear |
| `PlainUserMessageOnce`: `[](encrypted \/ UserMessageOnce)` | – | `RecordedOnce`: a turn that is still to record its input is about a text no row has; encrypted sessions do record it again (see Findings) |
| `ResultsReachTheModel`: `[]ModelSeesResults`, `InputReachesTheModel`: `[]ModelSeesInput` | – | in a plaintext session, `PlainRun` (nothing is sealed or deferred, so no decrypt pause) and `TurnServesAnswer` (the turn in flight is the one the last answer started) |

`RunProofs`, then about `Ledger`, for any turns, models, tasks, prices and counts, any
size of a page and any bounds:

| Theorem | Argument |
| --- | --- |
| `TypeCorrect`: `[]LedgerTypeOK` | part of `Booked`, with the ids of the rows, which increase along the trace |
| `TurnsChargedOnce`: `[]ChargedOnce` | `Charged`: a turn is billed for the one call that completes it, and its one cost event says what that call used |
| `RoutesCarried`: `[]RouteCarried` | inductive with `Routed`: a turn that waits has its decision stored, and only the decision of a later turn can hide it |
| `PagesAreComplete`: `[]PagesComplete` | `ReadSoFar`: of the events that were there when the reading began, none stands before the offset unread; a row stored late, in front of the offset, moves others behind it and never in front |
| `ReportsAddUp`: `[]ReportAddsUp` | not an induction over steps: in any state of the right types, the tallies that `Aggregate` folds are those of the events (`AggregateSoFar`) |

The inductive invariant is `Booked`, every part of it at once for every turn.

`FoldFacts` has what these proofs need about folds. The library's induction theorems
take a predicate as an operator, which the provers cannot instantiate; `Least` finds
the first index of a set, and `UpTo` is induction up to a bound stated with a set in
place of the predicate. `FoldTable` proves
that the table which `FoldLeft` chooses exists, for a step given as a function, and
`FoldSoFar` that its values follow each other element by element; `FoldElements` and
`FoldStays` are the same for a step that looks at the element only, and for what every
value of a fold has in common. `CostsSoFar`, `TotalSoFar`, `AggregateSoFar` and `Drained`
apply them, `DedupeSoFar`, `TokensSoFar`, `PartSoFar` and `KeepFits` of `RoutingProofs`,
and `MatchesTyped` of `HostProofs`.

`StoreProofs`, for any number of requests, any workload, any windows, any number of
failures and any database the router can have left behind (`InitialAssumption`):

| Theorem | Argument |
| --- | --- |
| `StoreTypeCorrect`: `[]TypeOK` | part of `IInv` |
| `NothingOrphaned`: `[]NoOrphans` | a write that comes after its session is gone is refused by the statement itself; a cascade removes the children in the transaction that removes the session |
| `PairsStayTogether`: `[]Paired` | every statement changes both halves |
| `DeletedForGood`: `DeletedStaysDeleted` | only `CreateSession` adds a session, under an id of its own; `WriteUpdate` needs the row |
| `OnlyOutdatedIsPurged`: `RetentionKeeps` | a cascade acts for a user who owned the session when it was checked, and sessions do not change owner |
| `SignedOutForGood`: `SignedOutStaysOut` | a token whose sign-out was answered is revoked or gone, and its id is never drawn again |

The inductive invariant is `IInv == TypeOK /\ NoOrphans /\ Paired /\ Fresh /\ \A r :
Sound(r)`. `Fresh` says that an id a request has not drawn yet names nothing; `Sound(r)`
that what request `r` has read still holds as far as its next statement relies on it:
a session it checked is its user's or gone, a row it read is the same row or gone, a
token it revoked stays so. Ids are used once, so "or gone" is stable. `OthersStaySound`
proves once that a step which keeps owners, rows and revocations keeps every other
request sound; each action then only accounts for itself.

`RoutingProofs`, for any configuration, policy, requests and models, chains and streams
of any length:

| Theorem | Argument |
| --- | --- |
| `LocalModelsFirst`: `[]LocalFirst` | `ResolveListed`: the first model of a local plan was listed, as local; `ListedServes`: a listing with that name and locality comes from the instance that `Router::provider` picks, because a remote instance takes the promise of its local namesake |
| `TextIsKept`: `[]TextKept` | `Kept`: either nothing is held back and all was sent, or all that was said is held back and nothing was sent |
| `OneModelSpeaks`: `[]OneVoice` | `OneEach`: all that was heard in the round a turn is in came from the model it is calling, nothing was heard of it before its stream opened (`Silent`), and nothing of rounds to come |
| `SupersededIsQuiet`: `QuietAfterCancel` | each step that calls or sends looks at the token |
| `ContextsFit`: `[]ContextFits` | `ResolveFits`: whatever passes through `Dedupe`, the ranking and the two passes of `Keep` fits the budget of the model it was trimmed for (`KeepFits`, `FinalizeFits`); `Listed`: what a turn was told is listed are models of that instance, so their sizes are numbers (`CatalogTyped`) |
| `RequiredIsKept`: `[]RequiredKept` | `ResolveKeeps`: a required candidate that is merged into another leaves a required one for the same content (`MergedKeeps`, `DedupeKeeps`), and a plan exists only if no required candidate was left out (`RequiredKeeps`) |
| `RoutingTypeCorrect`: `[]TypeOK` | with `Remembered`: caches and offers hold models that may be listed |

The invariant is `Served == Shapes /\ \A t : Silent(t) /\ Kept(t) /\ Planned(t)`, where
`Planned` says that a turn that talks to models is at a place of the chain of its plan
and that, at the first place, it called only the first model. `OnlyOne` proves once that
a step of one turn leaves the others as they are. What `CHOOSE` finds among the indices that
match is the first of them (`Least`). The two theorems about context assume besides
that contents have a size (`SizeTyped`) and models a window (`ModelsTyped`).

`CliProofs`, for any set of calls, policies, words and bounds:

| Theorem | Argument |
| --- | --- |
| `ClientTypeCorrect`: `[]TypeOK` | `Typing`, which also types the messages and commands under way |
| `RunOnce`: `[]ExecutedOnce` | `Once`: a pending call has not been run, and one that was has its result at hand as long as the stream may ask for it again; `Used` and `Fed`: what is pending or run was asked for by the router |
| `AnswersAreWhole`: `[]AnswersFit` | `SealsHeld`: a worker that waits for the user at the end of a pause holds its seals, also while the program quits; one that opens a stream does not wait |
| `OnlyApprovedIsRun`: `ApprovedOnly` | `Accepted`: what is accepted in a session was granted in it; `Decided`: a decision in the channel is one the user made, for this session or for a call no longer pending; `Prompted`: prompts are about calls the router asked for; `NoSession`: without a session nothing is accepted |

The invariant is `IInv == Typing /\ Execution /\ Approval`.

`HostProofs`, first about `Host`, for any processes, launches, scopes and edits:

| Theorem | Argument |
| --- | --- |
| `PidfileNamesTheRouter`: `[]ServingNamed`, `NoPidfileIsLeft`: `[]NoneLeftBehind` | `Pidfiles == Roles /\ Alone /\ Named /\ NoneLeftBehind`: what a process is doing says whether it holds the pidfile or the port; unless starts overlapped, one process holds the pidfile, and it names the one that wrote it |
| `FinishedEditsAreKept`: `[]SecretsKept` | `Files`: unless edits of a file overlapped or one was killed on it, the one that edits it read what the edits before it asked for |
| `SessionKeysAreStored`: `[]SessionsReadable` | `KeyFirst`: a chat that is about to create a session has stored its key, and an edit under way does not take it away |

`HostProofs`, then about `Terminal`, for any letters, commands, directories, pastes and
bounds:

| Theorem | Argument |
| --- | --- |
| `PromptIsEditor`: `PromptEdits` | the refinement: `TerminalInit` is an empty line, and every step of `TerminalInv /\ [TerminalNext]` is a step of `LineEditor` on the rendered text or leaves text and cursor alone (`TerminalStep`, `EditorStep`) |
| `MentionsFresh`: `[]DerivedFresh` | `GoodPrompt` and `Matched`, which every key restores whatever kind of prompt it leaves |
| `TranscriptIsShown`: `[]TranscriptShown` | `ShownOk`: the printed count is the length of the transcript, and the screen is the transcript unless a session was resumed |
| `TerminalTyped`: `[]TerminalTypeOK` | the other parts of the invariant |

The proof has three layers. Facts about parts of sequences come first (`Splice`, `Removal`,
`SpliceBehind`, `RemovalBehind`): the rendered text of a command has a slash in front of
its input, so one edit has to be compared at two places. Then each operation of `prompt.rs`
is related to the rendered text: `PushShown` says that a letter is inserted at the cursor
for each kind of prompt, `BackspaceShown` and `DeleteShown` that one is removed also where
the prompt becomes a text again, `PushStrShown` the same for pastes, `AcceptFileShown` that
only the part behind the `@` is replaced. Last, each action keeps
`TerminalInv == PromptOk /\ RecallOk /\ ViewOk /\ TurnOk /\ ShownOk`
and edits the line. `PromptEdits` alone is not inductive: that a mention begins behind an
`@` in the text is what makes its completion a replacement behind the `@`.

`WorkspaceProofs`, for any documents and any number of invocations and changes:

| Theorem | Argument |
| --- | --- |
| `CheckedFilesLoad`: `[]CheckedLoads` | not an induction: the merge of valid layers is valid, section by section |
| `OverridesOnlyTighten`: `[]PreferenceTightens` | each merge of `Config` that takes an override takes the stricter side; `Read`: the layers an invocation has read hold modes |
| `SecretsStayIgnored`: `[]SecretsIgnored` | inductive with `Control`, which says of each place of an invocation which command it serves and what the files of the scopes may hold |
| `ServedAsAccepted`: `[]ServedAsConfigured` | inductive with `Read`: a start builds the router of a configuration that `validate` accepted |
| `SkillsAreCurrent`: `[]SkillsOffered` | `Skills`: what a chat has discovered of the skills that did not change since is what is on disk |
| `WorkspaceTypeCorrect`: `[]TypeOK` | `Typing` with the invariants above |

Checked by TLC only:

- liveness, which is out of the prover's reach (`LockReleased`, `BreakUnlocks`,
  `DecryptEnds`, `InvocationEnds`);
- `UserMessageFirst` and `AskedIsEnough` of `RunContent`, `TuiFollows` and `PromptShown`
  of `Cli`, `RepeatsAreLate` of `Ledger`: no proofs yet.

## Not modelled

Cryptography; serialisation and vendor wire formats; the rendering of the terminal
(`app/tui/view/`), its log pane and the decoding of key events; the texts of
`config show`; telemetry; the TypeScript SDK; mock servers and tests. SurrealDB, the
providers, the keyring and the operating system are external: they appear as what the
code lets them do. Approvals for disclosure and cost are not raised anywhere in the
code and have no action. `PROJECT.json` says of every component what is left out.

## Plan

1. Proofs of `TuiFollows`, `PromptShown`, `RepeatsAreLate`, `UserMessageFirst` and
   `AskedIsEnough`.
2. An abstract run (idle, running, waiting) refined by `RunLock` for patient clients,
   and `Cli` composed with it in place of its external router.
