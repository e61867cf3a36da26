-------------------------------- MODULE Wire --------------------------------
(***************************************************************************)
(* The HTTP boundary between a frontend and the router: the router client  *)
(* (crates/smista-router-client, three backends behind one trait), the     *)
(* router's middleware stack (crates/smista-router/src/web.rs, web/) and   *)
(* the Server-Sent Events body of a streamed turn, byte chunk by byte      *)
(* chunk.                                                                  *)
(*                                                                         *)
(* A handle is a client value; clones of it share the cells that hold the  *)
(* API key and the session token.  A request passes the layers in the      *)
(* order they run: credential guard, rate limiter, request log, bearer     *)
(* authentication, handler.  A layer added later to an axum Router wraps   *)
(* the ones before it, so the last `.layer` call runs first.               *)
(*                                                                         *)
(* The three backends are written alike; a definition that models all of   *)
(* them is mapped to one, and the others are named where they differ.      *)
(***************************************************************************)
EXTENDS Naturals, Sequences, FiniteSets, SequencesExt

CONSTANTS
    Built,       \* the backends a client may be built on in this instance
    Handles,     \* client values: the first one built and its clones
    Ops,         \* the operations the handles call in this instance
    TurnErrors,  \* the failures a buffered turn answers in this instance
    MaxKeys,     \* bound: API keys the router mints
    MaxTokens,   \* bound: session tokens the router mints
    MaxCalls,    \* bound: requests sent
    MaxSeeds,    \* bound: credentials seeded through the builders
    MaxDeltas,   \* bound: live events of the streamed turn
    Burst        \* burst_size of the rate limiter

VARIABLES
    backend,     \* which HTTP library the client was built on
    keyCell,     \* handle -> the cell its API key lives in
    tokenCell,   \* handle -> the cell its session token lives in
    key,         \* cell -> the API key held, or 0
    token,       \* cell -> the session token held, or 0
    seeds,       \* credentials seeded so far
    waiting,     \* handle -> the request it awaits, or 0
    reqs,        \* every request sent, in order
    keys,        \* router: API keys minted
    minted,      \* router: session tokens minted
    open,        \* router: session tokens neither revoked nor expired
    level,       \* router: rate-limit cells in use for this peer
    unlogged,    \* some request was answered and never logged
    outed,       \* cell -> tokens whose sign-out was answered to it
    sent,        \* the streamed turn: events emitted into its sink
    turn,        \* the streamed turn: none, running, done or aborted
    framed,      \* events rendered onto the response body
    link,        \* the connection of the stream: up or cut
    reader,      \* the client's stream: none, open, or ended
    arrived,     \* bytes of the body the client has read
    buffer,      \* bytes read, not yet split into records
    queue,       \* items parsed, not yet yielded
    finished,    \* the terminal event or a fatal failure was seen
    got          \* items yielded to the caller

clientVars == <<backend, keyCell, tokenCell, key, token, seeds, outed>>
callVars   == <<waiting, reqs>>
routerVars == <<keys, minted, open, level, unlogged>>
turnVars   == <<sent, turn, framed>>
readVars   == <<link, reader, arrived, buffer, queue, finished, got>>
wireVars   == <<clientVars, callVars, routerVars, turnVars, readVars>>

-----------------------------------------------------------------------------
(***************************************************************************)
(* The operations of the client trait, by what their requests carry.       *)
(***************************************************************************)

\* Calls that carry no bearer token: health check, bootstrap and sign-in.
PublicOps == {"status", "bootstrap", "sign_in"}

\* Calls on the account that `authorize` guards.
AccountOps == {"sign_out", "me"}

\* Calls on the session records.
SessionOps ==
    {"create_session", "list_sessions", "get_session", "update_session",
     "delete_session"}

\* Calls that run or preview a turn and answer one buffered body.
TurnOps == {"execute", "continue_run", "preview"}

\* Calls that negotiate text/event-stream.
StreamOps == {"stream_execute", "stream_continue"}

\* Read-only calls on traces, providers, models and usage.
ReadOps ==
    {"get_session_traces", "list_providers", "list_models", "session_usage"}

\* Every method of the Client trait.
Methods ==
    PublicOps \cup AccountOps \cup SessionOps \cup TurnOps \cup StreamOps
        \cup ReadOps

\* Calls that also carry one header per held provider key.
ProviderOps == TurnOps \cup StreamOps \cup {"list_models"}

\* What the builders do: reqwest gives the handle a cell of its own, the
\* blocking backends write the cell its clones share.
Reqwest == [name |-> "reqwest", ownCell |-> TRUE]
Ureq    == [name |-> "ureq", ownCell |-> FALSE]
Isahc   == [name |-> "isahc", ownCell |-> FALSE]

Backends == {Reqwest, Ureq, Isahc}

ASSUME BuiltAssumption == Built \subseteq Backends

\* The cell all clones share, and one cell per handle for a later seed.
SharedCell == "shared"
Cells == Handles \cup {SharedCell}

ASSUME OpsAssumption ==
    /\ Ops \subseteq Methods
    /\ SharedCell \notin Handles

ASSUME BoundsAssumption ==
    /\ {MaxKeys, MaxTokens, MaxCalls, MaxSeeds, MaxDeltas} \subseteq Nat
    /\ Burst \in Nat \ {0}

-----------------------------------------------------------------------------
(***************************************************************************)
(* Error codes and the status each one always travels with.                *)
(***************************************************************************)

AuthCodes ==
    {"token_expired", "forbidden", "invalid_token", "missing_credentials",
     "token_revoked"}

CapabilityCodes == {"context_window_exceeded", "missing_capability"}

ParseCodes ==
    {"invalid_api_key", "invalid_request", "invalid_model_reference",
     "invalid_provider_name", "invalid_token", "unknown_effort",
     "unknown_intent", "unknown_provider"}

PolicyCodes == {"permission_expansion"}

RoutingCodes ==
    {"fallback_exhausted", "no_route", "override_not_allowed",
     "unknown_model", "routing_unsupported_capability"}

ProviderCodes ==
    {"provider_authentication", "context_length_exceeded",
     "invalid_provider_configuration", "invalid_provider_credentials",
     "invalid_request", "missing_provider_credentials", "model_not_found",
     "provider_unavailable", "rate_limited", "storage_error",
     "request_timeout", "provider_error", "provider_unsupported_capability"}

\* Every code a domain error is mapped to.
CoreErrorCodes ==
    AuthCodes \cup CapabilityCodes \cup ParseCodes \cup PolicyCodes
        \cup RoutingCodes \cup ProviderCodes \cup {"internal_error"}

\* The codes the web layer adds itself.
ApiErrorCodes ==
    CoreErrorCodes \cup
        {"credentials_in_query", "invalid_session_id", "not_implemented",
         "run_in_flight", "session_not_found"}

ASSUME TurnErrorsAssumption == TurnErrors \subseteq ApiErrorCodes

\* ApiErrorCode::status.
Status(code) ==
    CASE code \in {"credentials_in_query", "invalid_session_id"} -> 400
      [] code \in {"invalid_api_key", "invalid_token", "missing_credentials",
                   "token_expired", "token_revoked"} -> 401
      [] code \in {"forbidden", "override_not_allowed"} -> 403
      [] code \in {"model_not_found", "session_not_found"} -> 404
      [] code = "run_in_flight" -> 409
      [] code = "rate_limited" -> 429
      [] code \in {"internal_error", "invalid_provider_configuration"} -> 500
      [] code = "not_implemented" -> 501
      [] code \in {"provider_error", "storage_error"} -> 502
      [] code \in {"fallback_exhausted", "invalid_provider_credentials",
                   "missing_provider_credentials", "provider_authentication",
                   "provider_unavailable"} -> 503
      [] code = "request_timeout" -> 504
      [] OTHER -> 422

\* An answer: its status, whether its body is the JSON the client expects,
\* its error code, and the credential it mints.
Ok(minting) ==
    [status |-> 200, json |-> TRUE, code |-> "none", mints |-> minting]
Fail(code) ==
    [status |-> Status(code), json |-> TRUE, code |-> code, mints |-> 0]
\* The limiter answers 429 in plain text: there is no ApiError to decode.
TooMany == [status |-> 429, json |-> FALSE, code |-> "none", mints |-> 0]

NoAnswer == [status |-> 0, json |-> FALSE, code |-> "none", mints |-> 0]

IsSuccess(answer) == answer.status \in 200..299

\* `decode` and `decode_api_error`: what a caller is told about an answer.
Outcome(answer) ==
    IF IsSuccess(answer) THEN IF answer.json THEN "ok" ELSE "decode"
    ELSE IF answer.json THEN "api" ELSE "decode"

-----------------------------------------------------------------------------
(***************************************************************************)
(* Requests.  `dead` remembers whether the request presents a token whose  *)
(* sign-out had already been answered when it was sent.                    *)
(***************************************************************************)

Request(op, bearer, tok, k, q) ==
    [st |-> "sent", op |-> op, bearer |-> bearer, tok |-> tok, key |-> k,
     providers |-> op \in ProviderOps, query |-> q, answer |-> NoAnswer,
     served |-> FALSE, dead |-> tok \in UNION {outed[c] : c \in Cells}]

WireTypeOK ==
    /\ backend \in Backends
    /\ keyCell \in [Handles -> Cells] /\ tokenCell \in [Handles -> Cells]
    /\ key \in [Cells -> 0..MaxKeys] /\ token \in [Cells -> 0..MaxTokens]
    /\ seeds \in 0..MaxSeeds
    /\ outed \in [Cells -> SUBSET (1..MaxTokens)]
    /\ Len(reqs) =< MaxCalls
    /\ \A h \in Handles : waiting[h] \in 0..Len(reqs)
    /\ \A h, g \in Handles : waiting[h] = waiting[g] => h = g \/ waiting[h] = 0
    /\ keys \in 1..MaxKeys /\ minted \in 0..MaxTokens /\ open \subseteq 1..minted
    /\ \A c \in Cells : token[c] =< minted /\ key[c] =< keys
    /\ level \in 0..Burst /\ unlogged \in BOOLEAN
    /\ turn \in {"none", "running", "done", "aborted"}
    /\ framed =< Len(sent)
    /\ link \in {"up", "cut"} /\ reader \in {"none", "open", "ended"}
    /\ finished \in BOOLEAN

\* One user was bootstrapped earlier; this client holds nothing yet.
WireInit ==
    /\ backend \in Built
    /\ keyCell = [h \in Handles |-> SharedCell]
    /\ tokenCell = [h \in Handles |-> SharedCell]
    /\ key = [c \in Cells |-> 0] /\ token = [c \in Cells |-> 0]
    /\ seeds = 0 /\ outed = [c \in Cells |-> {}]
    /\ waiting = [h \in Handles |-> 0] /\ reqs = <<>>
    /\ keys = 1 /\ minted = 0 /\ open = {} /\ level = 0 /\ unlogged = FALSE
    /\ sent = <<>> /\ turn = "none" /\ framed = 0
    /\ link = "up" /\ reader = "none" /\ arrived = 0 /\ buffer = <<>>
    /\ queue = <<>> /\ finished = FALSE /\ got = <<>>

-----------------------------------------------------------------------------
(***************************************************************************)
(* Client: builders and calls.                                             *)
(***************************************************************************)

\* The cell a builder writes: reqwest replaces the handle's lock by a fresh
\* one, the others write through the lock the clones share.
SeededCell(h, cellOf) == IF backend.ownCell THEN h ELSE cellOf[h]

\* with_api_key, with the key of the user bootstrapped earlier: the builders
\* consume the handle, so it has no call under way.
WithApiKey(h, k) ==
    /\ waiting[h] = 0 /\ seeds < MaxSeeds
    /\ LET c == SeededCell(h, keyCell)
       IN  /\ keyCell' = [keyCell EXCEPT ![h] = c]
           /\ key' = [key EXCEPT ![c] = k]
    /\ seeds' = seeds + 1
    /\ UNCHANGED <<backend, tokenCell, token, outed, callVars, routerVars,
                   turnVars, readVars>>

\* The tokens some client has been given.
Known ==
    {reqs[i].answer.mints :
        i \in {j \in 1..Len(reqs) : reqs[j].st = "taken" /\ reqs[j].op = "sign_in"}}
        \ {0}

\* with_session_token: restores a token obtained earlier that is still open.
WithSessionToken(h, t) ==
    /\ waiting[h] = 0 /\ seeds < MaxSeeds
    /\ t \in open
    /\ LET c == SeededCell(h, tokenCell)
       IN  /\ tokenCell' = [tokenCell EXCEPT ![h] = c]
           /\ token' = [token EXCEPT ![c] = t]
    /\ seeds' = seeds + 1
    /\ UNCHANGED <<backend, keyCell, key, outed, callVars, routerVars,
                   turnVars, readVars>>

\* The token `authorize` puts on a request, 0 when none is held.
SessionToken(h) == token[tokenCell[h]]

\* `authorize`: without a held token an authenticated call returns
\* NotAuthenticated before any request is made.
Authorized(h, op) == op \in PublicOps \/ SessionToken(h) # 0

\* Every method: build the request and send it.  The API key travels only on
\* sign-in, and only when one is held.
Call(h, op) ==
    /\ waiting[h] = 0 /\ Len(reqs) < MaxCalls
    /\ Authorized(h, op)
    /\ op \in StreamOps => turn = "none"
    /\ reqs' = Append(reqs,
                   Request(op, op \notin PublicOps,
                           IF op \in PublicOps THEN 0 ELSE SessionToken(h),
                           IF op = "sign_in" THEN key[keyCell[h]] ELSE 0,
                           FALSE))
    /\ waiting' = [waiting EXCEPT ![h] = Len(reqs) + 1]
    /\ UNCHANGED <<clientVars, routerVars, turnVars, readVars>>

\* Any other HTTP client: no or a malformed bearer header, a token kept from
\* earlier, a credential in the query string.
CallRaw(bearer, t, q) ==
    /\ Len(reqs) < MaxCalls
    /\ t # 0 => bearer
    /\ q => ~bearer
    /\ reqs' = Append(reqs, Request("me", bearer, t, 0, q))
    /\ UNCHANGED <<clientVars, waiting, routerVars, turnVars, readVars>>

\* The connection fails, the timeout strikes or the future is dropped: the
\* call ends with a transport error, whatever the router does with it.
GiveUp(h) ==
    /\ waiting[h] # 0
    /\ waiting' = [waiting EXCEPT ![h] = 0]
    /\ UNCHANGED <<clientVars, reqs, routerVars, turnVars, readVars>>

-----------------------------------------------------------------------------
(***************************************************************************)
(* Router: the layers in the order they run.                               *)
(***************************************************************************)

Answer(i, a) == [reqs EXCEPT ![i].st = "answered", ![i].answer = a]

\* reject_query_credentials runs outside the limiter and the log.
RejectQueryCredentials(i) ==
    /\ reqs[i].st = "sent" /\ reqs[i].query
    /\ reqs' = Answer(i, Fail("credentials_in_query"))
    /\ unlogged' = TRUE
    /\ UNCHANGED <<waiting, keys, minted, open, level>>

\* The governor layer runs outside the log: a refusal never reaches it.
RateLimit(i) ==
    /\ reqs[i].st = "sent" /\ ~reqs[i].query
    /\ IF level = Burst
       THEN reqs' = Answer(i, TooMany) /\ unlogged' = TRUE /\ UNCHANGED level
       ELSE /\ reqs' = [reqs EXCEPT ![i].st = "admitted"]
            /\ level' = level + 1
            /\ UNCHANGED unlogged
    /\ UNCHANGED <<waiting, keys, minted, open>>

\* One period passes and a cell of the bucket is free again.
Replenish ==
    /\ level > 0
    /\ level' = level - 1
    /\ UNCHANGED <<clientVars, callVars, keys, minted, open, unlogged,
                   turnVars, readVars>>

\* A plausible bug: the stored token is found and its revocation not read.
VerdictKnown(r) ==
    CASE r.tok = 0 /\ ~r.bearer -> "missing_credentials"
      [] r.tok = 0 /\ r.bearer -> "invalid_token"
      [] r.tok \notin 1..minted -> "token_revoked"
      [] OTHER -> "ok"

\* The verdict of `authenticate` on the bearer header.
Verdict(r) ==
    CASE r.tok = 0 /\ ~r.bearer -> "missing_credentials"
      [] r.tok = 0 /\ r.bearer -> "invalid_token"
      [] r.tok \notin open -> "token_revoked"
      [] OTHER -> "ok"

\* `authenticate` guards the protected routes; the answer passes the log.
Authenticate(i) ==
    /\ reqs[i].st = "admitted" /\ reqs[i].op \notin PublicOps
    /\ reqs' = IF Verdict(reqs[i]) = "ok"
               THEN [reqs EXCEPT ![i].st = "authenticated"]
               ELSE Answer(i, Fail(Verdict(reqs[i])))
    /\ UNCHANGED <<waiting, routerVars>>

\* A request whose handler may run.
Runnable(i) ==
    \/ reqs[i].st = "authenticated"
    \/ reqs[i].st = "admitted" /\ reqs[i].op \in PublicOps

Serve(i, a) == [Answer(i, a) EXCEPT ![i].served = TRUE]

\* POST /auth/bootstrap mints a user and its API key, every time.
HandleBootstrap(i) ==
    /\ Runnable(i) /\ reqs[i].op = "bootstrap" /\ keys < MaxKeys
    /\ keys' = keys + 1
    /\ reqs' = Serve(i, Ok(keys + 1))
    /\ UNCHANGED <<waiting, minted, open, level, unlogged>>

\* POST /auth/sign-in.
HandleSignIn(i) ==
    /\ Runnable(i) /\ reqs[i].op = "sign_in"
    /\ IF reqs[i].key = 0
       THEN /\ reqs' = Serve(i, Fail("missing_credentials"))
            /\ UNCHANGED <<minted, open>>
       ELSE /\ minted < MaxTokens
            /\ minted' = minted + 1
            /\ open' = open \cup {minted + 1}
            /\ reqs' = Serve(i, Ok(minted + 1))
    /\ UNCHANGED <<waiting, keys, level, unlogged>>

\* POST /auth/sign-out.
HandleSignOut(i) ==
    /\ Runnable(i) /\ reqs[i].op = "sign_out"
    /\ open' = open \ {reqs[i].tok}
    /\ reqs' = Serve(i, Ok(0))
    /\ UNCHANGED <<waiting, keys, minted, level, unlogged>>

\* The handlers that only read or write the store, and the buffered turns.
HandleOther(i) ==
    /\ Runnable(i)
    /\ reqs[i].op \notin StreamOps \cup {"bootstrap", "sign_in", "sign_out"}
    /\ \E a \in {Ok(0)} \cup
               (IF reqs[i].op \in TurnOps THEN {Fail(e) : e \in TurnErrors}
                ELSE {}) :
          reqs' = Serve(i, a)
    /\ UNCHANGED <<waiting, routerVars>>

\* `execute` with Accept: text/event-stream: the turn is spawned and the
\* body opens before the first event exists.
HandleStream(i) ==
    /\ Runnable(i) /\ reqs[i].op \in StreamOps
    /\ turn = "none"
    /\ turn' = "running"
    /\ reqs' = Serve(i, Ok(0))
    /\ UNCHANGED <<waiting, routerVars, sent, framed, readVars>>

-----------------------------------------------------------------------------
(***************************************************************************)
(* Router: the streamed turn and its body.                                 *)
(***************************************************************************)

\* A live event through the sink; `foreign` is an event type the client's
\* build does not know.
EmitLive(event) ==
    /\ turn = "running" /\ Len(sent) < MaxDeltas
    /\ sent' = Append(sent, event)
    /\ UNCHANGED <<clientVars, callVars, routerVars, turn, framed, readVars>>

\* terminal_events and error_turn_end: what closes the stream.
TerminalEvents(outcome) ==
    CASE outcome = "completed" -> <<"usage", "turn_end">>
      [] outcome = "awaiting_tool" ->
            <<"tool_call_started", "tool_call_requested", "turn_end">>
      [] outcome = "error" -> <<"turn_end">>
      [] OTHER -> <<"turn_end">>

\* The spawned task finishes: it appends the terminal events and drops the
\* last sender.
FinishTurn(outcome) ==
    /\ turn = "running"
    /\ sent' = sent \o TerminalEvents(outcome)
    /\ turn' = "done"
    /\ UNCHANGED <<clientVars, callVars, routerVars, framed, readVars>>

\* The spawned task ends without its terminal events, by a panic in the turn
\* or a runtime that stops: the sender is dropped all the same.
AbortTurn ==
    /\ turn = "running"
    /\ turn' = "aborted"
    /\ UNCHANGED <<clientVars, callVars, routerVars, sent, framed, readVars>>

\* sse_stream_response renders one event as one record.
RenderFrame ==
    /\ framed < Len(sent) /\ link = "up"
    /\ framed' = framed + 1
    /\ UNCHANGED <<clientVars, callVars, routerVars, sent, turn, readVars>>

\* The connection of the stream breaks; bytes not yet read are lost.
CutLink ==
    /\ link = "up" /\ reader = "open"
    /\ link' = "cut"
    /\ UNCHANGED <<clientVars, callVars, routerVars, turnVars, reader,
                   arrived, buffer, queue, finished, got>>

-----------------------------------------------------------------------------
(***************************************************************************)
(* Client: answers.                                                        *)
(***************************************************************************)

\* bootstrap holds the key it minted.
TakeBootstrap(h, a) ==
    /\ key' = [key EXCEPT ![keyCell[h]] = a.mints]
    /\ UNCHANGED <<backend, keyCell, tokenCell, token, seeds, outed, readVars>>

\* sign_in holds the token it was given, in place of any other.
TakeSignIn(h, a) ==
    /\ token' = [token EXCEPT ![tokenCell[h]] = a.mints]
    /\ UNCHANGED <<backend, keyCell, tokenCell, key, seeds, outed, readVars>>

\* A plausible bug: the held copy survives the sign-out.
TakeSignOutKeeps(h, t) ==
    /\ outed' = [outed EXCEPT ![tokenCell[h]] = @ \cup {t}]
    /\ UNCHANGED <<backend, keyCell, tokenCell, key, token, seeds, readVars>>

\* sign_out drops whatever token is held by now.
TakeSignOut(h, t) ==
    /\ token' = [token EXCEPT ![tokenCell[h]] = 0]
    /\ outed' = [outed EXCEPT ![tokenCell[h]] = @ \cup {t}]
    /\ UNCHANGED <<backend, keyCell, tokenCell, key, seeds, readVars>>

\* open_stream: a success opens the body lazily.
OpenStream ==
    /\ reader' = "open"
    /\ UNCHANGED <<clientVars, link, arrived, buffer, queue, finished, got>>

\* `send`: the answer arrives and is decoded; only a decoded success changes
\* what the client holds.
Receive(h) ==
    /\ waiting[h] # 0
    /\ LET r == reqs[waiting[h]]
           ok == Outcome(r.answer) = "ok"
       IN  /\ r.st = "answered"
           /\ CASE ok /\ r.op = "bootstrap" -> TakeBootstrap(h, r.answer)
                [] ok /\ r.op = "sign_in"   -> TakeSignIn(h, r.answer)
                [] ok /\ r.op = "sign_out"  -> TakeSignOut(h, r.tok)
                [] ok /\ r.op \in StreamOps -> OpenStream
                [] OTHER -> UNCHANGED <<clientVars, readVars>>
    /\ reqs' = [reqs EXCEPT ![waiting[h]].st = "taken"]
    /\ waiting' = [waiting EXCEPT ![h] = 0]
    /\ UNCHANGED <<routerVars, turnVars>>

-----------------------------------------------------------------------------
(***************************************************************************)
(* Client: the Server-Sent Events reader.  A record is the two halves of   *)
(* its `data:` line followed by a blank line; the network may split the    *)
(* body anywhere, inside a record and inside the separator too.            *)
(***************************************************************************)

NL == <<0, 0>>
Frame(i) == <<<<i, 1>>, <<i, 2>>, NL, NL>>
Byte(b) == Frame((b - 1) \div 4 + 1)[((b - 1) % 4) + 1]
Body == [b \in 1..4 * framed |-> Byte(b)]

\* The item of a record that cannot be decoded, or of a transport failure.
ErrItem == 0

\* parse_sse_record: an empty record carries no event.
ParseRecord(record) ==
    CASE record = <<>> -> <<>>
      [] \E i \in 1..Len(sent) :
            record = <<<<i, 1>>, <<i, 2>>>> /\ sent[i] # "foreign"
         -> <<record[1][1]>>
      [] OTHER -> <<ErrItem>>

\* drain_sse_records: split off every complete record, in order.
DrainRecords(bytes) ==
    FoldLeft(
        LAMBDA acc, b :
            IF b = NL /\ acc.rest # <<>> /\ Last(acc.rest) = NL
            THEN [rest |-> <<>>, items |-> acc.items \o ParseRecord(Front(acc.rest))]
            ELSE [acc EXCEPT !.rest = Append(@, b)],
        [rest |-> <<>>, items |-> <<>>], bytes)

\* A plausible bug: each chunk is split by itself, so a record that
\* straddles two of them loses its head.
AbsorbChunk(chunk) ==
    /\ buffer' = DrainRecords(chunk).rest
    /\ queue' = DrainRecords(chunk).items

\* The buffered bytes and the chunk are split together.
Absorb(chunk) ==
    /\ buffer' = DrainRecords(buffer \o chunk).rest
    /\ queue' = DrainRecords(buffer \o chunk).items

\* One poll of the stream with nothing queued reads on.
Reading == reader = "open" /\ queue = <<>> /\ ~finished

\* A chunk of any length arrives.
ReadChunk ==
    /\ Reading /\ link = "up"
    /\ \E n \in arrived + 1 .. Len(Body) :
          /\ Absorb(SubSeq(Body, arrived + 1, n))
          /\ arrived' = n
    /\ UNCHANGED <<clientVars, callVars, routerVars, turnVars, link, reader,
                   finished, got>>

\* A read fails, by a cut connection or the request timeout.
ReadFails ==
    /\ Reading
    /\ queue' = <<ErrItem>> /\ finished' = TRUE
    /\ UNCHANGED <<clientVars, callVars, routerVars, turnVars, link, reader,
                   arrived, buffer, got>>

\* The body ends: a record without its separator is still parsed.
ReadCloses ==
    /\ Reading /\ link = "up" /\ turn \in {"done", "aborted"}
    /\ framed = Len(sent) /\ arrived = Len(Body)
    /\ queue' = ParseRecord(buffer) /\ buffer' = <<>> /\ finished' = TRUE
    /\ UNCHANGED <<clientVars, callVars, routerVars, turnVars, link, reader,
                   arrived, got>>

\* The next queued item is yielded; turn_end closes the stream after it.
YieldItem ==
    /\ reader = "open" /\ queue # <<>>
    /\ got' = Append(got, Head(queue))
    /\ queue' = Tail(queue)
    /\ finished' = (finished \/ (Head(queue) # ErrItem
                                 /\ sent[Head(queue)] = "turn_end"))
    /\ UNCHANGED <<clientVars, callVars, routerVars, turnVars, link, reader,
                   arrived, buffer>>

EndStream ==
    /\ reader = "open" /\ queue = <<>> /\ finished
    /\ reader' = "ended"
    /\ UNCHANGED <<clientVars, callVars, routerVars, turnVars, link, arrived,
                   buffer, queue, finished, got>>

-----------------------------------------------------------------------------
Client ==
    \/ \E h \in Handles :
          \/ WithApiKey(h, 1)
          \/ \E t \in Known : WithSessionToken(h, t)
          \/ \E op \in Ops : Call(h, op)
          \/ Receive(h)
          \/ GiveUp(h)
    \/ \E b, q \in BOOLEAN, t \in Known \cup {0} : CallRaw(b, t, q)

Layers ==
    /\ \E i \in 1..Len(reqs) :
          \/ RejectQueryCredentials(i)
          \/ RateLimit(i)
          \/ Authenticate(i)
          \/ HandleBootstrap(i)
          \/ HandleSignIn(i)
          \/ HandleSignOut(i)
          \/ HandleOther(i)
    /\ UNCHANGED <<clientVars, turnVars, readVars>>

Streamed ==
    \/ \E i \in 1..Len(reqs) : HandleStream(i) /\ UNCHANGED clientVars
    \/ \E event \in {"text_delta", "foreign"} : EmitLive(event)
    \/ \E o \in {"completed", "awaiting_tool", "plan", "error"} : FinishTurn(o)
    \/ AbortTurn
    \/ RenderFrame
    \/ CutLink

Reader ==
    \/ ReadChunk
    \/ ReadFails
    \/ ReadCloses
    \/ YieldItem
    \/ EndStream

WireNext == Client \/ Layers \/ Replenish \/ Streamed \/ Reader

WireSpec == WireInit /\ [][WireNext]_wireVars

-----------------------------------------------------------------------------
(***************************************************************************)
(* Properties.                                                             *)
(***************************************************************************)

\* Whatever the chunking, the caller sees the events of the turn in order,
\* each once, and an error only in the place of an event it cannot decode or
\* as the last item; a stream that ends has yielded turn_end last, or an error,
\* unless the task of the turn died
\* (sse_events, drain_sse_records, sse_stream_response).
StreamFaithful ==
    /\ \A j \in 1..Len(got) :
          \/ got[j] = j
          \/ got[j] = ErrItem /\ (j = Len(got) \/ sent[j] = "foreign")
    /\ reader = "ended" /\ turn # "aborted" =>
          /\ got # <<>>
          /\ Last(got) = ErrItem \/ sent[Last(got)] = "turn_end"
    /\ \A j \in 1..Len(got) - 1 : sent[j] # "turn_end"

\* A client never holds a token whose sign-out it was told succeeded, however
\* calls of its clones overlap (sign_in, sign_out, the shared locks).
SignedOutNotHeld == \A c \in Cells : token[c] \notin outed[c]

\* A request sent with a token whose sign-out had been confirmed to a client
\* is never served, by any handler behind `authenticate`.
RevokedNotServed == \A i \in 1..Len(reqs) : reqs[i].dead => ~reqs[i].served

\* web.rs claims that logging runs outermost and sees the responses of the
\* limiter and the credential guard too.
EveryAnswerLogged == ~unlogged
=============================================================================
