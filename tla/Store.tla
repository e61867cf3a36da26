------------------------------- MODULE Store -------------------------------
(***************************************************************************)
(* The router's rows and everybody who works on them at the same time: the *)
(* web handlers for accounts and sessions, the writes of a turn, the       *)
(* memory tool and the retention sweep.                                    *)
(*                                                                         *)
(* A request is a process.  Each of its steps is one database statement or *)
(* one explicit transaction, because that is where the code awaits; what a *)
(* statement read stays in the request (snap) until a later one uses it.   *)
(* An id drawn by a request (Uuid::now_v7) is the request itself.          *)
(***************************************************************************)
EXTENDS Naturals, FiniteSets, Functions

CONSTANTS
    Requests,         \* requests, also the ids they draw
    None,
    Workloads,        \* what the requests do: a set of functions [Requests -> Commands]
    Initial,          \* the database the requests find
    TokenTtl,         \* days a session token lives (router.auth.token_ttl_seconds)
    SessionDays,      \* session_retention_days
    ArchivedDays,     \* archived_session_retention_days
    TraceDays,        \* trace_retention_days
    MaxDay,           \* bound: the clock stops here
    MaxFaults         \* bound: statements of the sweep that fail

VARIABLES
    day,              \* the clock, in days
    users,            \* rows of user
    tokens,           \* auth_token:  id -> [user, expires, revoked]
    sessions,         \* session:     id -> [user, titled, archived, updated]
    rows,             \* child tables: id -> [table, session, user, created, status, key]
    content,          \* _content tables: id -> "clear" or "sealed"
    cmd,              \* what each request asks for
    pc,               \* where each request is
    user,             \* AuthenticatedUser of a request
    snap,             \* what the request read last
    reply,            \* its answer
    sweep,            \* where the RetentionService is
    faults            \* statements of it that failed

db == <<users, tokens, sessions, rows, content>>
process == <<cmd, pc, user, snap, reply>>
service == <<day, sweep, faults>>
vars == <<day, users, tokens, sessions, rows, content,
          cmd, pc, user, snap, reply, sweep, faults>>

----------------------------------------------------------------------------
(* Tables *)

\* Tables whose rows share their key with a row of a _content table.
PairedTables == {"session_message", "session_tool_call", "session_plan",
                 "session_diff", "trace_event", "context_memory",
                 "user_memory", "session_run_input"}

\* Tables without secrets.
PlainTables == {"session_routing_decision", "session_context_reference",
                "session_approval", "session_run_state"}

Tables == PairedTables \cup PlainTables

\* sealable_content_field: tables whose content can be sealed or read back by id.
Sealable == PairedTables \ {"user_memory"}

Doable == {"bootstrap", "sign_in", "sign_out", "me", "create", "update", "delete",
           "get", "list", "traces", "usage", "append", "set_state", "set_status",
           "seal", "read", "record", "forget", "history", "facts", "state"}

\* Where a request can be.
Labels == {"auth", "bootstrap", "find_user", "issue", "sign_out", "me", "list", "create",
           "reread", "open", "session", "check_update", "write_update", "recheck",
           "cascade", "bases", "contents", "assert", "write", "read_row", "read_content",
           "write_row", "assert_content", "set_content", "get_content", "lookup",
           "record", "check_forget", "forget", "done"}

\* The users, session ids and keys there can be.
Accounts == Initial.users \cup Requests
SessionIds == DOMAIN Initial.sessions \cup Requests
Keys == {Initial.rows[i].key : i \in DOMAIN Initial.rows}
        \cup UNION {{w[r].key : r \in Requests} : w \in Workloads}

\* Records of auth_token, session and the child tables, stamped by now.
TokenType == [user : Accounts, expires : Nat, revoked : BOOLEAN]
SessionType == [user : Accounts, titled : BOOLEAN, archived : 0..day \cup {None},
                updated : 0..day]
RowType == [table : Tables, session : SessionIds \cup {None}, user : Accounts,
            created : 0..day, status : {"new", "settled"}, key : Keys \cup {None}]

ASSUME BoundsAssumption ==
    /\ TokenTtl \in Nat /\ MaxDay \in Nat /\ MaxFaults \in Nat
    /\ None \notin DOMAIN Initial.sessions \cup Requests /\ None # "ok"

\* What the requests ask for.
ASSUME WorkloadsAssumption ==
    \A w \in Workloads : \A r \in Requests :
        w[r].do \in Doable /\ w[r].archived \in {"yes", "no", "omitted"}

\* The database the requests find is one the router left behind, and Uuid::now_v7
\* draws none of its ids again.
ASSUME InitialAssumption ==
    /\ (DOMAIN Initial.tokens \cup DOMAIN Initial.sessions \cup DOMAIN Initial.rows)
            \cap Requests = {}
    /\ Initial.tokens \in [DOMAIN Initial.tokens ->
            [user : Initial.users, expires : Nat, revoked : BOOLEAN]]
    /\ Initial.sessions \in [DOMAIN Initial.sessions ->
            [user : Initial.users, titled : BOOLEAN, archived : {0, None}, updated : {0}]]
    /\ Initial.rows \in [DOMAIN Initial.rows ->
            [table : Tables, session : DOMAIN Initial.sessions \cup {None},
             user : Initial.users, created : {0}, status : {"new", "settled"},
             key : {Initial.rows[i].key : i \in DOMAIN Initial.rows}]]
    /\ \A i \in DOMAIN Initial.rows : Initial.rows[i].session # None =>
            Initial.sessions[Initial.rows[i].session].user = Initial.rows[i].user

Row(table, session, owner, key) ==
    [table |-> table, session |-> session, user |-> owner, created |-> day,
     status |-> "new", key |-> key]

\* Session::new, AuthToken::new
SessionRow(owner) == [user |-> owner, titled |-> TRUE, archived |-> None, updated |-> day]
TokenRow(owner) == [user |-> owner, expires |-> day + TokenTtl, revoked |-> FALSE]

Remove(f, S) == Restrict(f, DOMAIN f \ S)

Put(f, id, value) == [x \in DOMAIN f \cup {id} |-> IF x = id THEN value ELSE f[x]]

----------------------------------------------------------------------------
(* Statements *)

\* get_session and assert_session_owned: a session of another user is absent.
Owned(u, s) == s \in DOMAIN sessions /\ sessions[s].user = u

\* Mutant: the schema asserts the user alone.
RefsExistUser(row) == row.user \in users

\* The guard ASSERT record::exists of the schema, evaluated by every write of a
\* row that refers to a session and a user.
RefsExist(row) ==
    /\ row.user \in users
    /\ row.session # None => row.session \in DOMAIN sessions

\* create_one and create_paired: a fresh id, both rows or none.
CreateRow(id, row) ==
    /\ rows' = Put(rows, id, row)
    /\ content' = IF row.table \in PairedTables THEN Put(content, id, "clear") ELSE content

\* UPDATE of a record that is gone changes nothing.
UpdateRow(id, row) == rows' = IF id \in DOMAIN rows THEN Put(rows, id, row) ELSE rows

UpdateContent(id, value) ==
    content' = IF id \in DOMAIN content THEN Put(content, id, value) ELSE content

\* Mutant: the content row is left behind.
ForgetPairedRow(id) == rows' = Remove(rows, {id}) /\ UNCHANGED content

\* forget_paired: a row and its content in one transaction.
ForgetPaired(id) ==
    /\ rows' = Remove(rows, {id})
    /\ content' = Remove(content, {id})

\* replace_paired_content: the new text of a fact, if the fact is still there.
ReplaceContent(id) == UpdateContent(id, "clear") /\ UNCHANGED rows

Children(S) == {i \in DOMAIN rows : rows[i].session \in S}

\* DELETE_SESSION_CASCADE and PURGE_SESSIONS_CASCADE, one transaction.
Cascade(S) ==
    /\ sessions' = Remove(sessions, S)
    /\ rows' = Remove(rows, Children(S))
    /\ content' = Remove(content, Children(S))
    /\ UNCHANGED <<users, tokens>>

\* search_sessions: the caller's sessions, archived ones included.
SelectSessions(u) == {s \in DOMAIN sessions : Owned(u, s)}

\* Mutant: the update upserts.
ReplaceSessionUpsert(s, row) == sessions' = Put(sessions, s, row)

\* update_session replaces the whole row, if it is still there.
ReplaceSession(s, row) ==
    sessions' = IF s \in DOMAIN sessions THEN Put(sessions, s, row) ELSE sessions

\* revoke_token
RevokeToken(t) ==
    tokens' = IF t \in DOMAIN tokens THEN [tokens EXCEPT ![t].revoked = TRUE] ELSE tokens

----------------------------------------------------------------------------
(* Requests *)

Goto(r, label) == pc' = [pc EXCEPT ![r] = label] /\ UNCHANGED <<cmd, user, snap, reply>>

Keep(r, label, what) ==
    /\ pc' = [pc EXCEPT ![r] = label]
    /\ snap' = [snap EXCEPT ![r] = what]
    /\ UNCHANGED <<cmd, user, reply>>

Answer(r, code) ==
    /\ pc' = [pc EXCEPT ![r] = "done"]
    /\ reply' = [reply EXCEPT ![r] = code]
    /\ UNCHANGED <<cmd, user, snap>>

At(r, label) == pc[r] = label /\ UNCHANGED service

\* Where a request goes behind the authentication middleware.
Handler(r) ==
    CASE cmd[r].do \in {"me", "sign_out", "list", "create"} -> cmd[r].do
      [] cmd[r].do \in {"traces", "usage"} -> "session"
      [] cmd[r].do \in {"record", "forget"} /\ cmd[r].session = None -> "lookup"
      [] cmd[r].do = "facts" /\ cmd[r].session = None -> "bases"
      [] OTHER -> "open"

\* Mutant: only the expiry is looked at.
VerdictExpiryOnly(t, genuine) ==
    CASE t \notin DOMAIN tokens \/ ~genuine -> "invalid_token"
      [] tokens[t].expires <= day -> "expired_token"
      [] OTHER -> "ok"

\* Authenticator::authenticate: the secret is checked before the state of the token
\* is disclosed, and a sign-out outweighs an expiry.
Verdict(t, genuine) ==
    CASE t \notin DOMAIN tokens \/ ~genuine -> "invalid_token"
      [] tokens[t].revoked -> "revoked_token"
      [] tokens[t].expires <= day -> "expired_token"
      [] OTHER -> "ok"

\* The authenticate middleware hands the user over to the route.
Authenticate(r) ==
    LET t == cmd[r].token
        verdict == Verdict(t, cmd[r].genuine)
    IN
    /\ At(r, "auth") /\ UNCHANGED db
    /\ \/ verdict # "ok" /\ Answer(r, verdict)
       \/ /\ verdict = "ok"
          /\ pc' = [pc EXCEPT ![r] = Handler(r)]
          /\ user' = [user EXCEPT ![r] = tokens[t].user]
          /\ UNCHANGED <<cmd, snap, reply>>

\* bootstrap_user: a new user with a new key.
Bootstrap(r) ==
    /\ At(r, "bootstrap")
    /\ users' = users \cup {r}
    /\ Answer(r, "ok")
    /\ UNCHANGED <<tokens, sessions, rows, content>>

\* sign_in up to the verification of the key.
FindUser(r) ==
    /\ At(r, "find_user") /\ UNCHANGED db
    /\ \/ cmd[r].as \notin users /\ Answer(r, "user_not_found")
       \/ cmd[r].as \in users /\ ~cmd[r].genuine /\ Answer(r, "invalid_api_key")
       \/ cmd[r].as \in users /\ cmd[r].genuine /\ Goto(r, "issue")

\* sign_in issues a token.
IssueToken(r) ==
    /\ At(r, "issue")
    /\ tokens' = Put(tokens, r, TokenRow(cmd[r].as))
    /\ Answer(r, "ok")
    /\ UNCHANGED <<users, sessions, rows, content>>

\* sign_out revokes the token presented; the sweep may have removed it.
SignOut(r) ==
    LET t == cmd[r].token IN
    /\ At(r, "sign_out")
    /\ RevokeToken(t)
    /\ Answer(r, IF t \in DOMAIN tokens THEN "ok" ELSE "internal_error")
    /\ UNCHANGED <<users, sessions, rows, content>>

\* The me route answers from the request alone.
Me(r) == At(r, "me") /\ UNCHANGED db /\ Answer(r, "ok")

\* The list route is one query.
ListSessions(r) ==
    /\ At(r, "list") /\ UNCHANGED db
    /\ pc' = [pc EXCEPT ![r] = "done"]
    /\ snap' = [snap EXCEPT ![r] = SelectSessions(user[r])]
    /\ reply' = [reply EXCEPT ![r] = "ok"]
    /\ UNCHANGED <<cmd, user>>

\* create_session stores the row, ...
CreateSession(r) ==
    /\ At(r, "create")
    /\ user[r] \in users
    /\ sessions' = Put(sessions, r, SessionRow(user[r]))
    /\ Goto(r, "reread")
    /\ UNCHANGED <<users, tokens, rows, content>>

\* ... and reads it back for the summary.
RereadSession(r) ==
    /\ At(r, "reread") /\ UNCHANGED db
    /\ Answer(r, IF Owned(user[r], r) THEN "ok" ELSE "internal_error")

\* What UserSession calls first for a route, ...
RouteCall ==
    [do \in {"update", "get", "state", "delete"} |-> IF do = "delete" THEN "recheck" ELSE "session"]

\* ... for a write of a turn, ...
TurnCall ==
    [do \in {"append", "set_state", "set_status"} |->
        IF do = "set_status" THEN "read_row" ELSE "assert"]

\* ... for memories, the history and single contents.
ContentCall ==
    [do \in {"seal", "read", "history", "facts", "record", "forget"} |->
        CASE do \in {"seal", "read"} -> "assert_content"
          [] do \in {"history", "facts"} -> "bases"
          [] do = "record" -> "assert"
          [] do = "forget" -> "lookup"]

Opened(do) ==
    CASE do \in DOMAIN RouteCall -> RouteCall[do]
      [] do \in DOMAIN TurnCall -> TurnCall[do]
      [] do \in DOMAIN ContentCall -> ContentCall[do]

\* Sessions::open: an unknown session and a foreign one are alike.
Open(r) ==
    /\ At(r, "open") /\ UNCHANGED db
    /\ \/ ~Owned(user[r], cmd[r].session) /\ Answer(r, "session_not_found")
       \/ Owned(user[r], cmd[r].session) /\ Goto(r, Opened(cmd[r].do))

\* The session a request reads first.  The page, the trace and the usage of an
\* archived session are gone.
Visible(r) ==
    LET s == cmd[r].session IN
    /\ Owned(user[r], s)
    /\ cmd[r].do \notin {"update", "state"} => sessions[s].archived = None

\* UserSession::session, and the first query of get_session_trace_events,
\* get_session_cost_events and get_session_state.
ReadSession(r) ==
    /\ At(r, "session") /\ UNCHANGED db
    /\ \/ ~Visible(r) /\ Answer(r, "session_not_found")
       \/ /\ Visible(r)
          /\ Keep(r, IF cmd[r].do = "update" THEN "check_update" ELSE "bases",
                  sessions[cmd[r].session])

\* The update route: fields that the body omits keep the value read before.
Updated(r) ==
    [snap[r] EXCEPT
        !.titled = IF cmd[r].title THEN ~@ ELSE @,
        !.archived = CASE cmd[r].archived = "yes" -> day
                       [] cmd[r].archived = "no" -> None
                       [] cmd[r].archived = "omitted" -> @,
        !.updated = day]

\* update_session checks the stored row ...
CheckUpdate(r) ==
    /\ At(r, "check_update") /\ UNCHANGED db
    /\ \/ ~Owned(user[r], cmd[r].session) /\ Answer(r, "internal_error")
       \/ Owned(user[r], cmd[r].session) /\ Keep(r, "write_update", Updated(r))

\* ... and replaces it.
WriteUpdate(r) ==
    LET s == cmd[r].session IN
    /\ At(r, "write_update")
    /\ ReplaceSession(s, snap[r])
    /\ Answer(r, IF s \in DOMAIN sessions THEN "ok" ELSE "internal_error")
    /\ UNCHANGED <<users, tokens, rows, content>>

\* delete_session looks once more ...
RecheckDelete(r) ==
    /\ At(r, "recheck") /\ UNCHANGED db
    /\ \/ ~Owned(user[r], cmd[r].session) /\ Answer(r, "internal_error")
       \/ Owned(user[r], cmd[r].session) /\ Goto(r, "cascade")

\* ... and removes the session with all it owns.
DeleteSession(r) ==
    /\ At(r, "cascade")
    /\ Cascade({cmd[r].session})
    /\ Answer(r, "ok")

----------------------------------------------------------------------------
(* Lists: the base rows, then the content rows, paired by key *)

RowsOf(table, session) ==
    {i \in DOMAIN rows : rows[i].table = table /\ rows[i].session = session}

OwnRowsOf(table, session, u) == {i \in RowsOf(table, session) : rows[i].user = u}

Bases(r, do, found) ==
    At(r, "bases") /\ cmd[r].do = do /\ UNCHANGED db /\ Keep(r, "contents", found)

\* list_session_messages_with_content
ListMessages(r) ==
    Bases(r, "get", OwnRowsOf("session_message", cmd[r].session, user[r]))

\* get_session_trace_events trusts the session it has read.
GetTraceEvents(r) == Bases(r, "traces", RowsOf("trace_event", cmd[r].session))

\* get_session_cost_events: the same without pages (every event of the model is a cost).
GetCostEvents(r) == Bases(r, "usage", RowsOf("trace_event", cmd[r].session))

\* list_session_trace_content, for a run that wants its earlier turns decrypted.
ListTraceContent(r) ==
    Bases(r, "history", OwnRowsOf("trace_event", cmd[r].session, user[r]))

\* list_user_memory_with_content
ListUserMemory(r) ==
    cmd[r].session = None /\ Bases(r, "facts", OwnRowsOf("user_memory", None, user[r]))

\* list_context_memory_with_content
ListContextMemory(r) ==
    /\ cmd[r].session # None
    /\ Bases(r, "facts", OwnRowsOf("context_memory", cmd[r].session, user[r]))

\* get_session_state: the session, then its tables one query each; the last ones
\* may miss what the first ones still saw.
GetSessionState(r) ==
    Bases(r, "state", UNION {RowsOf(t, cmd[r].session) : t \in
                                {"session_message", "session_tool_call", "session_plan"}})

\* pair_by_key: a row whose content is missing is dropped.
Pair(bases) == bases \cap DOMAIN content

ListContents(r) ==
    /\ At(r, "contents") /\ UNCHANGED db
    /\ pc' = [pc EXCEPT ![r] = "done"]
    /\ snap' = [snap EXCEPT ![r] = Pair(@)]
    /\ reply' = [reply EXCEPT ![r] = "ok"]
    /\ UNCHANGED <<cmd, user>>

----------------------------------------------------------------------------
(* Writes of a turn *)

\* assert_write_owned of an append, a run state or a recorded memory.
AssertWriteOwned(r) ==
    /\ At(r, "assert") /\ UNCHANGED db
    /\ \/ ~Owned(user[r], cmd[r].session) /\ Answer(r, "not_found")
       \/ /\ Owned(user[r], cmd[r].session)
          /\ Goto(r, IF cmd[r].do = "record" THEN "lookup" ELSE "write")

\* A write of a row; the schema rejects one of a session that is gone.
Write(r, do, tables, id) ==
    LET row == Row(cmd[r].table, cmd[r].session, user[r], None) IN
    /\ At(r, "write") /\ cmd[r].do = do /\ cmd[r].table \in tables
    /\ \/ RefsExist(row) /\ CreateRow(id, row) /\ Answer(r, "ok")
       \/ ~RefsExist(row) /\ UNCHANGED <<rows, content>> /\ Answer(r, "backend")
    /\ UNCHANGED <<users, tokens, sessions>>

\* append_message, append_tool_call, append_plan, append_diff
AppendPaired(r) == Write(r, "append", {"session_message", "session_tool_call",
                                       "session_plan", "session_diff"}, r)

\* append_routing_decision, append_context_reference, append_approval
AppendPlain(r) == Write(r, "append", {"session_routing_decision",
                                      "session_context_reference", "session_approval"}, r)

\* Tracer::record
AppendTrace(r) == Write(r, "append", {"trace_event"}, r)

\* The row of a session in a table that holds one row per session.
StateRow(r) ==
    LET found == RowsOf(cmd[r].table, cmd[r].session)
    IN  IF found = {} THEN r ELSE CHOOSE i \in found : TRUE

\* set_run_state and set_run_input upsert that row.
SetRunState(r) == Write(r, "set_state", {"session_run_state"}, StateRow(r))
SetRunInput(r) == Write(r, "set_state", {"session_run_input"}, StateRow(r))

\* A status is set on a row that was read before, ...
ReadRow(r, table, label) ==
    LET i == cmd[r].row
        own == i \in DOMAIN rows /\ rows[i].user = user[r]
    IN
    /\ At(r, "read_row") /\ cmd[r].table = table /\ UNCHANGED db
    /\ \/ ~own /\ Answer(r, "not_found")
       \/ own /\ Keep(r, label, [rows[i] EXCEPT !.status = "settled"])

SetPlanStatus(r) == ReadRow(r, "session_plan", "write_row")
SetDiffStatus(r) == ReadRow(r, "session_diff", "write_row")
SetToolCallOutcome(r) == ReadRow(r, "session_tool_call", "read_content")

\* ... the outcome of a call its content as well, ...
ReadCallContent(r) ==
    /\ At(r, "read_content") /\ UNCHANGED db
    /\ \/ cmd[r].row \notin DOMAIN content /\ Answer(r, "not_found")
       \/ cmd[r].row \in DOMAIN content /\ Goto(r, "write_row")

\* ... and write both back.
WriteRow(r) ==
    LET i == cmd[r].row IN
    /\ At(r, "write_row")
    /\ UpdateRow(i, snap[r])
    /\ IF snap[r].table = "session_tool_call" THEN UpdateContent(i, "clear")
       ELSE UNCHANGED content
    /\ Answer(r, IF i \in DOMAIN rows THEN "ok" ELSE "not_found")
    /\ UNCHANGED <<users, tokens, sessions>>

\* set_content checks the owner of the base row ...
AssertContentOwned(r) ==
    LET i == cmd[r].row
        sealable == /\ i \in DOMAIN rows /\ rows[i].user = user[r]
                    /\ rows[i].table \in Sealable
    IN
    /\ At(r, "assert_content") /\ UNCHANGED db
    /\ \/ ~sealable /\ Answer(r, "not_found")
       \/ sealable /\ Goto(r, IF cmd[r].do = "seal" THEN "set_content" ELSE "get_content")

\* ... and seals the content row, if it is still there.
SetContent(r) ==
    /\ At(r, "set_content")
    /\ UpdateContent(cmd[r].row, "sealed")
    /\ Answer(r, "ok")
    /\ UNCHANGED <<users, tokens, sessions, rows>>

\* get_content shows what the row holds, or nothing.
GetContent(r) ==
    /\ At(r, "get_content") /\ UNCHANGED db
    /\ pc' = [pc EXCEPT ![r] = "done"]
    /\ snap' = [snap EXCEPT ![r] = {cmd[r].row} \cap DOMAIN content]
    /\ reply' = [reply EXCEPT ![r] = "ok"]
    /\ UNCHANGED <<cmd, user>>

----------------------------------------------------------------------------
(* The memory tool *)

MemoryTable(r) == IF cmd[r].session = None THEN "user_memory" ELSE "context_memory"

\* The facts filed under the key of the request.
Facts(r) ==
    {i \in OwnRowsOf(MemoryTable(r), cmd[r].session, user[r]) : rows[i].key = cmd[r].key}

\* record_user_memory and record_context_memory look for the key first;
\* a query for one row that finds two is an error.
LookupToRecord(r) ==
    /\ At(r, "lookup") /\ cmd[r].do = "record" /\ UNCHANGED db
    /\ \/ Facts(r) = {} /\ Keep(r, "record", None)
       \/ \E i \in Facts(r) : Facts(r) = {i} /\ Keep(r, "record", i)
       \/ Cardinality(Facts(r)) > 1 /\ Answer(r, "backend")

\* They replace the fact that was found or insert a new one.
Record(r) ==
    LET row == Row(MemoryTable(r), cmd[r].session, user[r], cmd[r].key) IN
    /\ At(r, "record")
    /\ \/ /\ snap[r] = None /\ RefsExist(row)
          /\ CreateRow(r, row) /\ Answer(r, "ok")
       \/ /\ snap[r] = None /\ ~RefsExist(row)
          /\ UNCHANGED <<rows, content>> /\ Answer(r, "backend")
       \/ /\ snap[r] # None
          /\ ReplaceContent(snap[r])
          /\ Answer(r, IF snap[r] \in DOMAIN rows THEN "ok" ELSE "not_found")
    /\ UNCHANGED <<users, tokens, sessions>>

\* MemoryTool::handle_for finds the fact to forget by its key.
LookupToForget(r) ==
    /\ At(r, "lookup") /\ cmd[r].do = "forget" /\ UNCHANGED db
    /\ \/ Facts(r) = {} /\ Answer(r, "no_memory")
       \/ \E i \in Pair(Facts(r)) : Keep(r, "check_forget", i)

\* forget_user_memory and forget_context_memory look again; a fact that is gone
\* is not an error (ignore_missing), ...
CheckForget(r) ==
    /\ At(r, "check_forget") /\ UNCHANGED db
    /\ \/ snap[r] \notin DOMAIN rows /\ Answer(r, "ok")
       \/ snap[r] \in DOMAIN rows /\ Goto(r, "forget")

\* ... and they remove it.
Forget(r) ==
    /\ At(r, "forget")
    /\ ForgetPaired(snap[r])
    /\ Answer(r, "ok")
    /\ UNCHANGED <<users, tokens, sessions>>

----------------------------------------------------------------------------
(* The retention service and the clock *)

\* The interval of do_run ticks.
SweepStarts ==
    /\ sweep = "resting" /\ sweep' = "tokens"
    /\ UNCHANGED <<day, faults, db, process>>

\* delete_expired_tokens
DeleteExpiredTokens ==
    /\ sweep = "tokens" /\ sweep' = "sessions"
    /\ tokens' = Remove(tokens, {t \in DOMAIN tokens :
                                    tokens[t].expires <= day \/ tokens[t].revoked})
    /\ UNCHANGED <<day, faults, process, users, sessions, rows, content>>

\* A point in time lies before the cutoff of a window.
Before(time, window) == time + window < day

\* Mutant: the window of live sessions is applied to archived ones too.
OutdatedAll == {s \in DOMAIN sessions : Before(sessions[s].updated, SessionDays)}

\* Sessions that nobody updated, and archived ones, have windows of their own.
Outdated == {s \in DOMAIN sessions : /\ sessions[s].archived = None
                                     /\ Before(sessions[s].updated, SessionDays)}
OutdatedArchived == {s \in DOMAIN sessions : /\ sessions[s].archived # None
                                             /\ Before(sessions[s].archived, ArchivedDays)}

PurgeOldSessions ==
    /\ sweep = "sessions" /\ sweep' = "archived"
    /\ Cascade(Outdated)
    /\ UNCHANGED <<day, faults, process>>

PurgeArchivedSessions ==
    /\ sweep = "archived" /\ sweep' = "traces"
    /\ Cascade(OutdatedArchived)
    /\ UNCHANGED <<day, faults, process>>

\* purge_traces: the events and their content, in one transaction.
PurgeTraces ==
    LET old == {i \in DOMAIN rows : rows[i].table = "trace_event"
                                    /\ Before(rows[i].created, TraceDays)}
    IN
    /\ sweep = "traces" /\ sweep' = "resting"
    /\ rows' = Remove(rows, old)
    /\ content' = Remove(content, old)
    /\ UNCHANGED <<day, faults, process, users, tokens, sessions>>

\* A statement of the sweep fails; cleanup notes the error and goes on.
SweepFault ==
    /\ sweep \in {"tokens", "sessions", "archived", "traces"} /\ faults < MaxFaults
    /\ sweep' = CASE sweep = "tokens" -> "sessions" [] sweep = "sessions" -> "archived"
                  [] sweep = "archived" -> "traces" [] sweep = "traces" -> "resting"
    /\ faults' = faults + 1
    /\ UNCHANGED <<day, db, process>>

NextDay == day < MaxDay /\ day' = day + 1 /\ UNCHANGED <<sweep, faults, db, process>>

----------------------------------------------------------------------------
(* Specification *)

Init ==
    /\ day = 0
    /\ users = Initial.users /\ tokens = Initial.tokens
    /\ sessions = Initial.sessions /\ rows = Initial.rows
    /\ content = [i \in {j \in DOMAIN rows : rows[j].table \in PairedTables} |-> "clear"]
    /\ cmd \in Workloads
    /\ pc = [r \in Requests |-> CASE cmd[r].do = "bootstrap" -> "bootstrap"
                                  [] cmd[r].do = "sign_in" -> "find_user"
                                  [] OTHER -> "auth"]
    /\ user = [r \in Requests |-> None]
    /\ snap = [r \in Requests |-> None]
    /\ reply = [r \in Requests |-> None]
    /\ sweep = "resting" /\ faults = 0

Account(r) == Authenticate(r) \/ Bootstrap(r) \/ FindUser(r) \/ IssueToken(r)
              \/ SignOut(r) \/ Me(r)

SessionRoutes(r) ==
    \/ ListSessions(r) \/ CreateSession(r) \/ RereadSession(r) \/ Open(r)
    \/ ReadSession(r) \/ CheckUpdate(r) \/ WriteUpdate(r) \/ RecheckDelete(r)
    \/ DeleteSession(r)

Lists(r) ==
    \/ ListMessages(r) \/ GetTraceEvents(r) \/ GetCostEvents(r) \/ ListTraceContent(r)
    \/ ListUserMemory(r) \/ ListContextMemory(r) \/ GetSessionState(r) \/ ListContents(r)

TurnWrites(r) ==
    \/ AssertWriteOwned(r) \/ AppendPaired(r) \/ AppendPlain(r) \/ AppendTrace(r)
    \/ SetRunState(r) \/ SetRunInput(r)
    \/ SetPlanStatus(r) \/ SetDiffStatus(r) \/ SetToolCallOutcome(r)
    \/ ReadCallContent(r) \/ WriteRow(r) \/ AssertContentOwned(r) \/ SetContent(r) \/ GetContent(r)

Memories(r) == LookupToRecord(r) \/ Record(r) \/ LookupToForget(r) \/ CheckForget(r)
               \/ Forget(r)

Sweeping == \/ DeleteExpiredTokens \/ PurgeOldSessions \/ PurgeArchivedSessions
            \/ PurgeTraces \/ SweepFault

Next ==
    \/ \E r \in Requests : \/ Account(r) \/ SessionRoutes(r) \/ Lists(r)
                           \/ TurnWrites(r) \/ Memories(r)
    \/ SweepStarts \/ Sweeping \/ NextDay

Spec == Init /\ [][Next]_vars

----------------------------------------------------------------------------
(* Properties *)

\* Every row is a row of its table, was stamped no later than now, and carries an id
\* that the database started with or that a request drew.
TypeOK ==
    /\ day \in 0..MaxDay /\ faults \in 0..MaxFaults
    /\ sweep \in {"resting", "tokens", "sessions", "archived", "traces"}
    /\ users \subseteq Accounts
    /\ DOMAIN tokens \subseteq DOMAIN Initial.tokens \cup Requests
    /\ tokens \in [DOMAIN tokens -> TokenType]
    /\ DOMAIN sessions \subseteq DOMAIN Initial.sessions \cup Requests
    /\ sessions \in [DOMAIN sessions -> SessionType]
    /\ DOMAIN rows \subseteq DOMAIN Initial.rows \cup Requests
    /\ rows \in [DOMAIN rows -> RowType]
    /\ content \in [DOMAIN content -> {"clear", "sealed"}]
    /\ cmd \in Workloads
    /\ pc \in [Requests -> Labels]
    /\ user \in [Requests -> Accounts \cup {None}]
    /\ DOMAIN snap = Requests /\ DOMAIN reply = Requests

\* No row outlives its session and none belongs to a session of another user,
\* whatever is deleted or swept between the ownership check of a write
\* (assert_write_owned) and the write itself.
NoOrphans ==
    \A i \in DOMAIN rows : rows[i].session # None =>
        /\ rows[i].session \in DOMAIN sessions
        /\ sessions[rows[i].session].user = rows[i].user

\* A row with a secret and its _content row come and go together: create_paired,
\* forget_paired, the cascades and purge_traces leave no half behind.
Paired ==
    DOMAIN content = {i \in DOMAIN rows : rows[i].table \in PairedTables}

\* A session that was deleted or purged does not come back: not even through an
\* update_session that read it before.
DeletedStaysDeleted ==
    [][\A s \in DOMAIN sessions' \ DOMAIN sessions :
            s \in Requests /\ pc[s] = "create"]_vars

\* After a sign-out was answered, its token authenticates nobody, also once the
\* sweep has removed its row.
SignedOutStaysOut ==
    [][\A r, q \in Requests :
            /\ pc[r] = "auth" /\ pc'[r] # "done" /\ pc'[r] # "auth"
            /\ cmd[q].do = "sign_out" /\ reply[q] = "ok"
            => cmd[q].token # cmd[r].token]_vars

\* A session disappears only because its owner deleted it or because its own
\* window has passed: archiving or restoring it starts the other window.
RetentionKeeps ==
    [][\A s \in DOMAIN sessions \ DOMAIN sessions' :
            \/ \E r \in Requests : pc[r] = "cascade" /\ cmd[r].session = s
                                   /\ user[r] = sessions[s].user
            \/ sessions[s].archived = None /\ sessions[s].updated + SessionDays < day
            \/ /\ sessions[s].archived # None
               /\ sessions[s].archived + ArchivedDays < day]_vars
=============================================================================
