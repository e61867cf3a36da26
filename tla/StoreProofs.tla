---------------------------- MODULE StoreProofs ----------------------------
(***************************************************************************)
(* Proofs about Store for any number of requests, any database they find   *)
(* and any commands.                                                       *)
(*                                                                         *)
(* The properties are about what happens between two statements of one     *)
(* request, so the inductive invariant says what each request may still    *)
(* rely on: a session it found its own stays its own or is gone (Cleared), *)
(* a row it read is the row that is there or none (HoldsRow, HoldsSession),*)
(* and an id that was drawn once is not drawn again (Fresh).               *)
(***************************************************************************)
EXTENDS Store, TLAPS

----------------------------------------------------------------------------
(* The inductive invariant *)

\* A session id that is in use, or was once.
Known(s) == \/ s \in DOMAIN Initial.sessions
            \/ s \in Requests /\ pc[s] \in {"reread", "done"}

\* The id of a row or a token that is in use, or was once.
Spent(i) == i \in Requests => pc[i] = "done"

Fresh ==
    /\ \A s \in DOMAIN sessions : Known(s)
    /\ \A i \in DOMAIN rows : Spent(i)
    /\ \A t \in DOMAIN tokens : Spent(t)

\* What Opened is defined for.
Openable == {"update", "get", "state", "delete", "append", "set_state", "set_status",
             "seal", "read", "history", "facts", "record", "forget"}

Started(r) ==
    /\ pc[r] = "auth" => cmd[r].do \in Doable \ {"bootstrap", "sign_in"}
    /\ pc[r] = "open" => cmd[r].do \in Openable
    /\ pc[r] = "issue" => cmd[r].as \in Accounts
    /\ pc[r] = "write" => cmd[r].session # None

Cleared(r) ==
    LET s == cmd[r].session IN
    /\ pc[r] \in {"check_update", "write_update", "cascade", "write", "lookup", "record"}
    /\ s # None
    => /\ Known(s)
       /\ s \in DOMAIN sessions => sessions[s].user = user[r]

HoldsSession(r) ==
    pc[r] \in {"check_update", "write_update"} =>
        snap[r] \in SessionType /\ snap[r].user = user[r]

HoldsRow(r) ==
    LET i == cmd[r].row IN
    pc[r] \in {"read_content", "write_row"} =>
        /\ snap[r] \in RowType
        /\ Spent(i)
        /\ i \in DOMAIN rows => /\ rows[i].table = snap[r].table
                                /\ rows[i].session = snap[r].session
                                /\ rows[i].user = snap[r].user

SignedOut(r) ==
    LET t == cmd[r].token IN
    cmd[r].do = "sign_out" =>
        /\ pc[r] \in {"auth", "sign_out", "done"}
        /\ reply[r] = "ok" => /\ pc[r] = "done"
                              /\ Spent(t)
                              /\ t \in DOMAIN tokens => tokens[t].revoked

Sound(r) == Started(r) /\ Cleared(r) /\ HoldsSession(r) /\ HoldsRow(r) /\ SignedOut(r)

IInv == TypeOK /\ NoOrphans /\ Paired /\ Fresh /\ \A r \in Requests : Sound(r)

----------------------------------------------------------------------------
(* What a step of one request may do to the others *)

Settles ==
    \A x \in Requests : /\ pc[x] = "done" => pc'[x] = "done"
                        /\ pc[x] = "reread" => pc'[x] \in {"reread", "done"}

SessionsKeep ==
    \A s \in DOMAIN sessions' :
        IF s \in DOMAIN sessions THEN sessions'[s].user = sessions[s].user
        ELSE ~Known(s)

RowsKeep ==
    \A i \in DOMAIN rows' :
        IF i \in DOMAIN rows
        THEN /\ rows'[i].table = rows[i].table
             /\ rows'[i].session = rows[i].session
             /\ rows'[i].user = rows[i].user
        ELSE ~Spent(i)

TokensKeep ==
    \A t \in DOMAIN tokens' :
        IF t \in DOMAIN tokens THEN tokens[t].revoked => tokens'[t].revoked
        ELSE ~Spent(t)

Keeps == /\ Settles /\ SessionsKeep /\ RowsKeep /\ TokensKeep
         /\ cmd' = cmd /\ day' \in 0..MaxDay /\ day <= day'

\* Nothing of request q changes.
Rests(q) == pc'[q] = pc[q] /\ user'[q] = user[q] /\ snap'[q] = snap[q] /\ reply'[q] = reply[q]

LEMMA KnownStays == ASSUME Settles, NEW s, Known(s) PROVE Known(s)'
BY DEF Settles, Known

LEMMA SpentStays == ASSUME Settles, NEW i, Spent(i) PROVE Spent(i)'
BY DEF Settles, Spent

\* A type that is stamped by now stays one as the clock goes on.
LEMMA TypesGrow ==
    ASSUME TypeOK, day' \in 0..MaxDay, day <= day'
    PROVE  SessionType \subseteq SessionType' /\ RowType \subseteq RowType'
<1>1. 0..day \subseteq 0..day'
    BY BoundsAssumption DEF TypeOK
<1> QED BY <1>1 DEF SessionType, RowType, Accounts, SessionIds, Keys

\* A request that rests stays sound through a step that keeps what it relies on.
LEMMA OthersStaySound ==
    ASSUME IInv, Keeps, NEW q \in Requests, Rests(q)
    PROVE  Sound(q)'
<1> Sound(q)
    BY DEF IInv
<1> TypeOK
    BY DEF IInv
<1>1. Started(q)'
    BY DEF Sound, Started, Keeps, Rests, Accounts
<1>2. Cleared(q)'
    <2> SUFFICES ASSUME pc[q] \in {"check_update", "write_update", "cascade", "write",
                                   "lookup", "record"},
                        cmd[q].session # None
                 PROVE  /\ Known(cmd[q].session)'
                        /\ cmd[q].session \in DOMAIN sessions' =>
                                sessions'[cmd[q].session].user = user[q]
        BY DEF Cleared, Keeps, Rests
    <2>1. /\ Known(cmd[q].session)
          /\ cmd[q].session \in DOMAIN sessions =>
                sessions[cmd[q].session].user = user[q]
        BY DEF Sound, Cleared
    <2>2. Known(cmd[q].session)'
        BY <2>1, KnownStays DEF Keeps, Known
    <2> QED BY <2>1, <2>2 DEF Keeps, SessionsKeep
<1>3. HoldsSession(q)'
    BY TypesGrow DEF Sound, HoldsSession, Keeps, Rests
<1>4. HoldsRow(q)'
    <2> SUFFICES ASSUME pc[q] \in {"read_content", "write_row"}
                 PROVE  /\ snap[q] \in RowType'
                        /\ Spent(cmd[q].row)'
                        /\ cmd[q].row \in DOMAIN rows' =>
                              /\ rows'[cmd[q].row].table = snap[q].table
                              /\ rows'[cmd[q].row].session = snap[q].session
                              /\ rows'[cmd[q].row].user = snap[q].user
        BY DEF HoldsRow, Keeps, Rests
    <2>1. /\ snap[q] \in RowType
          /\ Spent(cmd[q].row)
          /\ cmd[q].row \in DOMAIN rows =>
                /\ rows[cmd[q].row].table = snap[q].table
                /\ rows[cmd[q].row].session = snap[q].session
                /\ rows[cmd[q].row].user = snap[q].user
        BY DEF Sound, HoldsRow
    <2>2. Spent(cmd[q].row)'
        BY <2>1, SpentStays DEF Keeps, Spent
    <2>3. snap[q] \in RowType'
        BY <2>1, TypesGrow DEF Keeps
    <2> QED BY <2>1, <2>2, <2>3 DEF Keeps, RowsKeep
<1>5. SignedOut(q)'
    <2> SUFFICES ASSUME cmd[q].do = "sign_out"
                 PROVE  /\ pc[q] \in {"auth", "sign_out", "done"}
                        /\ reply[q] = "ok" =>
                              /\ pc[q] = "done"
                              /\ Spent(cmd[q].token)'
                              /\ cmd[q].token \in DOMAIN tokens' =>
                                    tokens'[cmd[q].token].revoked
        BY DEF SignedOut, Keeps, Rests
    <2>1. /\ pc[q] \in {"auth", "sign_out", "done"}
          /\ reply[q] = "ok" =>
                /\ pc[q] = "done"
                /\ Spent(cmd[q].token)
                /\ cmd[q].token \in DOMAIN tokens => tokens[cmd[q].token].revoked
        BY DEF Sound, SignedOut
    <2>2. reply[q] = "ok" => Spent(cmd[q].token)'
        BY <2>1, SpentStays DEF Keeps, Spent
    <2> QED BY <2>1, <2>2 DEF Keeps, TokensKeep
<1> QED BY <1>1, <1>2, <1>3, <1>4, <1>5 DEF Sound

----------------------------------------------------------------------------
(* The shape of a request's step *)

\* Request r goes on to a label and the others rest.
Moves(r) ==
    /\ pc[r] # "done" /\ pc' = [pc EXCEPT ![r] = pc'[r]] /\ pc'[r] \in Labels
    /\ pc[r] = "reread" => pc'[r] = "done"
    /\ user' \in [Requests -> Accounts \cup {None}]
    /\ DOMAIN snap' = Requests /\ DOMAIN reply' = Requests
    /\ \A q \in Requests \ {r} : Rests(q)
    /\ cmd' = cmd /\ UNCHANGED service

LEMMA GotoMoves ==
    ASSUME TypeOK, NEW r \in Requests, NEW l \in Labels, Goto(r, l), UNCHANGED service,
           pc[r] \notin {"done", "reread"}
    PROVE  /\ Moves(r) /\ pc'[r] = l
           /\ user'[r] = user[r] /\ snap'[r] = snap[r] /\ reply'[r] = reply[r]
BY DEF TypeOK, Goto, Moves, Rests

LEMMA KeepMoves ==
    ASSUME TypeOK, NEW r \in Requests, NEW l \in Labels, NEW what, Keep(r, l, what),
           UNCHANGED service, pc[r] \notin {"done", "reread"}
    PROVE  /\ Moves(r) /\ pc'[r] = l
           /\ user'[r] = user[r] /\ snap'[r] = what /\ reply'[r] = reply[r]
BY DEF TypeOK, Keep, Moves, Rests

LEMMA AnswerMoves ==
    ASSUME TypeOK, NEW r \in Requests, NEW code, Answer(r, code),
           UNCHANGED service, pc[r] # "done"
    PROVE  /\ Moves(r) /\ pc'[r] = "done"
           /\ user'[r] = user[r] /\ snap'[r] = snap[r] /\ reply'[r] = code
<1>1. pc' = [pc EXCEPT ![r] = "done"] /\ pc'[r] = "done" /\ "done" \in Labels
    BY DEF TypeOK, Answer, Labels
<1> QED BY <1>1 DEF TypeOK, Answer, Moves, Rests

LEMMA MovesSettles ==
    ASSUME TypeOK, NEW r \in Requests, Moves(r)
    PROVE  Settles
BY DEF TypeOK, Moves, Rests, Settles

\* A request that is answered relies on nothing, unless it signed out.
LEMMA DoneIsSound ==
    ASSUME NEW r \in Requests, pc'[r] = "done", cmd'[r].do # "sign_out" \/ reply'[r] # "ok"
    PROVE  Sound(r)'
BY DEF Sound, Started, Cleared, HoldsSession, HoldsRow, SignedOut

\* A step of a request that keeps what the others rely on.
LEMMA RequestStep ==
    ASSUME IInv, NEW r \in Requests, Moves(r), SessionsKeep, RowsKeep, TokensKeep,
           TypeOK', NoOrphans', Paired', Fresh', Sound(r)'
    PROVE  IInv'
<1>1. Keeps
    BY MovesSettles DEF IInv, Moves, Keeps, TypeOK, service
<1>2. \A q \in Requests \ {r} : Rests(q)
    BY DEF Moves
<1>3. \A q \in Requests \ {r} : Sound(q)'
    BY <1>1, <1>2, OthersStaySound
<1> QED BY <1>3 DEF IInv

LEMMA UnchangedKeeps ==
    /\ UNCHANGED sessions => SessionsKeep
    /\ UNCHANGED rows => RowsKeep
    /\ UNCHANGED tokens => TokensKeep
BY DEF SessionsKeep, RowsKeep, TokensKeep

\* A step that only reads the database.
LEMMA ReadStep ==
    ASSUME IInv, NEW r \in Requests, Moves(r), UNCHANGED db, Sound(r)'
    PROVE  IInv'
<1>1. TypeOK'
    BY DEF IInv, TypeOK, Moves, db, service, SessionType, RowType
<1>2. NoOrphans' /\ Paired'
    BY DEF IInv, NoOrphans, Paired, db
<1>3. Settles
    BY MovesSettles DEF IInv
<1>4. Fresh'
    BY <1>3, KnownStays, SpentStays DEF IInv, Fresh, db
<1> QED BY <1>1, <1>2, <1>4, RequestStep, UnchangedKeeps DEF db

----------------------------------------------------------------------------
(* Steps that only read *)

\* What At says of a step.
LEMMA AtLabel ==
    ASSUME NEW r, NEW l, At(r, l) PROVE pc[r] = l /\ UNCHANGED service
BY DEF At

LEMMA OpenedLabels ==
    ASSUME NEW do \in Openable
    PROVE  Opened(do) \in {"recheck", "session", "assert", "read_row", "assert_content",
                           "bases", "lookup"}
BY DEF Openable, Opened, RouteCall, TurnCall, ContentCall

LEMMA AuthenticateStep ==
    ASSUME IInv, NEW r \in Requests, Authenticate(r) PROVE IInv'
<1> TypeOK /\ Sound(r) /\ pc[r] = "auth" /\ UNCHANGED service /\ UNCHANGED db
    BY DEF IInv, Authenticate, At
<1>1. CASE Answer(r, Verdict(cmd[r].token, cmd[r].genuine))
            /\ Verdict(cmd[r].token, cmd[r].genuine) # "ok"
    <2>1. /\ Moves(r) /\ pc'[r] = "done"
          /\ reply'[r] = Verdict(cmd[r].token, cmd[r].genuine)
        BY <1>1, AnswerMoves
    <2> QED BY <1>1, <2>1, DoneIsSound, ReadStep
<1>2. CASE /\ Verdict(cmd[r].token, cmd[r].genuine) = "ok"
           /\ pc' = [pc EXCEPT ![r] = Handler(r)]
           /\ user' = [user EXCEPT ![r] = tokens[cmd[r].token].user]
           /\ UNCHANGED <<cmd, snap, reply>>
    <2>1. cmd[r].token \in DOMAIN tokens
        BY <1>2 DEF Verdict
    <2>2. tokens[cmd[r].token].user \in Accounts
        BY <2>1 DEF TypeOK, TokenType
    <2>3. cmd[r].do \in Doable \ {"bootstrap", "sign_in"}
        BY DEF Sound, Started
    <2>4. /\ Handler(r) \in {"me", "sign_out", "list", "create", "session", "lookup",
                             "bases", "open"}
          /\ Handler(r) = "open" => cmd[r].do \in Openable
          /\ Handler(r) = "lookup" => cmd[r].session = None
          /\ cmd[r].do = "sign_out" => Handler(r) = "sign_out"
        BY <2>3 DEF Handler, Doable, Openable
    <2>5. pc'[r] = Handler(r) /\ pc'[r] \in Labels
        BY <1>2, <2>4 DEF TypeOK, Labels
    <2>6. Moves(r)
        BY <1>2, <2>2, <2>5 DEF TypeOK, Moves, Rests
    <2>7. reply'[r] = "ok" => cmd[r].do # "sign_out"
        BY <1>2 DEF Sound, SignedOut
    <2>8. Sound(r)'
        BY <1>2, <2>4, <2>5, <2>7
        DEF Sound, Started, Cleared, HoldsSession, HoldsRow, SignedOut
    <2> QED BY <2>6, <2>8, ReadStep
<1> QED BY <1>1, <1>2 DEF Authenticate

LEMMA NotSigningOut ==
    ASSUME NEW r \in Requests, Sound(r), pc[r] \notin {"auth", "sign_out", "done"}
    PROVE  cmd[r].do # "sign_out"
BY DEF Sound, SignedOut

\* Labels at which a request relies on nothing it has read.
Careless == {"session", "bases", "contents", "recheck", "assert", "read_row",
             "assert_content", "set_content", "get_content", "check_forget", "forget",
             "reread", "done"}

LEMMA CarelessIsSound ==
    ASSUME NEW r \in Requests, pc'[r] \in Careless, cmd'[r].do # "sign_out"
    PROVE  Sound(r)'
BY DEF Careless, Sound, Started, Cleared, HoldsSession, HoldsRow, SignedOut

\* A step that reads and goes on to such a label.
LEMMA CarelessStep ==
    ASSUME IInv, NEW r \in Requests, Moves(r), UNCHANGED db, pc'[r] \in Careless,
           pc[r] \notin {"auth", "sign_out"}
    PROVE  IInv'
<1>1. pc[r] # "done" /\ cmd' = cmd
    BY DEF Moves
<1>2. cmd'[r].do # "sign_out"
    BY <1>1, NotSigningOut DEF IInv
<1> QED BY <1>2, CarelessIsSound, ReadStep

LEMMA FindUserStep ==
    ASSUME IInv, NEW r \in Requests, FindUser(r) PROVE IInv'
<1> TypeOK /\ Sound(r) /\ pc[r] = "find_user" /\ UNCHANGED service /\ UNCHANGED db
    BY DEF IInv, FindUser, At
<1>1. ASSUME NEW code, Answer(r, code) PROVE IInv'
    BY <1>1, AnswerMoves, CarelessStep DEF Careless
<1>2. CASE cmd[r].as \in users /\ Goto(r, "issue")
    <2>1. "issue" \in Labels
        BY DEF Labels
    <2>2. Moves(r) /\ pc'[r] = "issue"
        BY <1>2, <2>1, GotoMoves
    <2>3. cmd'[r].as \in Accounts /\ cmd'[r].do # "sign_out"
        BY <1>2, <2>2, NotSigningOut DEF TypeOK, Moves
    <2>4. Sound(r)'
        BY <2>2, <2>3 DEF Sound, Started, Cleared, HoldsSession, HoldsRow, SignedOut, Accounts
    <2> QED BY <2>2, <2>4, ReadStep
<1> QED BY <1>1, <1>2 DEF FindUser

LEMMA SessionReadSteps ==
    ASSUME IInv, NEW r \in Requests, Me(r) \/ ListSessions(r) \/ RereadSession(r)
    PROVE  IInv'
<1> TypeOK /\ Sound(r)
    BY DEF IInv
<1>1. CASE Me(r)
    BY <1>1, AnswerMoves, CarelessStep, AtLabel DEF Me, Careless
<1>2. CASE ListSessions(r)
    <2>1. Moves(r) /\ pc'[r] = "done"
        BY <1>2, AtLabel DEF ListSessions, TypeOK, Labels, Moves, Rests
    <2> QED BY <1>2, <2>1, CarelessStep, AtLabel DEF ListSessions, Careless
<1>3. CASE RereadSession(r)
    BY <1>3, AnswerMoves, CarelessStep, AtLabel DEF RereadSession, Careless
<1> QED BY <1>1, <1>2, <1>3

\* A session that is found to be the caller's.
LEMMA OwnedIsKnown ==
    ASSUME IInv, NEW u, NEW s, Owned(u, s)
    PROVE  Known(s) /\ s # None /\ s \in DOMAIN sessions /\ sessions[s].user = u
BY BoundsAssumption DEF IInv, TypeOK, Fresh, Owned

LEMMA ClearedByOwner ==
    ASSUME IInv, NEW r \in Requests, Owned(user[r], cmd[r].session), UNCHANGED db, Moves(r),
           user'[r] = user[r]
    PROVE  Cleared(r)'
<1>1. /\ Known(cmd[r].session) /\ cmd[r].session \in DOMAIN sessions
      /\ sessions[cmd[r].session].user = user[r]
    BY OwnedIsKnown
<1>2. Known(cmd[r].session)'
    BY <1>1, MovesSettles, KnownStays DEF IInv, Moves, Known
<1>3. cmd' = cmd /\ sessions' = sessions
    BY DEF Moves, db
<1> QED BY <1>1, <1>2, <1>3 DEF Cleared

LEMMA OpenStep ==
    ASSUME IInv, NEW r \in Requests, Open(r) PROVE IInv'
<1> TypeOK /\ Sound(r) /\ pc[r] = "open" /\ UNCHANGED service /\ UNCHANGED db
    BY DEF IInv, Open, At
<1>1. CASE Answer(r, "session_not_found")
    BY <1>1, AnswerMoves, CarelessStep DEF Careless
<1>2. CASE Owned(user[r], cmd[r].session) /\ Goto(r, Opened(cmd[r].do))
    <2>1. Opened(cmd[r].do) \in {"recheck", "session", "assert", "read_row",
                                 "assert_content", "bases", "lookup"}
        BY OpenedLabels DEF Sound, Started
    <2>2. Opened(cmd[r].do) \in Labels
        BY <2>1 DEF Labels
    <2>3. Moves(r) /\ pc'[r] = Opened(cmd[r].do) /\ user'[r] = user[r]
        BY <1>2, <2>2, GotoMoves
    <2>4. CASE pc'[r] \in Careless
        BY <2>3, <2>4, CarelessStep
    <2>5. CASE pc'[r] = "lookup"
        <3>1. Cleared(r)'
            BY <1>2, <2>3, ClearedByOwner
        <3>2. cmd'[r].do # "sign_out"
            BY <2>3, NotSigningOut DEF Moves
        <3>3. Sound(r)'
            BY <2>5, <3>1, <3>2 DEF Sound, Started, HoldsSession, HoldsRow, SignedOut
        <3> QED BY <2>3, <3>3, ReadStep
    <2> QED BY <2>1, <2>3, <2>4, <2>5 DEF Careless
<1> QED BY <1>1, <1>2 DEF Open

LEMMA ReadSessionStep ==
    ASSUME IInv, NEW r \in Requests, ReadSession(r) PROVE IInv'
<1> TypeOK /\ Sound(r) /\ pc[r] = "session" /\ UNCHANGED service /\ UNCHANGED db
    BY DEF IInv, ReadSession, At
<1>1. CASE Answer(r, "session_not_found")
    BY <1>1, AnswerMoves, CarelessStep DEF Careless
<1>2. CASE /\ Visible(r) /\ cmd[r].do = "update"
           /\ Keep(r, "check_update", sessions[cmd[r].session])
    <2>1. "check_update" \in Labels
        BY DEF Labels
    <2>2. /\ Moves(r) /\ pc'[r] = "check_update" /\ user'[r] = user[r]
          /\ snap'[r] = sessions[cmd[r].session]
        BY <1>2, <2>1, KeepMoves
    <2>3. Owned(user[r], cmd[r].session)
        BY <1>2 DEF Visible
    <2>4. snap'[r] \in SessionType /\ snap'[r].user = user[r] /\ SessionType' = SessionType
        BY <2>2, <2>3 DEF Owned, TypeOK, SessionType, service
    <2>5. Cleared(r)'
        BY <2>2, <2>3, ClearedByOwner
    <2>6. cmd'[r].do # "sign_out"
        BY <2>2, NotSigningOut DEF Moves
    <2>7. Sound(r)'
        BY <2>2, <2>4, <2>5, <2>6 DEF Sound, Started, HoldsSession, HoldsRow, SignedOut
    <2> QED BY <2>2, <2>7, ReadStep
<1>3. CASE Keep(r, "bases", sessions[cmd[r].session])
    <2>1. "bases" \in Labels
        BY DEF Labels
    <2> QED BY <1>3, <2>1, KeepMoves, CarelessStep DEF Careless
<1> QED BY <1>1, <1>2, <1>3 DEF ReadSession

\* The row an update writes is a session of the same user.
LEMMA UpdatedIsSession ==
    ASSUME TypeOK, NEW r \in Requests, snap[r] \in SessionType
    PROVE  Updated(r) \in SessionType /\ Updated(r).user = snap[r].user
<1>1. cmd[r].archived \in {"yes", "no", "omitted"} /\ day \in 0..day
    BY WorkloadsAssumption, BoundsAssumption DEF TypeOK
<1> DEFINE archived == CASE cmd[r].archived = "yes" -> day
                         [] cmd[r].archived = "no" -> None
                         [] cmd[r].archived = "omitted" -> snap[r].archived
           titled == IF cmd[r].title THEN ~snap[r].titled ELSE snap[r].titled
<1>2. archived \in 0..day \cup {None}
    <2>1. snap[r].archived \in 0..day \cup {None}
        BY DEF SessionType
    <2>2. CASE cmd[r].archived = "yes"
        <3>1. archived = day
            BY <2>2, Zenon
        <3> QED BY <1>1, <3>1
    <2>3. CASE cmd[r].archived = "no"
        <3>1. archived = None
            BY <2>3, Zenon
        <3> QED BY <3>1
    <2>4. CASE cmd[r].archived = "omitted"
        <3>1. archived = snap[r].archived
            BY <2>4, Zenon
        <3> QED BY <2>1, <3>1
    <2> QED BY <1>1, <2>2, <2>3, <2>4
<1>3. titled \in BOOLEAN
    BY DEF SessionType
<1>4. Updated(r) = [snap[r] EXCEPT !.titled = titled, !.archived = archived, !.updated = day]
    BY Zenon DEF Updated
<1> HIDE DEF archived, titled
<1> QED BY <1>1, <1>2, <1>3, <1>4 DEF SessionType

LEMMA CheckUpdateStep ==
    ASSUME IInv, NEW r \in Requests, CheckUpdate(r) PROVE IInv'
<1> TypeOK /\ Sound(r) /\ pc[r] = "check_update" /\ UNCHANGED service /\ UNCHANGED db
    BY DEF IInv, CheckUpdate, At
<1>1. CASE Answer(r, "internal_error")
    BY <1>1, AnswerMoves, CarelessStep DEF Careless
<1>2. CASE Owned(user[r], cmd[r].session) /\ Keep(r, "write_update", Updated(r))
    <2>1. "write_update" \in Labels
        BY DEF Labels
    <2>2. /\ Moves(r) /\ pc'[r] = "write_update" /\ user'[r] = user[r]
          /\ snap'[r] = Updated(r)
        BY <1>2, <2>1, KeepMoves
    <2>3. snap[r] \in SessionType /\ snap[r].user = user[r]
        BY DEF Sound, HoldsSession
    <2>4. snap'[r] \in SessionType /\ snap'[r].user = user[r]
        BY <2>2, <2>3, UpdatedIsSession
    <2>5. SessionType' = SessionType
        BY DEF SessionType, service
    <2>6. Cleared(r)'
        BY <1>2, <2>2, ClearedByOwner
    <2>7. cmd'[r].do # "sign_out"
        BY <2>2, NotSigningOut DEF Moves
    <2>8. Sound(r)'
        BY <2>2, <2>4, <2>5, <2>6, <2>7 DEF Sound, Started, HoldsSession, HoldsRow, SignedOut
    <2> QED BY <2>2, <2>8, ReadStep
<1> QED BY <1>1, <1>2 DEF CheckUpdate

\* A step that goes on with a session just found to be the caller's.
LEMMA OwnedStep ==
    ASSUME IInv, NEW r \in Requests, Owned(user[r], cmd[r].session), UNCHANGED db, Moves(r),
           pc[r] \notin {"auth", "sign_out"},
           pc'[r] \in {"cascade", "write", "lookup"}, user'[r] = user[r]
    PROVE  IInv'
<1>1. Cleared(r)'
    BY ClearedByOwner
<1>2. cmd'[r].do # "sign_out" /\ cmd'[r].session # None
    BY NotSigningOut, OwnedIsKnown DEF IInv, Moves
<1>3. Sound(r)'
    BY <1>1, <1>2 DEF Sound, Started, HoldsSession, HoldsRow, SignedOut
<1> QED BY <1>3, ReadStep

LEMMA RecheckSteps ==
    ASSUME IInv, NEW r \in Requests, RecheckDelete(r) \/ AssertWriteOwned(r)
    PROVE  IInv'
<1> TypeOK /\ pc[r] \in {"recheck", "assert"} /\ UNCHANGED service /\ UNCHANGED db
    BY DEF IInv, RecheckDelete, AssertWriteOwned, At
<1>1. ASSUME NEW code, Answer(r, code) PROVE IInv'
    BY <1>1, AnswerMoves, CarelessStep DEF Careless
<1>2. ASSUME NEW l \in {"cascade", "write", "lookup"}, Goto(r, l),
             Owned(user[r], cmd[r].session)
      PROVE  IInv'
    <2>1. l \in Labels
        BY DEF Labels
    <2> QED BY <1>2, <2>1, GotoMoves, OwnedStep
<1> QED BY <1>1, <1>2 DEF RecheckDelete, AssertWriteOwned

LEMMA ListSteps ==
    ASSUME IInv, NEW r \in Requests, Lists(r) PROVE IInv'
<1> TypeOK
    BY DEF IInv
<1>1. ASSUME NEW do, NEW found, Bases(r, do, found) PROVE IInv'
    <2>1. "contents" \in Labels
        BY DEF Labels
    <2> QED BY <1>1, <2>1, AtLabel, KeepMoves, CarelessStep DEF Bases, Careless
<1>2. CASE ListContents(r)
    <2>1. Moves(r) /\ pc'[r] = "done"
        BY <1>2, AtLabel DEF ListContents, TypeOK, Labels, Moves, Rests
    <2> QED BY <1>2, <2>1, CarelessStep, AtLabel DEF ListContents, Careless
<1> QED BY <1>1, <1>2 DEF Lists, ListMessages, GetTraceEvents, GetCostEvents,
                          ListTraceContent, ListUserMemory, ListContextMemory,
                          GetSessionState

\* A row that is read before it is written.
LEMMA ReadRowStep ==
    ASSUME IInv, NEW r \in Requests, NEW table, NEW l \in {"write_row", "read_content"},
           ReadRow(r, table, l)
    PROVE  IInv'
<1> TypeOK /\ Sound(r) /\ pc[r] = "read_row" /\ UNCHANGED service /\ UNCHANGED db
    BY DEF IInv, ReadRow, At
<1> DEFINE i == cmd[r].row
<1>1. CASE Answer(r, "not_found")
    BY <1>1, AnswerMoves, CarelessStep DEF Careless
<1>2. CASE i \in DOMAIN rows /\ Keep(r, l, [rows[i] EXCEPT !.status = "settled"])
    <2>1. l \in Labels
        BY DEF Labels
    <2>2. Moves(r) /\ pc'[r] = l /\ snap'[r] = [rows[i] EXCEPT !.status = "settled"]
        BY <1>2, <2>1, KeepMoves
    <2>3. rows[i] \in RowType /\ RowType' = RowType /\ rows' = rows /\ cmd' = cmd
        BY <1>2, <2>2 DEF TypeOK, RowType, service, Moves, db
    <2>4. /\ snap'[r] \in RowType'
          /\ rows[i].table = snap'[r].table
          /\ rows[i].session = snap'[r].session
          /\ rows[i].user = snap'[r].user
        BY <2>2, <2>3 DEF RowType
    <2>5. Spent(i)
        BY <1>2 DEF IInv, Fresh
    <2>6. Spent(i)'
        BY <2>2, <2>3, <2>5, SpentStays, MovesSettles DEF Spent
    <2>7. HoldsRow(r)'
        BY <2>3, <2>4, <2>6 DEF HoldsRow
    <2>8. cmd'[r].do # "sign_out"
        BY <2>2, NotSigningOut DEF Moves
    <2>9. Sound(r)'
        BY <2>2, <2>7, <2>8 DEF Sound, Started, Cleared, HoldsSession, SignedOut
    <2> QED BY <2>2, <2>9, ReadStep
<1> QED BY <1>1, <1>2 DEF ReadRow

LEMMA ReadCallContentStep ==
    ASSUME IInv, NEW r \in Requests, ReadCallContent(r) PROVE IInv'
<1> TypeOK /\ Sound(r) /\ pc[r] = "read_content" /\ UNCHANGED service /\ UNCHANGED db
    BY DEF IInv, ReadCallContent, At
<1>1. CASE Answer(r, "not_found")
    BY <1>1, AnswerMoves, CarelessStep DEF Careless
<1>2. CASE Goto(r, "write_row")
    <2>1. "write_row" \in Labels
        BY DEF Labels
    <2>2. Moves(r) /\ pc'[r] = "write_row" /\ snap'[r] = snap[r]
        BY <1>2, <2>1, GotoMoves
    <2>3. RowType' = RowType /\ rows' = rows /\ cmd' = cmd
        BY <2>2 DEF RowType, service, Moves, db
    <2>4. HoldsRow(r)
        BY DEF Sound
    <2>5. Spent(cmd[r].row)'
        BY <2>2, <2>3, <2>4, SpentStays, MovesSettles DEF Spent, HoldsRow
    <2>6. HoldsRow(r)'
        BY <2>2, <2>3, <2>4, <2>5 DEF HoldsRow
    <2>7. cmd'[r].do # "sign_out"
        BY <2>2, NotSigningOut DEF Moves
    <2>8. Sound(r)'
        BY <2>2, <2>6, <2>7 DEF Sound, Started, Cleared, HoldsSession, SignedOut
    <2> QED BY <2>2, <2>8, ReadStep
<1> QED BY <1>1, <1>2 DEF ReadCallContent

LEMMA ContentReadSteps ==
    ASSUME IInv, NEW r \in Requests, AssertContentOwned(r) \/ GetContent(r) \/ CheckForget(r)
    PROVE  IInv'
<1> TypeOK
    BY DEF IInv
<1> {"set_content", "get_content", "forget"} \subseteq Labels
    BY DEF Labels
<1>1. CASE AssertContentOwned(r)
    BY <1>1, AtLabel, AnswerMoves, GotoMoves, CarelessStep DEF AssertContentOwned, Careless
<1>2. CASE GetContent(r)
    <2>1. Moves(r) /\ pc'[r] = "done"
        BY <1>2, AtLabel DEF GetContent, TypeOK, Labels, Moves, Rests
    <2> QED BY <1>2, <2>1, CarelessStep, AtLabel DEF GetContent, Careless
<1>3. CASE CheckForget(r)
    BY <1>3, AtLabel, AnswerMoves, GotoMoves, CarelessStep DEF CheckForget, Careless
<1> QED BY <1>1, <1>2, <1>3

LEMMA LookupSteps ==
    ASSUME IInv, NEW r \in Requests, LookupToRecord(r) \/ LookupToForget(r)
    PROVE  IInv'
<1> TypeOK /\ Sound(r) /\ pc[r] = "lookup" /\ UNCHANGED service /\ UNCHANGED db
    BY DEF IInv, LookupToRecord, LookupToForget, At
<1>1. ASSUME NEW code, Answer(r, code) PROVE IInv'
    BY <1>1, AnswerMoves, CarelessStep DEF Careless
<1>2. ASSUME NEW i, Keep(r, "check_forget", i) PROVE IInv'
    <2>1. "check_forget" \in Labels
        BY DEF Labels
    <2> QED BY <1>2, <2>1, KeepMoves, CarelessStep DEF Careless
<1>3. ASSUME NEW i, Keep(r, "record", i) PROVE IInv'
    <2>1. "record" \in Labels
        BY DEF Labels
    <2>2. Moves(r) /\ pc'[r] = "record" /\ user'[r] = user[r]
        BY <1>3, <2>1, KeepMoves
    <2>3. cmd' = cmd /\ sessions' = sessions
        BY <2>2 DEF Moves, db
    <2>4. Cleared(r)
        BY DEF Sound
    <2>5. cmd[r].session # None => Known(cmd[r].session)'
        BY <2>2, <2>3, <2>4, MovesSettles, KnownStays DEF Cleared, Known
    <2>6. Cleared(r)'
        BY <2>2, <2>3, <2>4, <2>5 DEF Cleared
    <2>7. cmd'[r].do # "sign_out"
        BY <2>2, NotSigningOut DEF Moves
    <2>8. Sound(r)'
        BY <2>2, <2>6, <2>7 DEF Sound, Started, HoldsSession, HoldsRow, SignedOut
    <2> QED BY <2>2, <2>8, ReadStep
<1> QED BY <1>1, <1>2, <1>3 DEF LookupToRecord, LookupToForget

----------------------------------------------------------------------------
(* Steps that write *)

LEMMA PutType ==
    ASSUME NEW T, NEW f, f \in [DOMAIN f -> T], NEW id, NEW value \in T
    PROVE  Put(f, id, value) \in [DOMAIN f \cup {id} -> T]
BY DEF Put

LEMMA RemoveType ==
    ASSUME NEW T, NEW f, f \in [DOMAIN f -> T], NEW S
    PROVE  Remove(f, S) \in [DOMAIN f \ S -> T]
BY DEF Remove, Restrict

\* The part of the type invariant that a step of a request leaves alone.
LEMMA MovesTypes ==
    ASSUME TypeOK, NEW r \in Requests, Moves(r)
    PROVE  /\ day' = day /\ day' \in 0..MaxDay /\ faults' \in 0..MaxFaults
           /\ sweep' \in {"resting", "tokens", "sessions", "archived", "traces"}
           /\ cmd' \in Workloads
           /\ pc' \in [Requests -> Labels]
           /\ user' \in [Requests -> Accounts \cup {None}]
           /\ DOMAIN snap' = Requests /\ DOMAIN reply' = Requests
           /\ SessionType' = SessionType /\ RowType' = RowType
BY DEF TypeOK, Moves, service, SessionType, RowType

\* Only the request's own id is new, so no id is drawn twice.
LEMMA FreshStays ==
    ASSUME IInv, Settles,
           \A s \in DOMAIN sessions' : s \in DOMAIN sessions \/ Known(s)',
           \A i \in DOMAIN rows' : i \in DOMAIN rows \/ Spent(i)',
           \A t \in DOMAIN tokens' : t \in DOMAIN tokens \/ Spent(t)'
    PROVE  Fresh'
<1>1. \A s \in DOMAIN sessions : Known(s)'
    BY KnownStays DEF IInv, Fresh
<1>2. (\A i \in DOMAIN rows : Spent(i)') /\ (\A t \in DOMAIN tokens : Spent(t)')
    BY SpentStays DEF IInv, Fresh
<1> QED BY <1>1, <1>2 DEF Fresh

LEMMA BootstrapStep ==
    ASSUME IInv, NEW r \in Requests, Bootstrap(r) PROVE IInv'
<1> TypeOK /\ Sound(r) /\ pc[r] = "bootstrap" /\ UNCHANGED service
    BY DEF IInv, Bootstrap, At
<1> UNCHANGED <<tokens, sessions, rows, content>>
    BY DEF Bootstrap
<1>1. Moves(r) /\ pc'[r] = "done"
    BY AnswerMoves DEF Bootstrap
<1>2. TypeOK'
    BY <1>1, MovesTypes DEF TypeOK, Bootstrap, Accounts
<1>3. NoOrphans' /\ Paired'
    BY DEF IInv, NoOrphans, Paired
<1>4. Fresh'
    BY <1>1, MovesSettles, FreshStays
<1>5. Sound(r)'
    BY <1>1, NotSigningOut, DoneIsSound DEF Moves
<1> QED BY <1>1, <1>2, <1>3, <1>4, <1>5, RequestStep, UnchangedKeeps

LEMMA IssueTokenStep ==
    ASSUME IInv, NEW r \in Requests, IssueToken(r) PROVE IInv'
<1> TypeOK /\ Sound(r) /\ pc[r] = "issue" /\ UNCHANGED service
    BY DEF IInv, IssueToken, At
<1> UNCHANGED <<users, sessions, rows, content>>
    BY DEF IssueToken
<1>1. Moves(r) /\ pc'[r] = "done"
    BY AnswerMoves DEF IssueToken
<1>2. TokenRow(cmd[r].as) \in TokenType
    BY BoundsAssumption DEF Sound, Started, TokenRow, TokenType, TypeOK
<1>3. tokens' = Put(tokens, r, TokenRow(cmd[r].as))
    BY DEF IssueToken
<1>4. /\ DOMAIN tokens' = DOMAIN tokens \cup {r}
      /\ tokens' \in [DOMAIN tokens' -> TokenType]
      /\ \A t \in DOMAIN tokens \ {r} : tokens'[t] = tokens[t]
    <2>1. tokens \in [DOMAIN tokens -> TokenType]
        BY DEF TypeOK
    <2>2. tokens' \in [DOMAIN tokens \cup {r} -> TokenType]
        BY <1>2, <1>3, <2>1, PutType
    <2> QED BY <1>3, <2>2 DEF Put
<1>5. r \notin DOMAIN tokens /\ ~Spent(r) /\ Spent(r)'
    BY <1>1 DEF IInv, Fresh, Spent
<1>6. TypeOK'
    BY <1>1, <1>4, MovesTypes DEF TypeOK, TokenType
<1>7. NoOrphans' /\ Paired'
    BY DEF IInv, NoOrphans, Paired
<1>8. Fresh'
    BY <1>1, <1>4, <1>5, MovesSettles, FreshStays
<1>9. Sound(r)'
    BY <1>1, NotSigningOut, DoneIsSound DEF Moves
<1>10. TokensKeep
    BY <1>4, <1>5 DEF TokensKeep
<1> QED BY <1>1, <1>6, <1>7, <1>8, <1>9, <1>10, RequestStep, UnchangedKeeps

LEMMA SignOutStep ==
    ASSUME IInv, NEW r \in Requests, SignOut(r) PROVE IInv'
<1> TypeOK /\ Sound(r) /\ pc[r] = "sign_out" /\ UNCHANGED service
    BY DEF IInv, SignOut, At
<1> UNCHANGED <<users, sessions, rows, content>>
    BY DEF SignOut
<1> DEFINE t == cmd[r].token
<1>1. /\ Moves(r) /\ pc'[r] = "done"
      /\ reply'[r] = IF t \in DOMAIN tokens THEN "ok" ELSE "internal_error"
    BY AnswerMoves DEF SignOut
<1>2. /\ DOMAIN tokens' = DOMAIN tokens
      /\ tokens' \in [DOMAIN tokens' -> TokenType]
      /\ t \in DOMAIN tokens' => tokens'[t].revoked
      /\ \A x \in DOMAIN tokens : tokens[x].revoked => tokens'[x].revoked
    BY DEF SignOut, RevokeToken, TypeOK, TokenType
<1>3. TypeOK'
    BY <1>1, <1>2, MovesTypes DEF TypeOK, TokenType
<1>4. NoOrphans' /\ Paired'
    BY DEF IInv, NoOrphans, Paired
<1>5. Fresh'
    BY <1>1, <1>2, MovesSettles, FreshStays
<1>6. cmd' = cmd
    BY <1>1 DEF Moves
<1>7. t \in DOMAIN tokens => Spent(t)'
    BY <1>2, <1>5, <1>6 DEF Fresh
<1>8. Sound(r)'
    BY <1>1, <1>2, <1>6, <1>7
    DEF Sound, Started, Cleared, HoldsSession, HoldsRow, SignedOut
<1>9. TokensKeep
    BY <1>2 DEF TokensKeep
<1> QED BY <1>1, <1>3, <1>4, <1>5, <1>8, <1>9, RequestStep, UnchangedKeeps

LEMMA CreateSessionStep ==
    ASSUME IInv, NEW r \in Requests, CreateSession(r) PROVE IInv'
<1> TypeOK /\ Sound(r) /\ pc[r] = "create" /\ UNCHANGED service
    BY DEF IInv, CreateSession, At
<1> UNCHANGED <<users, tokens, rows, content>>
    BY DEF CreateSession
<1>1. Moves(r) /\ pc'[r] = "reread"
    <2>1. "reread" \in Labels
        BY DEF Labels
    <2> QED BY <2>1, GotoMoves DEF CreateSession
<1>2. SessionRow(user[r]) \in SessionType
    BY BoundsAssumption DEF CreateSession, SessionRow, SessionType, TypeOK
<1>3. sessions' = Put(sessions, r, SessionRow(user[r]))
    BY DEF CreateSession
<1>4. /\ DOMAIN sessions' = DOMAIN sessions \cup {r}
      /\ sessions' \in [DOMAIN sessions' -> SessionType]
      /\ \A s \in DOMAIN sessions \ {r} : sessions'[s] = sessions[s]
    <2>1. sessions \in [DOMAIN sessions -> SessionType]
        BY DEF TypeOK
    <2>2. sessions' \in [DOMAIN sessions \cup {r} -> SessionType]
        BY <1>2, <1>3, <2>1, PutType
    <2> QED BY <1>3, <2>2 DEF Put
<1>5. r \notin DOMAIN sessions /\ ~Known(r) /\ Known(r)'
    BY <1>1, InitialAssumption DEF IInv, Fresh, Known
<1>6. TypeOK'
    BY <1>1, <1>4, MovesTypes DEF TypeOK
<1>7. NoOrphans' /\ Paired'
    BY <1>4, <1>5 DEF IInv, NoOrphans, Paired
<1>8. Fresh'
    BY <1>1, <1>4, <1>5, MovesSettles, FreshStays
<1>9. Sound(r)'
    BY <1>1, NotSigningOut, CarelessIsSound DEF Moves, Careless
<1>10. SessionsKeep
    BY <1>4, <1>5 DEF SessionsKeep
<1> QED BY <1>1, <1>6, <1>7, <1>8, <1>9, <1>10, RequestStep, UnchangedKeeps

LEMMA WriteUpdateStep ==
    ASSUME IInv, NEW r \in Requests, WriteUpdate(r) PROVE IInv'
<1> TypeOK /\ Sound(r) /\ pc[r] = "write_update" /\ UNCHANGED service
    BY DEF IInv, WriteUpdate, At
<1> UNCHANGED <<users, tokens, rows, content>>
    BY DEF WriteUpdate
<1> DEFINE s == cmd[r].session
<1>1. Moves(r) /\ pc'[r] = "done"
    BY AnswerMoves DEF WriteUpdate
<1>2. snap[r] \in SessionType /\ snap[r].user = user[r]
    BY DEF Sound, HoldsSession
<1>3. s \in DOMAIN sessions => sessions[s].user = user[r]
    BY BoundsAssumption DEF Sound, Cleared, TypeOK
<1>4. sessions' = IF s \in DOMAIN sessions THEN Put(sessions, s, snap[r]) ELSE sessions
    BY DEF WriteUpdate, ReplaceSession
<1>5. /\ DOMAIN sessions' = DOMAIN sessions
      /\ sessions' \in [DOMAIN sessions' -> SessionType]
      /\ \A x \in DOMAIN sessions : sessions'[x].user = sessions[x].user
    <2>1. CASE s \in DOMAIN sessions
        <3>1. sessions' = Put(sessions, s, snap[r])
            BY <1>4, <2>1
        <3>2. sessions \in [DOMAIN sessions -> SessionType]
            BY DEF TypeOK
        <3>3. sessions' \in [DOMAIN sessions \cup {s} -> SessionType]
            BY <1>2, <3>1, <3>2, PutType
        <3>4. /\ DOMAIN sessions' = DOMAIN sessions \cup {s}
              /\ sessions'[s] = snap[r]
              /\ \A x \in DOMAIN sessions \ {s} : sessions'[x] = sessions[x]
            BY <3>1 DEF Put
        <3> HIDE DEF s
        <3> QED BY <1>2, <1>3, <2>1, <3>3, <3>4
    <2> QED BY <1>4, <2>1 DEF TypeOK
<1>6. TypeOK'
    BY <1>1, <1>5, MovesTypes DEF TypeOK
<1>7. NoOrphans' /\ Paired'
    BY <1>5 DEF IInv, NoOrphans, Paired
<1>8. Fresh'
    BY <1>1, <1>5, MovesSettles, FreshStays
<1>9. Sound(r)'
    BY <1>1, NotSigningOut, DoneIsSound DEF Moves
<1>10. SessionsKeep
    BY <1>5 DEF SessionsKeep
<1> QED BY <1>1, <1>6, <1>7, <1>8, <1>9, <1>10, RequestStep, UnchangedKeeps

\* Rows go together with their content.
LEMMA RowsGo ==
    ASSUME IInv, NEW S, rows' = Remove(rows, S), content' = Remove(content, S)
    PROVE  /\ DOMAIN rows' = DOMAIN rows \ S /\ RowsKeep
           /\ \A i \in DOMAIN rows' : rows'[i] = rows[i]
           /\ rows' \in [DOMAIN rows' -> RowType]
           /\ content' \in [DOMAIN content' -> {"clear", "sealed"}]
           /\ Paired'
<1>1. rows \in [DOMAIN rows -> RowType] /\ content \in [DOMAIN content -> {"clear", "sealed"}]
    BY DEF IInv, TypeOK
<1>2. DOMAIN rows' = DOMAIN rows \ S /\ \A i \in DOMAIN rows' : rows'[i] = rows[i]
    BY DEF Remove, Restrict
<1>3. DOMAIN content' = DOMAIN content \ S
    BY DEF Remove, Restrict
<1>4. rows' \in [DOMAIN rows' -> RowType]
    BY <1>1, <1>2, RemoveType
<1>5. content' \in [DOMAIN content' -> {"clear", "sealed"}]
    BY <1>1, <1>3, RemoveType
<1>6. Paired'
    BY <1>2, <1>3 DEF IInv, Paired
<1>7. RowsKeep
    BY <1>2 DEF RowsKeep
<1> QED BY <1>2, <1>4, <1>5, <1>6, <1>7

LEMMA CascadeKeeps ==
    ASSUME IInv, NEW S, Cascade(S)
    PROVE  /\ SessionsKeep /\ RowsKeep /\ TokensKeep /\ NoOrphans' /\ Paired'
           /\ DOMAIN sessions' \subseteq DOMAIN sessions
           /\ sessions' \in [DOMAIN sessions' -> SessionType]
           /\ DOMAIN rows' \subseteq DOMAIN rows
           /\ rows' \in [DOMAIN rows' -> RowType]
           /\ content' \in [DOMAIN content' -> {"clear", "sealed"}]
           /\ UNCHANGED <<users, tokens>>
<1>1. /\ DOMAIN rows' = DOMAIN rows \ Children(S) /\ RowsKeep
      /\ \A i \in DOMAIN rows' : rows'[i] = rows[i]
      /\ rows' \in [DOMAIN rows' -> RowType]
      /\ content' \in [DOMAIN content' -> {"clear", "sealed"}]
      /\ Paired'
    BY RowsGo DEF Cascade
<1>2. sessions' = Remove(sessions, S) /\ UNCHANGED <<users, tokens>>
    BY DEF Cascade
<1>3. DOMAIN sessions' = DOMAIN sessions \ S
      /\ \A s \in DOMAIN sessions' : sessions'[s] = sessions[s]
    BY <1>2 DEF Remove, Restrict
<1>4. sessions \in [DOMAIN sessions -> SessionType]
    BY DEF IInv, TypeOK
<1>5. sessions' \in [DOMAIN sessions' -> SessionType]
    BY <1>2, <1>3, <1>4, RemoveType
<1>6. NoOrphans'
    BY <1>1, <1>3 DEF IInv, NoOrphans, Children
<1>7. SessionsKeep /\ TokensKeep
    BY <1>2, <1>3 DEF SessionsKeep, TokensKeep
<1> QED BY <1>1, <1>2, <1>3, <1>5, <1>6, <1>7

LEMMA DeleteSessionStep ==
    ASSUME IInv, NEW r \in Requests, DeleteSession(r) PROVE IInv'
<1> TypeOK /\ Sound(r) /\ pc[r] = "cascade" /\ UNCHANGED service
    BY DEF IInv, DeleteSession, At
<1>1. Moves(r) /\ pc'[r] = "done"
    BY AnswerMoves DEF DeleteSession
<1>2. Cascade({cmd[r].session})
    BY DEF DeleteSession
<1>3. TypeOK'
    BY <1>1, <1>2, MovesTypes, CascadeKeeps DEF TypeOK
<1>4. Fresh'
    BY <1>1, <1>2, MovesSettles, FreshStays, CascadeKeeps
<1>5. Sound(r)'
    BY <1>1, NotSigningOut, DoneIsSound DEF Moves
<1> QED BY <1>1, <1>2, <1>3, <1>4, <1>5, RequestStep, CascadeKeeps

\* A row is created, or the row of the same session is replaced, by a request that
\* is done with it.
LEMMA CreateRowStep ==
    ASSUME IInv, NEW r \in Requests, Moves(r), pc[r] \notin {"auth", "sign_out"},
           pc'[r] = "done", UNCHANGED <<users, tokens, sessions>>,
           NEW row \in RowType, NEW id, CreateRow(id, row),
           row.session # None => /\ row.session \in DOMAIN sessions
                                 /\ sessions[row.session].user = row.user,
           \/ id = r
           \/ /\ id \in DOMAIN rows
              /\ rows[id].table = row.table /\ rows[id].session = row.session
              /\ rows[id].user = row.user
    PROVE  IInv'
<1> TypeOK /\ Sound(r)
    BY DEF IInv
<1>1. r \notin DOMAIN rows /\ ~Spent(r) /\ Spent(r)'
    BY DEF IInv, Fresh, Spent, Moves
<1>2. /\ DOMAIN rows' = DOMAIN rows \cup {id}
      /\ rows'[id] = row
      /\ \A i \in DOMAIN rows \ {id} : rows'[i] = rows[i]
    BY DEF CreateRow, Put
<1>3. rows' \in [DOMAIN rows' -> RowType]
    <2>1. rows \in [DOMAIN rows -> RowType] /\ rows' = Put(rows, id, row)
        BY DEF TypeOK, CreateRow
    <2>2. rows' \in [DOMAIN rows \cup {id} -> RowType]
        BY <2>1, PutType
    <2> QED BY <1>2, <2>2
<1>4. /\ DOMAIN content' = IF row.table \in PairedTables THEN DOMAIN content \cup {id}
                           ELSE DOMAIN content
      /\ content' \in [DOMAIN content' -> {"clear", "sealed"}]
    <2>1. content \in [DOMAIN content -> {"clear", "sealed"}]
        BY DEF TypeOK
    <2>2. CASE row.table \in PairedTables
        <3>1. content' = Put(content, id, "clear")
            BY <2>2 DEF CreateRow
        <3>2. content' \in [DOMAIN content \cup {id} -> {"clear", "sealed"}]
            BY <2>1, <3>1, PutType
        <3> QED BY <2>2, <3>2
    <2>3. CASE row.table \notin PairedTables
        BY <2>1, <2>3 DEF CreateRow
    <2> QED BY <2>2, <2>3
<1>5. RowsKeep
    BY <1>1, <1>2 DEF RowsKeep
<1>6. TypeOK'
    <2>1. DOMAIN rows' \subseteq DOMAIN Initial.rows \cup Requests
        BY <1>2 DEF TypeOK
    <2> QED BY <1>3, <1>4, <2>1, MovesTypes DEF TypeOK
<1>7. NoOrphans'
    BY <1>2 DEF IInv, NoOrphans
<1>8. Paired'
    BY <1>1, <1>2, <1>4 DEF IInv, Paired
<1>9. Fresh'
    BY <1>1, <1>2, MovesSettles, FreshStays
<1>10. Sound(r)'
    BY NotSigningOut, DoneIsSound DEF Moves
<1> QED BY <1>5, <1>6, <1>7, <1>8, <1>9, <1>10, RequestStep, UnchangedKeeps

\* A step that is answered and changes no row's identity.
LEMMA RewriteStep ==
    ASSUME IInv, NEW r \in Requests, Moves(r), pc[r] \notin {"auth", "sign_out"},
           pc'[r] = "done", UNCHANGED <<users, tokens, sessions>>,
           DOMAIN rows' = DOMAIN rows, rows' \in [DOMAIN rows' -> RowType], RowsKeep,
           DOMAIN content' = DOMAIN content,
           content' \in [DOMAIN content' -> {"clear", "sealed"}]
    PROVE  IInv'
<1> TypeOK /\ Sound(r)
    BY DEF IInv
<1>1. TypeOK'
    BY MovesTypes DEF TypeOK
<1>2. NoOrphans' /\ Paired'
    BY DEF IInv, NoOrphans, Paired, RowsKeep
<1>3. Fresh'
    BY MovesSettles, FreshStays
<1>4. Sound(r)'
    BY NotSigningOut, DoneIsSound DEF Moves
<1> QED BY <1>1, <1>2, <1>3, <1>4, RequestStep, UnchangedKeeps

LEMMA UpdateContentType ==
    ASSUME TypeOK, NEW id, NEW value \in {"clear", "sealed"}, UpdateContent(id, value)
    PROVE  /\ DOMAIN content' = DOMAIN content
           /\ content' \in [DOMAIN content' -> {"clear", "sealed"}]
<1>1. content \in [DOMAIN content -> {"clear", "sealed"}]
    BY DEF TypeOK
<1>2. CASE id \in DOMAIN content
    <2>1. content' = Put(content, id, value)
        BY <1>2 DEF UpdateContent
    <2>2. content' \in [DOMAIN content \cup {id} -> {"clear", "sealed"}]
        BY <1>1, <2>1, PutType
    <2> QED BY <1>2, <2>2
<1>3. CASE id \notin DOMAIN content
    BY <1>1, <1>3 DEF UpdateContent
<1> QED BY <1>2, <1>3

\* A row made by a request in its own name.
LEMMA RowIsRow ==
    ASSUME TypeOK, NEW r \in Requests, NEW table \in Tables, NEW key \in Keys \cup {None},
           RefsExist(Row(table, cmd[r].session, user[r], key))
    PROVE  /\ Row(table, cmd[r].session, user[r], key) \in RowType
           /\ cmd[r].session # None => cmd[r].session \in DOMAIN sessions
<1>1. /\ user[r] \in users
      /\ cmd[r].session # None => cmd[r].session \in DOMAIN sessions
    BY DEF RefsExist, Row
<1>2. user[r] \in Accounts /\ cmd[r].session \in SessionIds \cup {None} /\ day \in 0..day
    BY <1>1, BoundsAssumption DEF TypeOK, SessionIds
<1> QED BY <1>1, <1>2 DEF Row, RowType

LEMMA WriteStep ==
    ASSUME IInv, NEW r \in Requests, NEW do, NEW tables, tables \subseteq Tables, NEW id,
           Write(r, do, tables, id), id = r \/ id \in RowsOf(cmd[r].table, cmd[r].session)
    PROVE  IInv'
<1> TypeOK /\ Sound(r) /\ pc[r] = "write" /\ UNCHANGED service
    BY DEF IInv, Write, At
<1> UNCHANGED <<users, tokens, sessions>> /\ cmd[r].table \in Tables
    BY DEF Write
<1> DEFINE row == Row(cmd[r].table, cmd[r].session, user[r], None)
<1>1. CASE RefsExist(row) /\ CreateRow(id, row) /\ Answer(r, "ok")
    <2>1. Moves(r) /\ pc'[r] = "done"
        BY <1>1, AnswerMoves
    <2>2. row \in RowType /\ (cmd[r].session # None => cmd[r].session \in DOMAIN sessions)
        BY <1>1, RowIsRow
    <2>3. /\ row.session = cmd[r].session /\ row.user = user[r]
          /\ row.table = cmd[r].table
        BY DEF Row
    <2>4. cmd[r].session # None => sessions[cmd[r].session].user = user[r]
        BY <2>2 DEF Sound, Cleared
    <2>5. cmd[r].session # None
        BY DEF Sound, Started
    <2>6. id # r => /\ id \in DOMAIN rows
                    /\ rows[id].table = row.table /\ rows[id].session = row.session
                    /\ rows[id].user = row.user
        BY <2>3, <2>4, <2>5 DEF RowsOf, IInv, NoOrphans
    <2> HIDE DEF row
    <2> QED BY <1>1, <2>1, <2>2, <2>3, <2>4, <2>6, CreateRowStep
<1>2. CASE UNCHANGED <<rows, content>> /\ Answer(r, "backend")
    <2>1. Moves(r) /\ pc'[r] = "done"
        BY <1>2, AnswerMoves
    <2> QED BY <1>2, <2>1, CarelessStep DEF Careless, db
<1> QED BY <1>1, <1>2 DEF Write

LEMMA AppendSteps ==
    ASSUME IInv, NEW r \in Requests,
           AppendPaired(r) \/ AppendPlain(r) \/ AppendTrace(r) \/ SetRunState(r) \/ SetRunInput(r)
    PROVE  IInv'
<1>1. StateRow(r) = r \/ StateRow(r) \in RowsOf(cmd[r].table, cmd[r].session)
    BY DEF StateRow
<1>2. /\ {"session_message", "session_tool_call", "session_plan", "session_diff"}
            \subseteq Tables
      /\ {"session_routing_decision", "session_context_reference", "session_approval"}
            \subseteq Tables
      /\ {"trace_event"} \subseteq Tables /\ {"session_run_state"} \subseteq Tables
      /\ {"session_run_input"} \subseteq Tables
    BY DEF Tables, PairedTables, PlainTables
<1>3. CASE AppendPaired(r)
    BY <1>2, <1>3, WriteStep DEF AppendPaired
<1>4. CASE AppendPlain(r)
    BY <1>2, <1>4, WriteStep DEF AppendPlain
<1>5. CASE AppendTrace(r)
    BY <1>2, <1>5, WriteStep DEF AppendTrace
<1>6. CASE SetRunState(r)
    BY <1>1, <1>2, <1>6, WriteStep DEF SetRunState
<1>7. CASE SetRunInput(r)
    BY <1>1, <1>2, <1>7, WriteStep DEF SetRunInput
<1> QED BY <1>3, <1>4, <1>5, <1>6, <1>7

LEMMA WriteRowStep ==
    ASSUME IInv, NEW r \in Requests, WriteRow(r) PROVE IInv'
<1> TypeOK /\ Sound(r) /\ pc[r] = "write_row" /\ UNCHANGED service
    BY DEF IInv, WriteRow, At
<1> UNCHANGED <<users, tokens, sessions>>
    BY DEF WriteRow
<1> DEFINE i == cmd[r].row
<1>1. Moves(r) /\ pc'[r] = "done"
    BY AnswerMoves DEF WriteRow
<1>2. /\ snap[r] \in RowType
      /\ i \in DOMAIN rows => /\ rows[i].table = snap[r].table
                              /\ rows[i].session = snap[r].session
                              /\ rows[i].user = snap[r].user
    BY DEF Sound, HoldsRow
<1>3. rows' = IF i \in DOMAIN rows THEN Put(rows, i, snap[r]) ELSE rows
    BY DEF WriteRow, UpdateRow
<1>4. /\ DOMAIN rows' = DOMAIN rows /\ rows' \in [DOMAIN rows' -> RowType] /\ RowsKeep
    <2>1. rows \in [DOMAIN rows -> RowType]
        BY DEF TypeOK
    <2>2. CASE i \in DOMAIN rows
        <3>1. rows' = Put(rows, i, snap[r])
            BY <1>3, <2>2
        <3>2. rows' \in [DOMAIN rows \cup {i} -> RowType]
            BY <1>2, <2>1, <3>1, PutType
        <3>3. /\ DOMAIN rows' = DOMAIN rows
              /\ rows'[i] = snap[r]
              /\ \A x \in DOMAIN rows \ {i} : rows'[x] = rows[x]
            BY <2>2, <3>1 DEF Put
        <3> HIDE DEF i
        <3>4. RowsKeep
            BY <1>2, <3>3 DEF RowsKeep
        <3> QED BY <3>2, <3>3, <3>4
    <2>3. CASE i \notin DOMAIN rows
        BY <1>3, <2>1, <2>3, UnchangedKeeps
    <2> QED BY <2>2, <2>3
<1>5. DOMAIN content' = DOMAIN content /\ content' \in [DOMAIN content' -> {"clear", "sealed"}]
    <2>1. UpdateContent(i, "clear") \/ UNCHANGED content
        BY DEF WriteRow
    <2>2. CASE UpdateContent(i, "clear")
        BY <2>2, UpdateContentType
    <2>3. CASE UNCHANGED content
        BY <2>3 DEF TypeOK
    <2> QED BY <2>1, <2>2, <2>3
<1> QED BY <1>1, <1>4, <1>5, RewriteStep

LEMMA SetContentStep ==
    ASSUME IInv, NEW r \in Requests, SetContent(r) PROVE IInv'
<1> TypeOK /\ pc[r] = "set_content" /\ UNCHANGED service
    BY DEF IInv, SetContent, At
<1> UNCHANGED <<users, tokens, sessions, rows>>
    BY DEF SetContent
<1>1. Moves(r) /\ pc'[r] = "done"
    BY AnswerMoves DEF SetContent
<1>2. DOMAIN content' = DOMAIN content /\ content' \in [DOMAIN content' -> {"clear", "sealed"}]
    BY UpdateContentType DEF SetContent
<1>3. rows' \in [DOMAIN rows' -> RowType] /\ DOMAIN rows' = DOMAIN rows
    BY DEF TypeOK
<1> QED BY <1>1, <1>2, <1>3, RewriteStep, UnchangedKeeps

LEMMA RecordStep ==
    ASSUME IInv, NEW r \in Requests, Record(r) PROVE IInv'
<1> TypeOK /\ Sound(r) /\ pc[r] = "record" /\ UNCHANGED service
    BY DEF IInv, Record, At
<1> UNCHANGED <<users, tokens, sessions>>
    BY DEF Record
<1> DEFINE row == Row(MemoryTable(r), cmd[r].session, user[r], cmd[r].key)
<1>1. CASE RefsExist(row) /\ CreateRow(r, row) /\ Answer(r, "ok")
    <2>1. Moves(r) /\ pc'[r] = "done"
        BY <1>1, AnswerMoves
    <2>2. MemoryTable(r) \in Tables /\ cmd[r].key \in Keys
        BY DEF MemoryTable, Tables, PairedTables, TypeOK, Keys
    <2>3. row \in RowType /\ (cmd[r].session # None => cmd[r].session \in DOMAIN sessions)
        BY <1>1, <2>2, RowIsRow
    <2>4. row.session = cmd[r].session /\ row.user = user[r]
        BY DEF Row
    <2>5. cmd[r].session # None => sessions[cmd[r].session].user = user[r]
        BY <2>3 DEF Sound, Cleared
    <2> HIDE DEF row
    <2> QED BY <1>1, <2>1, <2>3, <2>4, <2>5, CreateRowStep
<1>2. CASE UNCHANGED <<rows, content>> /\ Answer(r, "backend")
    <2>1. Moves(r) /\ pc'[r] = "done"
        BY <1>2, AnswerMoves
    <2> QED BY <1>2, <2>1, CarelessStep DEF Careless, db
<1>3. ASSUME NEW code, ReplaceContent(snap[r]), Answer(r, code) PROVE IInv'
    <2>1. Moves(r) /\ pc'[r] = "done" /\ UNCHANGED rows
        BY <1>3, AnswerMoves DEF ReplaceContent
    <2>2. /\ DOMAIN content' = DOMAIN content
          /\ content' \in [DOMAIN content' -> {"clear", "sealed"}]
        BY <1>3, UpdateContentType DEF ReplaceContent
    <2>3. rows' \in [DOMAIN rows' -> RowType] /\ DOMAIN rows' = DOMAIN rows
        BY <2>1 DEF TypeOK
    <2> QED BY <2>1, <2>2, <2>3, RewriteStep, UnchangedKeeps
<1> QED BY <1>1, <1>2, <1>3 DEF Record

LEMMA ForgetStep ==
    ASSUME IInv, NEW r \in Requests, Forget(r) PROVE IInv'
<1> TypeOK /\ Sound(r) /\ pc[r] = "forget" /\ UNCHANGED service
    BY DEF IInv, Forget, At
<1> UNCHANGED <<users, tokens, sessions>>
    BY DEF Forget
<1>1. Moves(r) /\ pc'[r] = "done"
    BY AnswerMoves DEF Forget
<1>2. /\ DOMAIN rows' \subseteq DOMAIN rows /\ RowsKeep
      /\ \A i \in DOMAIN rows' : rows'[i] = rows[i]
      /\ rows' \in [DOMAIN rows' -> RowType]
      /\ content' \in [DOMAIN content' -> {"clear", "sealed"}]
      /\ Paired'
    BY RowsGo DEF Forget, ForgetPaired
<1>3. TypeOK'
    BY <1>1, <1>2, MovesTypes DEF TypeOK
<1>4. NoOrphans'
    BY <1>2 DEF IInv, NoOrphans
<1>5. Fresh'
    BY <1>1, <1>2, MovesSettles, FreshStays
<1>6. Sound(r)'
    BY <1>1, NotSigningOut, DoneIsSound DEF Moves
<1> QED BY <1>1, <1>2, <1>3, <1>4, <1>5, <1>6, RequestStep, UnchangedKeeps

----------------------------------------------------------------------------
(* The retention service and the clock *)

\* A step of the service that keeps what the requests rely on.
LEMMA ServiceStep ==
    ASSUME IInv, UNCHANGED process, day' \in 0..MaxDay, day <= day',
           SessionsKeep, RowsKeep, TokensKeep, TypeOK', NoOrphans', Paired',
           DOMAIN sessions' \subseteq DOMAIN sessions, DOMAIN rows' \subseteq DOMAIN rows,
           DOMAIN tokens' \subseteq DOMAIN tokens
    PROVE  IInv'
<1>1. Settles /\ cmd' = cmd /\ \A q \in Requests : Rests(q)
    BY DEF process, Settles, Rests
<1>2. Keeps
    BY <1>1 DEF Keeps
<1>3. \A q \in Requests : Sound(q)'
    BY <1>1, <1>2, OthersStaySound
<1>4. Fresh'
    BY <1>1, FreshStays
<1> QED BY <1>3, <1>4 DEF IInv

LEMMA DeleteExpiredTokensStep ==
    ASSUME IInv, DeleteExpiredTokens PROVE IInv'
<1> TypeOK /\ UNCHANGED <<day, faults, users, sessions, rows, content>> /\ UNCHANGED process
    BY DEF IInv, DeleteExpiredTokens
<1>1. PICK S : tokens' = Remove(tokens, S)
    BY DEF DeleteExpiredTokens
<1>2. DOMAIN tokens' = DOMAIN tokens \ S /\ \A t \in DOMAIN tokens' : tokens'[t] = tokens[t]
    BY <1>1 DEF Remove, Restrict
<1>3. tokens' \in [DOMAIN tokens' -> TokenType]
    <2>1. tokens \in [DOMAIN tokens -> TokenType]
        BY DEF TypeOK
    <2> QED BY <1>1, <1>2, <2>1, RemoveType
<1>4. TokensKeep
    BY <1>2 DEF TokensKeep
<1>5. day \in 0..MaxDay /\ day <= day /\ sweep' = "sessions"
    BY BoundsAssumption DEF TypeOK, DeleteExpiredTokens
<1>6. TypeOK'
    BY <1>2, <1>3, <1>5 DEF TypeOK, process, SessionType, RowType
<1>7. NoOrphans' /\ Paired'
    BY DEF IInv, NoOrphans, Paired
<1> QED BY <1>2, <1>4, <1>5, <1>6, <1>7, ServiceStep, UnchangedKeeps

LEMMA PurgeSessionsSteps ==
    ASSUME IInv, PurgeOldSessions \/ PurgeArchivedSessions PROVE IInv'
<1> TypeOK /\ UNCHANGED <<day, faults>> /\ UNCHANGED process
    BY DEF IInv, PurgeOldSessions, PurgeArchivedSessions
<1>1. PICK S : Cascade(S)
    BY DEF PurgeOldSessions, PurgeArchivedSessions
<1>2. day \in 0..MaxDay /\ day <= day /\ sweep' \in {"archived", "traces"}
    BY BoundsAssumption DEF TypeOK, PurgeOldSessions, PurgeArchivedSessions
<1>3. SessionType' = SessionType /\ RowType' = RowType
    BY DEF SessionType, RowType
<1>4. TypeOK'
    BY <1>1, <1>2, <1>3, CascadeKeeps DEF TypeOK, process
<1> QED BY <1>1, <1>2, <1>4, CascadeKeeps, ServiceStep

LEMMA PurgeTracesStep ==
    ASSUME IInv, PurgeTraces PROVE IInv'
<1> TypeOK /\ UNCHANGED <<day, faults, users, tokens, sessions>> /\ UNCHANGED process
    BY DEF IInv, PurgeTraces
<1>1. PICK S : rows' = Remove(rows, S) /\ content' = Remove(content, S)
    BY DEF PurgeTraces
<1>2. /\ DOMAIN rows' \subseteq DOMAIN rows /\ RowsKeep
      /\ \A i \in DOMAIN rows' : rows'[i] = rows[i]
      /\ rows' \in [DOMAIN rows' -> RowType]
      /\ content' \in [DOMAIN content' -> {"clear", "sealed"}]
      /\ Paired'
    BY <1>1, RowsGo
<1>3. day \in 0..MaxDay /\ day <= day /\ sweep' = "resting"
    BY BoundsAssumption DEF TypeOK, PurgeTraces
<1>4. SessionType' = SessionType /\ RowType' = RowType
    BY DEF SessionType, RowType
<1>5. TypeOK'
    BY <1>2, <1>3, <1>4 DEF TypeOK, process
<1>6. NoOrphans'
    BY <1>2 DEF IInv, NoOrphans
<1> QED BY <1>2, <1>3, <1>5, <1>6, ServiceStep, UnchangedKeeps

\* The clock, the start of a sweep and a statement of it that fails.
LEMMA ClockSteps ==
    ASSUME IInv, SweepStarts \/ SweepFault \/ NextDay PROVE IInv'
<1> TypeOK /\ UNCHANGED db /\ UNCHANGED process
    BY DEF IInv, SweepStarts, SweepFault, NextDay
<1>1. day' \in 0..MaxDay /\ day <= day' /\ faults' \in 0..MaxFaults
    BY BoundsAssumption DEF TypeOK, SweepStarts, SweepFault, NextDay
<1>2. sweep' \in {"resting", "tokens", "sessions", "archived", "traces"}
    <2>1. CASE SweepFault
        <3>1. \/ sweep = "tokens" /\ sweep' = "sessions"
              \/ sweep = "sessions" /\ sweep' = "archived"
              \/ sweep = "archived" /\ sweep' = "traces"
              \/ sweep = "traces" /\ sweep' = "resting"
            BY <2>1, Zenon DEF SweepFault
        <3> QED BY <3>1
    <2> QED BY <2>1 DEF TypeOK, SweepStarts, NextDay
<1>3. SessionType \subseteq SessionType' /\ RowType \subseteq RowType'
    BY <1>1, TypesGrow
<1>4. TypeOK'
    BY <1>1, <1>2, <1>3 DEF TypeOK, db, process
<1>5. NoOrphans' /\ Paired'
    BY DEF IInv, NoOrphans, Paired, db
<1>6. UNCHANGED <<sessions, rows, tokens>>
    BY DEF db
<1> QED BY <1>1, <1>4, <1>5, <1>6, ServiceStep, UnchangedKeeps

----------------------------------------------------------------------------
(* The invariant is inductive *)

LEMMA InitIInv == ASSUME Init PROVE IInv
<1>1. /\ 0 \in 0..MaxDay /\ 0 \in 0..MaxFaults
    BY BoundsAssumption
<1>2. users \subseteq Accounts
    BY DEF Init, Accounts
<1>3. tokens \in [DOMAIN tokens -> TokenType]
    BY InitialAssumption DEF Init, TokenType, Accounts
<1>4. sessions \in [DOMAIN sessions -> SessionType]
    BY InitialAssumption DEF Init, SessionType, Accounts
<1>5. rows \in [DOMAIN rows -> RowType]
    BY InitialAssumption DEF Init, RowType, Accounts, SessionIds, Keys
<1>6. /\ content \in [DOMAIN content -> {"clear", "sealed"}]
      /\ DOMAIN content = {j \in DOMAIN rows : rows[j].table \in PairedTables}
    BY DEF Init
<1>7. /\ pc \in [Requests -> Labels]
      /\ \A r \in Requests : /\ pc[r] \in {"auth", "bootstrap", "find_user"}
                             /\ pc[r] = "auth" => cmd[r].do \notin {"bootstrap", "sign_in"}
                             /\ pc[r] # "auth" => cmd[r].do # "sign_out"
    <2> DEFINE first(r) == CASE cmd[r].do = "bootstrap" -> "bootstrap"
                             [] cmd[r].do = "sign_in" -> "find_user"
                             [] OTHER -> "auth"
    <2>1. pc = [r \in Requests |-> first(r)]
        BY Zenon DEF Init
    <2>2. \A r \in Requests : /\ first(r) \in {"auth", "bootstrap", "find_user"}
                              /\ first(r) = "auth" => cmd[r].do \notin {"bootstrap", "sign_in"}
                              /\ first(r) # "auth" => cmd[r].do # "sign_out"
        BY Zenon
    <2> HIDE DEF first
    <2>3. {"auth", "bootstrap", "find_user"} \subseteq Labels
        BY DEF Labels
    <2> QED BY <2>1, <2>2, <2>3
<1>8. TypeOK
    BY <1>1, <1>2, <1>3, <1>4, <1>5, <1>6, <1>7, SMTT(30) DEF TypeOK, Init
<1>9. NoOrphans
    BY InitialAssumption DEF NoOrphans, Init
<1>10. Paired
    BY <1>6 DEF Paired
<1>11. Fresh
    BY InitialAssumption DEF Fresh, Init, Known, Spent
<1>12. \A r \in Requests : cmd[r].do \in Doable
    BY WorkloadsAssumption DEF Init
<1>13. \A r \in Requests : reply[r] # "ok"
    BY BoundsAssumption DEF Init
<1>14. \A r \in Requests : Sound(r)
    BY <1>7, <1>12, <1>13
    DEF Sound, Started, Cleared, HoldsSession, HoldsRow, SignedOut
<1> QED BY <1>8, <1>9, <1>10, <1>11, <1>14 DEF IInv

LEMMA NextIInv == ASSUME IInv, [Next]_vars PROVE IInv'
<1>1. ASSUME NEW r \in Requests, Account(r) PROVE IInv'
    BY <1>1, AuthenticateStep, BootstrapStep, FindUserStep, IssueTokenStep, SignOutStep,
       SessionReadSteps DEF Account
<1>2. ASSUME NEW r \in Requests, SessionRoutes(r) PROVE IInv'
    BY <1>2, SessionReadSteps, CreateSessionStep, OpenStep, ReadSessionStep, CheckUpdateStep,
       WriteUpdateStep, RecheckSteps, DeleteSessionStep DEF SessionRoutes
<1>3. ASSUME NEW r \in Requests, TurnWrites(r) PROVE IInv'
    BY <1>3, RecheckSteps, AppendSteps, ReadRowStep, ReadCallContentStep, WriteRowStep,
       ContentReadSteps, SetContentStep
    DEF TurnWrites, SetPlanStatus, SetDiffStatus, SetToolCallOutcome
<1>4. ASSUME NEW r \in Requests, Memories(r) PROVE IInv'
    BY <1>4, LookupSteps, RecordStep, ContentReadSteps, ForgetStep DEF Memories
<1>5. CASE SweepStarts \/ Sweeping \/ NextDay
    BY <1>5, DeleteExpiredTokensStep, PurgeSessionsSteps, PurgeTracesStep, ClockSteps
    DEF Sweeping
<1>6. CASE UNCHANGED vars
    BY <1>6 DEF vars, IInv, TypeOK, NoOrphans, Paired, Fresh, Known, Spent, Sound, Started,
       Cleared, HoldsSession, HoldsRow, SignedOut, SessionType, RowType
<1> QED BY <1>1, <1>2, <1>3, <1>4, <1>5, <1>6, ListSteps DEF Next

LEMMA Inductive == Spec => []IInv
<1>1. Init => IInv
    BY InitIInv
<1>2. IInv /\ [Next]_vars => IInv'
    BY NextIInv
<1> QED BY <1>1, <1>2, PTL DEF Spec

----------------------------------------------------------------------------
(* Theorems *)

\* Every row is well formed, stamped no later than now, and carries an id that the
\* database started with or a request drew, whatever the handlers, the turns and the
\* sweep do at the same time.
THEOREM StoreTypeCorrect == Spec => []TypeOK
<1>1. IInv => TypeOK
    BY DEF IInv
<1> QED BY <1>1, Inductive, PTL

\* No row outlives its session or lies in a session of another user, although the
\* ownership check of a write (assert_write_owned) and the write are two statements.
THEOREM NothingOrphaned == Spec => []NoOrphans
<1>1. IInv => NoOrphans
    BY DEF IInv
<1> QED BY <1>1, Inductive, PTL

\* A row with a secret and its content row come and go together through every create,
\* forget, cascade and purge.
THEOREM PairsStayTogether == Spec => []Paired
<1>1. IInv => Paired
    BY DEF IInv
<1> QED BY <1>1, Inductive, PTL

\* The statements that change a session.
LEMMA SessionWriters ==
    ASSUME [Next]_vars
    PROVE  \/ UNCHANGED sessions
           \/ \E r \in Requests : CreateSession(r) \/ WriteUpdate(r) \/ DeleteSession(r)
           \/ PurgeOldSessions \/ PurgeArchivedSessions
<1>1. ASSUME NEW r \in Requests, Account(r) PROVE UNCHANGED sessions
    BY <1>1 DEF Account, Authenticate, Bootstrap, FindUser, IssueToken, SignOut, Me, db
<1>2. ASSUME NEW r \in Requests, SessionRoutes(r)
      PROVE  UNCHANGED sessions \/ CreateSession(r) \/ WriteUpdate(r) \/ DeleteSession(r)
    BY <1>2 DEF SessionRoutes, ListSessions, RereadSession, Open, ReadSession, CheckUpdate,
       RecheckDelete, db
<1>3. ASSUME NEW r \in Requests, Lists(r) PROVE UNCHANGED sessions
    BY <1>3 DEF Lists, ListMessages, GetTraceEvents, GetCostEvents, ListTraceContent,
       ListUserMemory, ListContextMemory, GetSessionState, Bases, ListContents, db
<1>4. ASSUME NEW r \in Requests, TurnWrites(r) PROVE UNCHANGED sessions
    BY <1>4 DEF TurnWrites, AssertWriteOwned, AppendPaired, AppendPlain, AppendTrace,
       SetRunState, SetRunInput, Write, SetPlanStatus, SetDiffStatus, SetToolCallOutcome,
       ReadRow, ReadCallContent, WriteRow, AssertContentOwned, SetContent, GetContent, db
<1>5. ASSUME NEW r \in Requests, Memories(r) PROVE UNCHANGED sessions
    BY <1>5 DEF Memories, LookupToRecord, Record, LookupToForget, CheckForget, Forget, db
<1>6. CASE SweepStarts \/ DeleteExpiredTokens \/ PurgeTraces \/ SweepFault \/ NextDay
    BY <1>6 DEF SweepStarts, DeleteExpiredTokens, PurgeTraces, SweepFault, NextDay, db
<1> QED BY <1>1, <1>2, <1>3, <1>4, <1>5, <1>6 DEF Next, Sweeping, vars

\* A session that is gone does not come back, not even through an update_session that
\* read it before it was deleted or purged.
THEOREM DeletedForGood == Spec => DeletedStaysDeleted
<1> DEFINE Created == \A s \in DOMAIN sessions' \ DOMAIN sessions :
                            s \in Requests /\ pc[s] = "create"
<1>1. ASSUME [Next]_vars PROVE Created
    <2>1. ASSUME NEW r \in Requests, CreateSession(r) PROVE Created
        BY <2>1 DEF CreateSession, At, Put
    <2>2. ASSUME NEW r \in Requests, WriteUpdate(r) PROVE Created
        BY <2>2 DEF WriteUpdate, ReplaceSession, Put
    <2>3. ASSUME NEW S, Cascade(S) PROVE Created
        BY <2>3 DEF Cascade, Remove, Restrict
    <2> QED BY <1>1, <2>1, <2>2, <2>3, SessionWriters
            DEF DeleteSession, PurgeOldSessions, PurgeArchivedSessions
<1>2. [Next]_vars => [Created]_vars
    BY <1>1
<1> QED BY <1>2, PTL DEF Spec, DeletedStaysDeleted

\* A session disappears only because its owner deleted it or because its own window has
\* passed: an archived session is not measured by the window of a live one.
THEOREM OnlyOutdatedIsPurged == Spec => RetentionKeeps
<1> DEFINE Why == \A s \in DOMAIN sessions \ DOMAIN sessions' :
            \/ \E r \in Requests : pc[r] = "cascade" /\ cmd[r].session = s
                                   /\ user[r] = sessions[s].user
            \/ sessions[s].archived = None /\ sessions[s].updated + SessionDays < day
            \/ /\ sessions[s].archived # None
               /\ sessions[s].archived + ArchivedDays < day
<1>1. ASSUME IInv, [Next]_vars PROVE Why
    <2>1. ASSUME NEW r \in Requests, CreateSession(r) PROVE Why
        BY <2>1 DEF CreateSession, Put
    <2>2. ASSUME NEW r \in Requests, WriteUpdate(r) PROVE Why
        BY <2>2 DEF WriteUpdate, ReplaceSession, Put
    <2>3. ASSUME NEW r \in Requests, DeleteSession(r) PROVE Why
        <3>1. pc[r] = "cascade" /\ Cascade({cmd[r].session})
            BY <2>3 DEF DeleteSession, At
        <3>2. DOMAIN sessions' = DOMAIN sessions \ {cmd[r].session}
            BY <3>1 DEF Cascade, Remove, Restrict
        <3>3. cmd[r].session \in DOMAIN sessions => sessions[cmd[r].session].user = user[r]
            BY <1>1, <3>1, BoundsAssumption DEF IInv, Sound, Cleared, TypeOK
        <3> QED BY <3>1, <3>2, <3>3
    <2>4. CASE PurgeOldSessions
        BY <2>4 DEF PurgeOldSessions, Cascade, Remove, Restrict, Outdated, Before
    <2>5. CASE PurgeArchivedSessions
        BY <2>5 DEF PurgeArchivedSessions, Cascade, Remove, Restrict, OutdatedArchived, Before
    <2> QED BY <1>1, <2>1, <2>2, <2>3, <2>4, <2>5, SessionWriters
<1>2. IInv /\ [Next]_vars => [Why]_vars
    BY <1>1
<1> QED BY <1>2, Inductive, PTL DEF Spec, RetentionKeeps

\* Only the middleware lets a request past authentication.
LEMMA OnlyAuthenticate ==
    ASSUME IInv, [Next]_vars, NEW r \in Requests, pc[r] = "auth", pc'[r] # "auth"
    PROVE  Authenticate(r)
<1> TypeOK
    BY DEF IInv
<1>1. ASSUME NEW q \in Requests, NEW l, l # "auth", At(q, l), NEW m,
             pc' = [pc EXCEPT ![q] = m]
      PROVE  FALSE
    BY <1>1 DEF At, TypeOK
<1>2. ASSUME NEW q \in Requests, Authenticate(q) PROVE q = r
    BY <1>2 DEF Authenticate, Answer, TypeOK
<1>3. ASSUME NEW q \in Requests, Bootstrap(q) \/ FindUser(q) \/ IssueToken(q) \/ SignOut(q) \/ Me(q)
      PROVE  FALSE
    BY <1>1, <1>3 DEF Bootstrap, FindUser, IssueToken, SignOut, Me, Answer, Goto
<1>4. ASSUME NEW q \in Requests, SessionRoutes(q) PROVE FALSE
    BY <1>1, <1>4 DEF SessionRoutes, ListSessions, CreateSession, RereadSession, Open,
       ReadSession, CheckUpdate, WriteUpdate, RecheckDelete, DeleteSession, Answer, Goto, Keep
<1>5. ASSUME NEW q \in Requests, Lists(q) PROVE FALSE
    BY <1>1, <1>5 DEF Lists, ListMessages, GetTraceEvents, GetCostEvents, ListTraceContent,
       ListUserMemory, ListContextMemory, GetSessionState, Bases, ListContents, Keep
<1>6. ASSUME NEW q \in Requests, TurnWrites(q) PROVE FALSE
    BY <1>1, <1>6 DEF TurnWrites, AssertWriteOwned, AppendPaired, AppendPlain, AppendTrace,
       SetRunState, SetRunInput, Write, SetPlanStatus, SetDiffStatus, SetToolCallOutcome,
       ReadRow, ReadCallContent, WriteRow, AssertContentOwned, SetContent, GetContent,
       Answer, Goto, Keep
<1>7. ASSUME NEW q \in Requests, Memories(q) PROVE FALSE
    BY <1>1, <1>7 DEF Memories, LookupToRecord, Record, LookupToForget, CheckForget, Forget,
       Answer, Goto, Keep
<1>8. CASE SweepStarts \/ Sweeping \/ NextDay \/ UNCHANGED vars
    BY <1>8 DEF SweepStarts, Sweeping, DeleteExpiredTokens, PurgeOldSessions,
       PurgeArchivedSessions, PurgeTraces, SweepFault, NextDay, process, vars
<1> QED BY <1>2, <1>3, <1>4, <1>5, <1>6, <1>7, <1>8 DEF Next, Account

\* Once a sign-out is answered its token lets nobody in again, also after the sweep
\* removed its row.
THEOREM SignedOutForGood == Spec => SignedOutStaysOut
<1> DEFINE Out == \A r, q \in Requests :
            /\ pc[r] = "auth" /\ pc'[r] # "done" /\ pc'[r] # "auth"
            /\ cmd[q].do = "sign_out" /\ reply[q] = "ok"
            => cmd[q].token # cmd[r].token
<1>1. ASSUME IInv, [Next]_vars, NEW r \in Requests, NEW q \in Requests,
             pc[r] = "auth", pc'[r] # "done", pc'[r] # "auth",
             cmd[q].do = "sign_out", reply[q] = "ok"
      PROVE  cmd[q].token # cmd[r].token
    <2>1. Authenticate(r)
        BY <1>1, OnlyAuthenticate
    <2>2. Verdict(cmd[r].token, cmd[r].genuine) = "ok"
        BY <1>1, <2>1 DEF Authenticate, Answer, IInv, TypeOK
    <2>3. cmd[r].token \in DOMAIN tokens /\ ~tokens[cmd[r].token].revoked
        BY <2>2, Zenon DEF Verdict
    <2>4. cmd[q].token \in DOMAIN tokens => tokens[cmd[q].token].revoked
        BY <1>1 DEF IInv, Sound, SignedOut
    <2> QED BY <2>3, <2>4
<1>2. IInv /\ [Next]_vars => [Out]_vars
    BY <1>1
<1> QED BY <1>2, Inductive, PTL DEF Spec, SignedOutStaysOut
=============================================================================
