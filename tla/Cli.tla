-------------------------------- MODULE Cli --------------------------------
(***************************************************************************)
(* The interactive client: the run loop with the terminal interface on one *)
(* side (src/crates/smista-cli/src/app.rs, app/tui.rs, app/tui/input.rs,   *)
(* app/tui/state.rs), the router-client worker on the other                *)
(* (app/router_client.rs and app/router_client/handler/), the two channels *)
(* between them, and the cancellation token that stops both.               *)
(*                                                                         *)
(* The worker is one task.  It is in its main loop, opening the stream of  *)
(* an execute, or reading a stream; a handler runs to its end before the   *)
(* task looks at its channels again, so each handler is one action.  The   *)
(* router is external: a stream carries some deltas and then one of the    *)
(* outcomes of a turn, or breaks off.                                      *)
(*                                                                         *)
(* Texts, files and wording are left out.  A tool call is a number with a  *)
(* tool, a permission mode and, for a shell, the words of its command.     *)
(***************************************************************************)
EXTENDS Naturals, Sequences, FiniteSets

CONSTANTS
  Calls,        \* the tool calls the router may ask for, a set of numbers
  Tool,         \* Calls -> "read_file", "edit_file", "shell", ...
  Needs,        \* Calls -> "Allow" or "Ask", the mode the router attached
  Words,        \* Calls -> the tokens of its shell command, <<>> for none
  AutoApply,    \* local.auto_apply of the configuration
  EncryptedSessions, \* the sessions with a key, a set of numbers
  MsgCap,       \* capacity of the message channel (100)
  CmdCap,       \* capacity of the command channel (100)
  MaxInputs,    \* bound: inputs of the user
  MaxAsked,     \* bound: tool calls asked for
  MaxEvents,    \* bound: deltas, crypto pauses and other optional events
  MaxFaults     \* bound: failed requests and missing keys

ASSUME CallsAssumption ==
  /\ Calls \subseteq Nat \ {0}
  /\ IsFiniteSet(Calls)
  /\ Tool \in [Calls -> STRING]
  /\ Needs \in [Calls -> {"Allow", "Ask"}]
  /\ DOMAIN Words = Calls

ASSUME BoundsAssumption ==
  /\ AutoApply \in BOOLEAN
  /\ EncryptedSessions \subseteq Nat \ {0}
  /\ {MsgCap, CmdCap} \subseteq Nat \ {0}
  /\ {MaxInputs, MaxAsked, MaxEvents, MaxFaults} \subseteq Nat

VARIABLES
  w,         \* the worker
  t,         \* the terminal interface
  cmds,      \* commands on their way to the worker
  msgs,      \* messages on their way to the terminal
  exit,      \* the cancellation token
  r,         \* the router's side of the current run (external)
  executed,  \* history: how often each tool was run
  approved,  \* history: calls the user approved
  grants,    \* history: <<what, session>> the user approved for a session
  answer,    \* history: the last tool results posted, and what was asked
  held,      \* history: a /resume kept the grants, as its break failed
  left,      \* history: a /resume left a paused run without an Idle message
  lost,      \* history: decided calls whose result could not be sealed
  inputs, events, faults, sessions

vars == <<w, t, cmds, msgs, exit, r, executed, approved, grants, answer,
          held, left, lost, inputs, events, faults, sessions>>
history == <<executed, approved, grants, answer, held, left, lost>>
bounds == <<inputs, events, faults, sessions>>

-----------------------------------------------------------------------------
(* Commands and messages: a kind, and the identifier it is about.          *)

Cmd(kind) == [kind |-> kind, id |-> 0, option |-> "None"]
ResumeSession(s) == [kind |-> "ResumeSession", id |-> s, option |-> "None"]
Decision(c, o) == [kind |-> "Decision", id |-> c, option |-> o]
Msg(kind) == [kind |-> kind, id |-> 0]
MsgAbout(kind, c) == [kind |-> kind, id |-> c]

\* The approval of something that is no tool call: a plan, a disclosure.
Standalone == 0

Queries == {"Preview", "ListProviders", "GetUsage", "GetTrace",
            "GetRouterStatus"}
CmdKinds == Queries \cup {"Execute", "Break", "Clear", "ListModels",
                          "ListSessions", "ResumeSession", "Decision"}
MsgKinds == {"ApprovalPrompt", "AssistantTurn", "Error", "Idle",
             "Interrupted", "ModelsList", "Note", "View", "ResumedSession",
             "SessionClosed", "SessionsList", "Chunk", "Thinking",
             "ToolCallStarted"}
Options == {"ApproveOnce", "ApproveAlwaysForSession", "Reject"}

-----------------------------------------------------------------------------
(* Approvals.                                                              *)

(***************************************************************************)
(* The alias of a command.  A token is plain, cut (a plain prefix and then *)
(* something else) or stop (no plain prefix).  The alias keeps plain words *)
(* up to the first boundary and the prefix of a cut one; a cut in the      *)
(* command itself is no boundary.                                          *)
(***************************************************************************)
NoAlias == <<>>
CommandAlias(words) ==
  IF words = <<>> \/ words[1].cut = "stop" THEN NoAlias
  ELSE LET Boundary(i) == words[i].cut # "plain"
           first == {i \in 2 .. Len(words) : Boundary(i)}
           end == IF first = {} THEN Len(words)
                  ELSE LET i == CHOOSE j \in first : \A k \in first : j <= k
                       IN IF words[i].cut = "cut" THEN i ELSE i - 1
       IN [i \in 1 .. end |-> words[i].text]

ToolChangesFiles(c) == Tool[c] \in {"write_file", "edit_file"}
ReadsFile(c) == Tool[c] = "read_file"

\* What an always-for-session approval of a call covers: the two accept flags,
\* written as words no command has, and the alias of its command.
Edits == <<"", "edits">>
Reads == <<"", "reads">>
Aliases(c) == {CommandAlias(Words[c])} \ {NoAlias}
Covers(c) ==
  Aliases(c) \cup {f \in {Edits, Reads} : \/ f = Edits /\ ToolChangesFiles(c)
                                          \/ f = Reads /\ ReadsFile(c)}

\* Mutant: accepted reads cover every file tool.
ToolCallDecisionAnyEdit(c, wk) ==
  \/ Needs[c] = "Allow"
  \/ wk.edits /\ ToolChangesFiles(c)
  \/ wk.reads /\ (ReadsFile(c) \/ ToolChangesFiles(c))
  \/ Aliases(c) \cap wk.aliases # {}

\* The worker runs the call without asking.
ToolCallDecision(c, wk) ==
  \/ Needs[c] = "Allow"
  \/ wk.edits /\ ToolChangesFiles(c)
  \/ wk.reads /\ ReadsFile(c)
  \/ Aliases(c) \cap wk.aliases # {}

\* The approval prompt offers "always" only where it would mean something.
AllowsSessionAcceptance(c) == c # Standalone /\ Covers(c) # {}

ApprovalOptions(c) ==
  IF AllowsSessionAcceptance(c) THEN Options ELSE {"ApproveOnce", "Reject"}

-----------------------------------------------------------------------------
NoAnswer == [calls |-> {}, asked |-> {}, sealed |-> FALSE, wanted |-> FALSE,
             auto |-> FALSE, whole |-> TRUE]

NewRouterClient ==
  [state |-> "Idle", at |-> "loop", session |-> 0,
   edits |-> AutoApply, reads |-> FALSE, aliases |-> {},
   results |-> {}, requests |-> {}, prompts |-> {}, seals |-> FALSE]

NoTurn == [kind |-> "None", id |-> 0]

\* No run: nothing asked, nothing to seal, no stream events to come.
NoRun == [asks |-> {}, approval |-> FALSE, wants |-> FALSE, feed |-> <<>>,
          live |-> FALSE, cut |-> FALSE, used |-> {}]

Init ==
  /\ w = NewRouterClient
  /\ t = [component |-> "Console", router |-> "Idle", turn |-> NoTurn,
          awaited |-> FALSE, open |-> TRUE]
  \* A prompt on the command line is sent before the loop starts.
  /\ cmds \in {<<>>, <<Cmd("Execute")>>}
  /\ msgs = <<>>
  /\ exit = FALSE
  /\ r = NoRun
  /\ executed = [c \in Calls |-> 0]
  /\ approved = {}
  /\ grants = {}
  /\ answer = NoAnswer
  /\ held = FALSE
  /\ left = FALSE
  /\ lost = {}
  /\ inputs = 0 /\ events = 0 /\ faults = 0
  /\ sessions = 1  \* one session from an earlier run of the client

-----------------------------------------------------------------------------
(* The worker: what its handlers share.                                    *)

(***************************************************************************)
(* The channel holds MsgCap messages; those beyond are what the handler is *)
(* still waiting to send, and the worker does nothing else meanwhile.      *)
(***************************************************************************)
Blocked == Len(msgs) > MsgCap
SendMsg(ms) == msgs' = msgs \o ms

\* Its session is encrypted, as local.encrypt_sessions was when it was created.
Encrypted == w.session \in EncryptedSessions

Fault == faults < MaxFaults /\ faults' = faults + 1

Receive(kind) == cmds # <<>> /\ Head(cmds).kind = kind /\ cmds' = Tail(cmds)

\* select! takes whichever is ready: a command also after the token is cancelled.
AtLoop == w.at = "loop" /\ ~Blocked
Streaming == w.at = "stream" /\ ~Blocked

\* A stream is over: a run that was still streaming is idle, and says so.
Settled(wk) ==
  [wk EXCEPT !.at = "loop",
             !.state = IF wk.state = "Streaming" THEN "Idle" ELSE wk.state]

\* Mutant: an idle end is not announced.
LeaveSilently(wk, ms) == w' = Settled(wk) /\ SendMsg(ms) /\ UNCHANGED left

Leave(wk, ms) ==
  LET idle == Settled(wk).state = "Idle"
  IN /\ w' = Settled(wk)
     /\ SendMsg(IF idle THEN Append(ms, Msg("Idle")) ELSE ms)
     /\ left' = (left /\ ~idle)

\* A continuation is posted: its stream replaces the present one, or it fails.
StreamContinue(wk, ms, run) ==
  \/ /\ w' = [wk EXCEPT !.state = "Streaming", !.at = "stream"]
     /\ SendMsg(ms)
     /\ r' = run
     /\ UNCHANGED <<left, faults>>
  \/ /\ Fault
     /\ Leave([wk EXCEPT !.state = "Idle"], Append(ms, Msg("Error")))
     /\ UNCHANGED r

Cleared(wk) == [wk EXCEPT !.prompts = {}, !.requests = {}, !.results = {}]

ResetSessionState(wk) == [NewRouterClient EXCEPT !.at = wk.at]

-----------------------------------------------------------------------------
(* The router, external: how it answers what the worker posts.             *)

RouterTurn(run) ==
  [run EXCEPT !.asks = {}, !.approval = FALSE, !.wants = FALSE,
              !.feed = <<>>, !.live = TRUE, !.cut = FALSE]

RouterReplies(run, outcome) ==
  [run EXCEPT !.feed = <<Msg(outcome)>>, !.live = FALSE]

RouterBreaks(run) == RouterReplies(RouterTurn(run), "Idle")

\* Results must answer the pending calls one to one, and carry the seals.
RouterToolResults(run, calls, sealed) ==
  IF calls = run.asks /\ (run.wants => sealed) THEN RouterTurn(run)
  ELSE RouterReplies(run, "Error")

RouterDecision(run, id, sealed) ==
  IF run.approval /\ id = Standalone /\ (run.wants => sealed)
    THEN RouterTurn(run)
  ELSE RouterReplies(run, "Error")

\* The calls of a set in the order they are asked for: the one sequence there is.
Ascending(calls) ==
  {f \in [1 .. Cardinality(calls) -> calls] :
     \A i, j \in DOMAIN f : i < j => f[i] < f[j]}

\* The events of a turn that asks for tools: its requests are replayed, each one
\* announced and then made, and the end follows.
Replayed(calls, order) ==
  LET event(i) == IF i % 2 = 1 THEN "ToolCallStarted" ELSE "ToolCallRequested"
  IN Append([i \in 1 .. 2 * Cardinality(calls) |->
               MsgAbout(event(i), order[(i + 1) \div 2])],
            Msg("AwaitingTool"))

\* The turn ends by asking for tools.
RouterAsks ==
  /\ r.live /\ w.at = "stream"
  /\ \E S \in SUBSET (Calls \ r.used) :
       /\ S # {} /\ Cardinality(r.used \cup S) <= MaxAsked
       /\ \E order \in Ascending(S) :
            r' = [r EXCEPT !.asks = S, !.live = FALSE, !.wants = Encrypted,
                           !.used = @ \cup S, !.feed = Replayed(S, order)]
  /\ UNCHANGED <<w, t, cmds, msgs, exit, history, bounds>>

\* The turn ends in one of the other ways.
RouterEnds ==
  /\ r.live /\ w.at = "stream"
  /\ \/ /\ \E k \in {"Completed", "Error"} : r' = RouterReplies(r, k)
        /\ UNCHANGED events
     \/ /\ events < MaxEvents /\ events' = events + 1
        /\ r' = [RouterReplies(r, "AwaitingApproval") EXCEPT
                   !.approval = TRUE, !.wants = Encrypted]
     \/ /\ Encrypted
        /\ events < MaxEvents /\ events' = events + 1
        /\ \E k \in {"AwaitingDecrypt", "AwaitingEncrypt"} :
             r' = RouterReplies(r, k)
  /\ UNCHANGED <<w, t, cmds, msgs, exit, history, inputs, faults, sessions>>

-----------------------------------------------------------------------------
(* The worker reads a stream.                                              *)

TakeEvent(kind) == Streaming /\ r.feed # <<>> /\ Head(r.feed).kind = kind
EventTaken == [r EXCEPT !.feed = Tail(@)]

\* Text or reasoning arrives.
StreamDelta ==
  /\ Streaming /\ r.live
  /\ events < MaxEvents /\ events' = events + 1
  /\ SendMsg(<<Msg("Chunk")>>)
  /\ UNCHANGED <<w, t, cmds, exit, r, history, inputs, faults, sessions>>

\* The stream is dropped before its end was read.
StreamDropped == [r EXCEPT !.feed = <<>>, !.live = FALSE, !.cut = TRUE]

\* The connection fails, or the body ends before its turn_end.
StreamBreaks ==
  /\ Streaming /\ Fault
  /\ \/ Leave([w EXCEPT !.state = "Idle"], <<Msg("Error")>>)
     \/ Leave(w, <<>>)
  /\ r' = StreamDropped
  /\ UNCHANGED <<t, cmds, exit, executed, approved, lost, grants, answer, held,
                 inputs, events, sessions>>

ToolCallStarted ==
  /\ TakeEvent("ToolCallStarted")
  /\ r' = EventTaken
  /\ SendMsg(<<MsgAbout("ToolCallStarted", Head(r.feed).id)>>)
  /\ UNCHANGED <<w, t, cmds, exit, history, bounds>>

(***************************************************************************)
(* Requested calls that have neither a result nor a prompt yet: those that *)
(* need no approval are run, the others are prompted for.                  *)
(***************************************************************************)
\* Mutant: only open prompts are remembered.
NewRequestsPrompted(calls) == calls \ w.prompts

NewRequests(calls) == calls \ (w.results \cup w.prompts)

RunNow(calls) == {c \in NewRequests(calls) : ToolCallDecision(c, w)}
AskNow(calls) == NewRequests(calls) \ RunNow(calls)

HandleToolCallRequested(calls) ==
  [w EXCEPT !.results = @ \cup RunNow(calls),
            !.requests = @ \cup AskNow(calls),
            !.prompts = @ \cup AskNow(calls),
            !.state = IF AskNow(calls) = {} THEN @ ELSE "AwaitingTool"]

\* One prompt for each call, in their order.
Prompts(calls) ==
  {[i \in 1 .. Cardinality(calls) |-> MsgAbout("ApprovalPrompt", order[i])] :
     order \in Ascending(calls)}

Ran(calls) ==
  executed' = [c \in Calls |-> executed[c] + IF c \in calls THEN 1 ELSE 0]

ToolCallRequested ==
  /\ TakeEvent("ToolCallRequested")
  /\ LET calls == {Head(r.feed).id}
     IN /\ w' = HandleToolCallRequested(calls)
        /\ \E prompts \in Prompts(AskNow(calls)) : SendMsg(prompts)
        /\ Ran(RunNow(calls))
  /\ r' = EventTaken
  /\ UNCHANGED <<t, cmds, exit, approved, lost, grants, answer, held, left, bounds>>

\* What the worker is about to post, beside what the router asked for.
Answers(calls, sealed, auto) ==
  answer' = [calls |-> calls, asked |-> r.asks, sealed |-> sealed,
             wanted |-> r.wants, auto |-> auto,
             whole |-> w.at = "loop" /\ ~r.cut /\ w.requests \subseteq r.asks]

\* Mutant: a pause that waits for the user forgets it.
PendingSealsForgot(run) == FALSE

\* What a pause leaves to be sealed with its answer.
PendingSeals(run) == run.wants

(***************************************************************************)
(* The turn ended with tool requests.  With a result for each the worker   *)
(* answers by itself, sealing what the router asked for; otherwise it      *)
(* waits for the user.                                                     *)
(***************************************************************************)
HandleAwaitingTool ==
  /\ TakeEvent("AwaitingTool")
  /\ Ran(RunNow(r.asks))
  /\ LET handled == [HandleToolCallRequested(r.asks) EXCEPT !.seals = PendingSeals(r)]
         complete == r.asks \subseteq handled.results
         sent == [handled EXCEPT !.results = @ \ r.asks, !.prompts = {},
                                 !.requests = {}]
     IN \/ /\ ~complete
           /\ \E prompts \in Prompts(AskNow(r.asks)) :
                Leave([handled EXCEPT !.state = "AwaitingTool"], prompts)
           /\ r' = EventTaken
           /\ UNCHANGED <<answer, faults>>
        \/ /\ complete
           /\ Answers(r.asks, handled.seals, TRUE)
           /\ StreamContinue([sent EXCEPT !.seals = FALSE], <<>>,
                             RouterToolResults(r, r.asks, handled.seals))
        \/ /\ complete /\ Encrypted /\ Fault  \* the session key is missing
           /\ Leave([sent EXCEPT !.state = "Idle"], <<Msg("Error")>>)
           /\ r' = EventTaken
           /\ UNCHANGED answer
  /\ UNCHANGED <<t, cmds, exit, approved, lost, grants, held, inputs, events,
                 sessions>>

HandleAwaitingApproval ==
  /\ TakeEvent("AwaitingApproval")
  /\ Leave([w EXCEPT !.seals = PendingSeals(r), !.state = "AwaitingApproval"],
           <<MsgAbout("ApprovalPrompt", Standalone)>>)
  /\ r' = EventTaken
  /\ UNCHANGED <<t, cmds, exit, executed, approved, lost, grants, answer, held,
                 bounds>>

\* A pause of the encryption is answered at once, if the key is there.
HandleCryptoPause(kind, run) ==
  /\ TakeEvent(kind)
  /\ \/ StreamContinue(w, <<>>, run)
     \/ /\ Fault
        /\ Leave([w EXCEPT !.state = "Idle"], <<Msg("Error")>>)
        /\ r' = EventTaken
  /\ UNCHANGED <<t, cmds, exit, executed, approved, lost, grants, answer, held,
                 inputs, events, sessions>>

ContinueWithDecrypted == HandleCryptoPause("AwaitingDecrypt", RouterTurn(r))
ContinueWithSealed ==
  HandleCryptoPause("AwaitingEncrypt", RouterReplies(r, "Idle"))

HandleCompleted ==
  /\ TakeEvent("Completed")
  /\ LET done == [Cleared(w) EXCEPT !.state = "Idle"]
         turn == <<Msg("AssistantTurn")>>
     IN \/ /\ ~Encrypted
           /\ Leave(done, turn)
           /\ r' = EventTaken
           /\ UNCHANGED faults
        \/ /\ Encrypted
           /\ StreamContinue(done, turn, RouterReplies(r, "Idle"))
  /\ UNCHANGED <<t, cmds, exit, executed, approved, lost, grants, answer, held,
                 inputs, events, sessions>>

\* Nothing of the turn is left: an idle outcome, or an error of the router.
HandleTurnOver(kind, ms) ==
  /\ TakeEvent(kind)
  /\ Leave([Cleared(w) EXCEPT !.seals = FALSE, !.state = "Idle"], ms)
  /\ r' = EventTaken
  /\ UNCHANGED <<t, cmds, exit, executed, approved, lost, grants, answer, held,
                 bounds>>

HandleIdle == HandleTurnOver("Idle", <<>>)
HandleError == HandleTurnOver("Error", <<Msg("Error")>>)

TurnStream ==
  \/ StreamDelta \/ StreamBreaks \/ ToolCallStarted \/ ToolCallRequested
  \/ HandleAwaitingTool \/ HandleAwaitingApproval \/ ContinueWithDecrypted
  \/ ContinueWithSealed \/ HandleCompleted \/ HandleIdle \/ HandleError

-----------------------------------------------------------------------------
(* Commands the worker takes in its main loop.                             *)

SessionIdOrNew == IF w.session = 0 THEN sessions + 1 ELSE w.session

\* An execute opens a session if there is none, and starts to open a stream.
Execute ==
  /\ AtLoop /\ Receive("Execute") /\ w.state = "Idle"
  /\ \/ /\ w' = [w EXCEPT !.state = "Streaming", !.at = "opening",
                          !.session = SessionIdOrNew]
        /\ sessions' = IF SessionIdOrNew > sessions THEN SessionIdOrNew
                       ELSE sessions
        /\ SendMsg(<<Msg("Thinking")>>)
        /\ UNCHANGED faults
     \/ /\ w.session = 0 /\ Fault  \* no key, or no session
        /\ SendMsg(<<Msg("Error")>>)
        /\ UNCHANGED <<w, sessions>>
  /\ UNCHANGED <<t, exit, r, history, inputs, events>>

ExecuteOpens ==
  /\ w.at = "opening" /\ ~Blocked
  /\ StreamContinue(w, <<>>, RouterTurn(r))
  /\ UNCHANGED <<t, cmds, exit, executed, approved, lost, grants, answer, held,
                 inputs, events, sessions>>

\* A query is answered with one message, or with an error.
Query(kind, reply) ==
  /\ AtLoop /\ Receive(kind)
  /\ \/ SendMsg(<<Msg(reply)>>) /\ UNCHANGED faults
     \/ Fault /\ SendMsg(<<Msg("Error")>>)
  /\ UNCHANGED <<w, t, exit, r, history, inputs, events, sessions>>

SessionQuery(kind, reply) ==
  \/ w.session # 0 /\ Query(kind, reply)
  \/ /\ w.session = 0
     /\ AtLoop /\ Receive(kind)
     /\ SendMsg(<<Msg("Error")>>)
     /\ UNCHANGED <<w, t, exit, r, history, bounds>>

Preview == Query("Preview", "Note")
GetRouterStatus == Query("GetRouterStatus", "Note")
ListProviders == Query("ListProviders", "View")
ListModels == Query("ListModels", "ModelsList")
ListSessions == Query("ListSessions", "SessionsList")
GetUsage == SessionQuery("GetUsage", "View")
GetTraces == SessionQuery("GetTrace", "Note")

\* There is a run to break before the session changes.
ActiveRun == w.state # "Idle" /\ w.session # 0

\* /clear ends the session, whether or not its run could be broken.
ClearSession ==
  /\ AtLoop /\ Receive("Clear")
  /\ w' = ResetSessionState(w)
  /\ LET done == <<Msg("Idle"), Msg("SessionClosed")>>
     IN \/ SendMsg(done) /\ UNCHANGED faults
        \/ ActiveRun /\ Fault /\ SendMsg(<<Msg("Error")>> \o done)
  /\ r' = [NoRun EXCEPT !.used = r.used]
  /\ held' = FALSE /\ left' = FALSE
  /\ UNCHANGED <<t, exit, executed, approved, lost, grants, answer, inputs, events,
                 sessions>>

(***************************************************************************)
(* /resume breaks the active run and resets the session state, or reports  *)
(* that it could not and goes on.  Then it loads the session; no Idle      *)
(* message is sent on any of these paths.                                  *)
(***************************************************************************)
Resume ==
  /\ AtLoop /\ Receive("ResumeSession")
  /\ \E broken \in {TRUE} \cup (IF ActiveRun THEN {FALSE} ELSE {}),
        loaded \in BOOLEAN :
       LET from == IF broken THEN ResetSessionState(w) ELSE w
           cost == Cardinality({b \in {<<1, broken>>, <<2, loaded>>} : ~b[2]})
       IN /\ faults + cost <= MaxFaults
          /\ faults' = faults + cost
          /\ w' = IF loaded
                    THEN [from EXCEPT !.session = Head(cmds).id,
                                      !.aliases = {}, !.state = "Idle"]
                  ELSE from
          /\ SendMsg((IF broken THEN <<>> ELSE <<Msg("Error")>>) \o
                     <<IF loaded THEN Msg("ResumedSession")
                       ELSE Msg("Error")>>)
          /\ held' = ~broken
          /\ r' = IF broken \/ loaded THEN [NoRun EXCEPT !.used = r.used]
                  ELSE r
  /\ left' = (left \/ (w.state # "Idle" /\ w'.state = "Idle"))
  /\ UNCHANGED <<t, exit, executed, approved, lost, grants, answer, inputs, events,
                 sessions>>

-----------------------------------------------------------------------------
(* Continuations, taken in the main loop and in front of a stream alike.   *)

CanContinue == w.at \in {"loop", "opening", "stream"} /\ ~Blocked

\* Always for this session: what the approval of a call switches on.
Accept(wk, c, option) ==
  IF option # "ApproveAlwaysForSession" THEN wk
  ELSE [wk EXCEPT
          !.edits = @ \/ ToolChangesFiles(c),
          !.reads = @ \/ ReadsFile(c),
          !.aliases = @ \cup Aliases(c)]

\* The decided call is no longer pending.
Taken(wk, c) == [wk EXCEPT !.requests = @ \ {c}, !.prompts = @ \ {c}]

(***************************************************************************)
(* The user decided about a tool.  The decided call leaves the pending     *)
(* ones, is run if it was approved, and its result alone is posted with    *)
(* the pending seals; a decision about another call is an error.           *)
(***************************************************************************)
DecideTool ==
  /\ CanContinue /\ Receive("Decision")
  /\ w.state = "AwaitingTool"
  /\ LET c == Head(cmds).id
         option == Head(cmds).option
         taken == Accept(Taken(w, c), c, option)
     IN \/ /\ c \notin w.requests
           /\ SendMsg(<<Msg("Error")>>)
           /\ UNCHANGED <<w, r, executed, answer, left, lost, faults>>
        \/ /\ c \in w.requests
           /\ Ran(IF option = "Reject" THEN {} ELSE {c})
           /\ \/ /\ Answers({c}, w.seals, FALSE)
                 /\ StreamContinue([taken EXCEPT !.seals = FALSE], <<>>,
                                   RouterToolResults(r, {c}, w.seals))
                 /\ UNCHANGED lost
              \/ /\ Encrypted /\ Fault  \* the session key is missing
                 /\ w' = taken
                 /\ lost' = lost \cup {c}
                 /\ SendMsg(<<Msg("Error")>>)
                 /\ UNCHANGED <<r, answer, left>>
  /\ UNCHANGED <<t, exit, approved, grants, held, inputs, events, sessions>>

\* The user decided about a plan or a disclosure; the identifier is not checked.
DecideApproval ==
  /\ CanContinue /\ Receive("Decision")
  /\ w.state = "AwaitingApproval"
  /\ \/ StreamContinue([w EXCEPT !.seals = FALSE], <<>>,
                       RouterDecision(r, Head(cmds).id, w.seals))
     \/ /\ w.seals /\ Fault  \* the session key is missing
        /\ SendMsg(<<Msg("Error")>>)
        /\ UNCHANGED <<w, r, left>>
  /\ UNCHANGED <<t, exit, executed, approved, lost, grants, answer, held, inputs,
                 events, sessions>>

Break ==
  /\ CanContinue /\ Receive("Break")
  /\ w.session # 0 /\ w.state # "Idle"
  /\ StreamContinue(w, <<Msg("Interrupted")>>, RouterBreaks(r))
  /\ UNCHANGED <<t, exit, executed, approved, lost, grants, answer, held, inputs,
                 events, sessions>>

\* A command the worker's state has no use for is dropped without a message.
Ignore ==
  /\ CanContinue /\ cmds # <<>> /\ cmds' = Tail(cmds)
  /\ LET kind == Head(cmds).kind
     IN \/ kind = "Break" /\ (w.session = 0 \/ w.state = "Idle")
        \/ kind = "Decision" /\ w.state \in {"Idle", "Streaming"}
        \/ kind = "Execute" /\ w.state # "Idle"
        \/ kind \notin {"Break", "Decision"} /\ w.at \in {"opening", "stream"}
  /\ UNCHANGED <<w, t, msgs, exit, r, history, bounds>>

Commands ==
  \/ Execute \/ ExecuteOpens \/ Preview \/ GetRouterStatus \/ ListProviders
  \/ ListModels \/ ListSessions \/ GetUsage \/ GetTraces \/ ClearSession \/ Resume
  \/ DecideTool \/ DecideApproval \/ Break \/ Ignore

\* The main loop sees the token and begins to sign out.
LoopStops == w.at = "loop" /\ w' = [w EXCEPT !.at = "signing_out"]

(***************************************************************************)
(* The token is cancelled: an open stream is left, an execute returns      *)
(* without a word, and the main loop is left.                              *)
(***************************************************************************)
WorkerExits ==
  /\ exit /\ ~Blocked
  /\ \/ LoopStops /\ UNCHANGED <<msgs, left>>
     \/ /\ w.at = "opening"
        /\ w' = [w EXCEPT !.at = "loop"]
        /\ UNCHANGED <<msgs, left>>
     \/ w.at = "stream" /\ Leave(w, <<>>)
  /\ r' = IF w.at = "stream" THEN StreamDropped ELSE r
  /\ UNCHANGED <<t, cmds, exit, executed, approved, lost, grants, answer, held,
                 bounds>>

\* The router has answered the sign-out, or it failed: the worker is done.
SignedOut ==
  /\ w.at = "signing_out" /\ w' = [w EXCEPT !.at = "stopped"]
  /\ UNCHANGED <<t, cmds, msgs, exit, r, history, bounds>>

-----------------------------------------------------------------------------
(* The run loop: one input event or one message at a time.                 *)

\* The channel holds CmdCap commands; one beyond is what the loop is still waiting to
\* send, and it does nothing else meanwhile.
Waiting == Len(cmds) > CmdCap

Input == t.open /\ ~Waiting /\ inputs < MaxInputs /\ inputs' = inputs + 1
Send(cmd) == ~Waiting /\ cmds' = Append(cmds, cmd)

OnConsole == t.component = "Console" /\ t.turn.kind = "None"
ShowConsole(ti) == [ti EXCEPT !.component = "Console"]

Keyed(act) ==
  /\ Input
  /\ act
  /\ UNCHANGED <<w, msgs, r, history, events, faults, sessions>>

\* Enter on a prompt.
HandlePromptExec ==
  Keyed(OnConsole /\ Send(Cmd("Execute")) /\ UNCHANGED <<t, exit>>)

\* A slash command that needs no arguments: a request to the worker, a view
\* that replaces the console (/help, /skills), or /quit, which cancels the token.
HandleCommand ==
  Keyed(/\ OnConsole
        /\ \/ /\ \E kind \in (Queries \ {"Preview"}) \cup {"Clear"} : Send(Cmd(kind))
              /\ UNCHANGED <<t, exit>>
           \/ t' = [t EXCEPT !.component = "View"] /\ UNCHANGED <<cmds, exit>>
           \/ exit' = TRUE /\ UNCHANGED <<t, cmds>>)

HandlePreviewCommand ==
  Keyed(OnConsole /\ Send(Cmd("Preview")) /\ UNCHANGED <<t, exit>>)

\* /model lists the models; /model <model> waits for the list to look it up.
HandleModelCommand ==
  Keyed(/\ OnConsole /\ Send(Cmd("ListModels"))
        /\ \E awaited \in {TRUE, t.awaited} : t' = [t EXCEPT !.awaited = awaited]
        /\ UNCHANGED exit)

HandleResumeCommand ==
  Keyed(/\ OnConsole
        /\ \/ Send(Cmd("ListSessions"))
           \/ \E s \in 1 .. sessions : Send(ResumeSession(s))
        /\ UNCHANGED <<t, exit>>)

\* Enter or Escape on a list or an information view leads back to the console.
LeaveView ==
  Keyed(/\ t.component # "Console" /\ t' = ShowConsole(t)
        /\ UNCHANGED <<cmds, exit>>)

ResumeSelectedSession ==
  Keyed(/\ t.component = "Sessions" /\ t' = ShowConsole(t)
        /\ \E s \in 1 .. sessions : Send(ResumeSession(s))
        /\ UNCHANGED exit)

\* The user decides about the prompt on display; it stays on display.
Decide ==
  /\ Input /\ t.component = "Console" /\ t.turn.kind = "Approval"
  /\ LET c == t.turn.id
     IN \E option \in ApprovalOptions(c) :
          /\ Send(Decision(c, option))
          /\ approved' = IF option = "Reject" THEN approved
                         ELSE approved \cup {c}
          /\ grants' = IF option # "ApproveAlwaysForSession" THEN grants
                       ELSE grants \cup (Covers(c) \X {w.session})
  /\ UNCHANGED <<w, t, msgs, exit, r, executed, lost, answer, held, left, events,
                 faults, sessions>>

\* Ctrl+C or Escape: break a turn, else clear what was typed, else quit.
Busy == t.turn.kind # "None" \/ t.router = "Thinking"

HandleInterrupt ==
  Keyed(\/ /\ t.component = "Console" /\ Busy
           /\ Send(Cmd("Break"))
           /\ UNCHANGED <<t, exit>>
        \/ /\ t.component = "Console" => ~Busy
           /\ exit' = TRUE
           /\ UNCHANGED <<t, cmds>>)

\* Mutant: a prompt does not displace the turn on display.
ShowApprovalNext(ti, c) ==
  IF ti.turn.kind = "None" THEN [ti EXCEPT !.turn = [kind |-> "Approval", id |-> c]] ELSE ti

\* An approval prompt takes the place of whatever turn is on display.
ShowApproval(ti, c) == [ti EXCEPT !.turn = [kind |-> "Approval", id |-> c]]

\* A message is applied to the state of the terminal.
ApplyMsg(ti, m) ==
  LET Turn(kind) == [ti EXCEPT !.turn = [kind |-> kind, id |-> m.id]]
  IN CASE m.kind = "ApprovalPrompt" -> ShowApproval(ti, m.id)
       [] m.kind = "ToolCallStarted" -> Turn("ToolCall")
       [] m.kind = "AssistantTurn" -> Turn("None")
       [] m.kind = "Chunk" ->
            IF ti.turn.kind = "None" THEN Turn("Streaming") ELSE ti
       [] m.kind = "Idle" -> [Turn("None") EXCEPT !.router = "Idle"]
       [] m.kind = "Interrupted" ->
            [Turn("None") EXCEPT !.router = "Interrupted"]
       [] m.kind = "Thinking" -> [ti EXCEPT !.router = "Thinking"]
       [] m.kind = "ModelsList" ->
            IF ti.awaited THEN [ti EXCEPT !.awaited = FALSE]
            ELSE [ti EXCEPT !.component = "View"]
       [] m.kind = "SessionsList" -> [ti EXCEPT !.component = "Sessions"]
       [] m.kind = "View" -> [ti EXCEPT !.component = "View"]
       [] m.kind \in {"ResumedSession", "SessionClosed"} ->
            ShowConsole(Turn("None"))
       [] OTHER -> ti

HandleClientMsg ==
  /\ t.open /\ ~Waiting /\ msgs # <<>>
  /\ t' = ApplyMsg(t, Head(msgs))
  /\ msgs' = Tail(msgs)
  /\ UNCHANGED <<w, cmds, exit, r, history, bounds>>

\* The loop sees the token and joins the tasks: it handles nothing more.  It sees it
\* only between two inputs; a send fails when the worker is gone.
LoopEnds ==
  /\ exit /\ t.open /\ (Waiting => w.at = "stopped")
  /\ t' = [t EXCEPT !.open = FALSE]
  /\ UNCHANGED <<w, cmds, msgs, exit, r, history, bounds>>

User ==
  \/ HandlePromptExec \/ HandleCommand \/ HandlePreviewCommand
  \/ HandleModelCommand \/ HandleResumeCommand \/ LeaveView
  \/ ResumeSelectedSession \/ Decide \/ HandleInterrupt
RunLoop == HandleClientMsg \/ LoopEnds
Router == RouterAsks \/ RouterEnds
Worker == TurnStream \/ Commands \/ WorkerExits \/ SignedOut

Next == User \/ RunLoop \/ Router \/ Worker

Spec == Init /\ [][Next]_vars

(***************************************************************************)
(* The tasks are polled: the run loop handles what is there, the worker    *)
(* takes the commands, the events and the token in front of it, and select *)
(* chooses at random, so a branch that is ready again and again is taken.  *)
(* The router ends its turns and answers a sign-out.  Nothing makes the    *)
(* user press a key.                                                       *)
(***************************************************************************)
FairSpec ==
  /\ Spec
  /\ WF_vars(RunLoop)
  /\ SF_vars(LoopEnds)
  /\ WF_vars(Router)
  /\ WF_vars(TurnStream \/ Commands)
  /\ SF_vars(WorkerExits)
  /\ WF_vars(SignedOut)
  /\ SF_vars(Break)

-----------------------------------------------------------------------------
(* Properties.                                                             *)

\* Every variable has the values its Rust type and the bounds allow.
TypeOK ==
  /\ w \in [state : {"Idle", "AwaitingTool", "AwaitingApproval", "Streaming"},
            at : {"loop", "opening", "stream", "signing_out", "stopped"},
            session : 0 .. sessions, edits : BOOLEAN, reads : BOOLEAN,
            aliases : SUBSET {CommandAlias(Words[c]) : c \in Calls},
            results : SUBSET Calls, requests : SUBSET Calls,
            prompts : SUBSET Calls, seals : BOOLEAN]
  /\ t \in [component : {"Console", "Sessions", "View"},
            router : {"Idle", "Thinking", "Interrupted"},
            turn : [kind : {"None", "Streaming", "ToolCall", "Approval"},
                    id : Calls \cup {0}],
            awaited : BOOLEAN, open : BOOLEAN]
  /\ cmds \in Seq([kind : CmdKinds, id : Calls \cup (0 .. sessions),
                   option : Options \cup {"None"}])
  /\ msgs \in Seq([kind : MsgKinds, id : Calls \cup {0}])
  /\ Len(cmds) <= CmdCap + 1
  /\ w.requests = w.prompts
  /\ exit \in BOOLEAN

\* A tool is run at most once for a call, however its request is repeated,
\* decided, or left over when a continuation fails.  The one exception: the
\* result of a decided call could not be sealed, so that the call is no longer
\* pending and not answered either; the end of its turn may then run it again
\* (handle_tool_call_requested, tool_approval_request).
ExecutedOnce == \A c \in Calls \ lost : executed[c] <= 1

(***************************************************************************)
(* A call that needs approval is run only when the user approved that very *)
(* call, or gave in this session an approval that covers it, or edits are  *)
(* applied automatically.  The one exception is a /resume whose break      *)
(* failed: the accept flags of the old session stay (tool_call_decision,   *)
(* reset_session_state).                                                   *)
(***************************************************************************)
ApprovedOnly ==
  [][\A c \in Calls :
       executed'[c] > executed[c] /\ Needs[c] = "Ask" =>
         \/ c \in approved
         \/ \E what \in Covers(c) : <<what, w.session>> \in grants
         \/ AutoApply /\ ToolChangesFiles(c)
         \/ held]_vars

\* Tool results the worker posts by itself, and those of a lone call decided
\* after its pause was read to the end, answer the pause one to one and carry
\* the seals it asked for.  A call that a broken stream left pending may be
\* decided, run and posted as the answer to a later pause: such an answer is
\* not whole (handle_awaiting_tool, tool_approval_request).
AnswersFit ==
  answer.auto \/ (answer.whole /\ Cardinality(answer.asked) = 1) =>
    answer.calls = answer.asked /\ (answer.wanted => answer.sealed)

\* Every post of tool results answers the pending calls one to one.
AnswersOneToOne == answer.calls = answer.asked

\* When the worker is idle and has nothing left to say, the terminal shows no
\* turn and no router at work, unless a /resume left a paused run behind.
TuiFollows ==
  w.at = "loop" /\ w.state = "Idle" /\ msgs = <<>> /\ ~left => ~Busy

\* A worker that waits for a decision about a lone call, and has nothing left
\* to say, has its prompt on display.
PromptShown ==
  /\ w.at = "loop" /\ w.state = "AwaitingTool" /\ msgs = <<>>
  /\ Cardinality(r.asks) = 1 /\ w.requests # {}
  => t.turn.kind = "Approval" /\ t.turn.id \in w.requests

\* Once the token is cancelled the worker stops, which quitting waits for.
QuitEnds == exit ~> w.at = "stopped"

=============================================================================
