----------------------------- MODULE CliProofs -----------------------------
(***************************************************************************)
(* Proofs about the interactive client, for every set of tool calls, any   *)
(* policy of approvals and any bounds: a call is run at most once, what is *)
(* run was approved, and the answers the worker posts fit what was asked.  *)
(***************************************************************************)
EXTENDS Cli, FiniteSetTheorems, TLAPS

-----------------------------------------------------------------------------
(* The inductive invariants.                                               *)

\* The events of a turn that asks for tools, and the other ends of a turn.
ToolEvents == {"ToolCallStarted", "ToolCallRequested"}
Asking == ToolEvents \cup {"AwaitingTool"}
Outcomes == {"AwaitingApproval", "AwaitingDecrypt", "AwaitingEncrypt",
             "Completed", "Error", "Idle"}

Message == [kind : MsgKinds, id : Calls \cup {0}]
Event == [kind : Asking \cup Outcomes, id : Calls \cup {0}]
Run == [asks : SUBSET Calls, approval : BOOLEAN, wants : BOOLEAN,
        feed : Seq(Event), live : BOOLEAN, cut : BOOLEAN, used : SUBSET Calls]
Terminal == [component : {"Console", "Sessions", "View"},
             router : {"Idle", "Thinking", "Interrupted"},
             turn : [kind : {"None", "Streaming", "ToolCall", "Approval"},
                     id : Calls \cup {0}],
             awaited : BOOLEAN, open : BOOLEAN]

\* The commands and the worker where there are n sessions.
Command(n) == [kind : CmdKinds, id : Calls \cup (0 .. n),
               option : Options \cup {"None"}]
Client(n) ==
  {wk \in [state : {"Idle", "AwaitingTool", "AwaitingApproval", "Streaming"},
           at : {"loop", "opening", "stream", "signing_out", "stopped"},
           session : 0 .. n, edits : BOOLEAN, reads : BOOLEAN,
           aliases : SUBSET {CommandAlias(Words[c]) : c \in Calls},
           results : SUBSET Calls, requests : SUBSET Calls,
           prompts : SUBSET Calls, seals : BOOLEAN] :
     wk.requests = wk.prompts}

\* TypeOK and the types of the rest; a session to resume is one there is.
Typing ==
  /\ w \in Client(sessions)
  /\ t \in Terminal
  /\ cmds \in Seq(Command(sessions))
  /\ Len(cmds) <= CmdCap + 1
  /\ \A i \in DOMAIN cmds :
       cmds[i].kind = "ResumeSession" => cmds[i].id \in 1 .. sessions
  /\ msgs \in Seq(Message)
  /\ exit \in BOOLEAN
  /\ sessions \in Nat \ {0}
  /\ r \in Run
  /\ executed \in [Calls -> Nat]
  /\ lost \subseteq Calls
  /\ held \in BOOLEAN
  /\ left \in BOOLEAN

\* What is asked for, pending or executed was asked for by the router before.
Used ==
  /\ r.asks \subseteq r.used
  /\ w.requests \subseteq r.used
  /\ \A c \in Calls : executed[c] > 0 => c \in r.used

\* The events at hand ask for calls of the pause; an outcome is the last one.
Fed ==
  \A i \in DOMAIN r.feed :
    /\ r.feed[i].kind = "ToolCallRequested" => r.feed[i].id \in r.asks
    /\ r.feed[i].kind \notin ToolEvents => i = Len(r.feed)

\* A pending call has not been run, and one that was run has its result at hand
\* as long as the stream may ask for it again.
RunAgain == \E i \in DOMAIN r.feed : r.feed[i].kind \in Asking
Once ==
  /\ ExecutedOnce
  /\ \A c \in w.requests \ lost : executed[c] = 0
  /\ w.at = "stream" /\ RunAgain =>
       \A c \in r.asks \ lost : executed[c] > 0 => c \in w.results

\* A worker that waits for the user at the end of a pause holds its seals; one that
\* opens a stream does not wait.
SealsHeld ==
  /\ w.at = "loop" /\ ~r.cut /\ w.state = "AwaitingTool" => (r.wants => w.seals)
  /\ w.at = "opening" => w.state = "Streaming"

\* Without a session there is nothing to decide and nothing accepted.
NoSession ==
  w.session = 0 =>
    /\ w.at \in {"loop", "signing_out", "stopped"}
    /\ w.state = "Idle"
    /\ w.requests = {} /\ r.asks = {}
    /\ w.edits = AutoApply /\ ~w.reads /\ w.aliases = {}

Granted(what) == <<what, w.session>> \in grants

\* What is accepted in a session was granted in it.
Accepted ==
  \/ held
  \/ /\ w.edits => AutoApply \/ Granted(Edits)
     /\ w.reads => Granted(Reads)
     /\ \A a \in w.aliases : Granted(a)

\* A decision on its way is one the user made, and where it is accepted for a
\* session that is the present one, or the call is no longer pending.
Backed(d) ==
  /\ d.id \in r.used \cup {0}
  /\ d.option # "Reject" => d.id \in approved
  /\ d.option = "ApproveAlwaysForSession" =>
       \/ held
       \/ \A what \in Covers(d.id) : Granted(what)
       \/ d.id \notin w.requests \cup r.asks
Decided == \A i \in DOMAIN cmds : cmds[i].kind = "Decision" => Backed(cmds[i])

\* Messages whose prompts are about calls of a set.
About(ms, calls) ==
  /\ ms \in Seq(Message)
  /\ \A i \in DOMAIN ms :
       ms[i].kind = "ApprovalPrompt" => ms[i].id \in calls

\* A prompt is about a call the router asked for, or about none.
Prompted ==
  /\ t.turn.kind = "Approval" => t.turn.id \in r.used \cup {0}
  /\ About(msgs, r.used \cup {0})

\* What concerns the execution of calls, and what concerns their approval.
Execution == Used /\ Fed /\ Once /\ SealsHeld /\ AnswersFit
Approval == NoSession /\ Accepted /\ Decided /\ Prompted

IInv == Typing /\ Execution /\ Approval

-----------------------------------------------------------------------------
(* Sequences of messages and of commands.                                  *)

\* A message that is no prompt is about any calls.
LEMMA PlainMessage ==
  ASSUME NEW kind \in MsgKinds, kind # "ApprovalPrompt",
         NEW c \in Calls \cup {0}, NEW calls
  PROVE  /\ About(<<MsgAbout(kind, c)>>, calls)
         /\ About(<<Msg(kind)>>, calls)
         /\ About(<<>>, calls)
  BY DEF About, MsgAbout, Msg, Message

\* Messages about calls of a set stay so when more of them follow.
LEMMA MoreMessages ==
  ASSUME NEW calls, NEW ms, NEW more, About(ms, calls), About(more, calls)
  PROVE  About(ms \o more, calls)
  <1>1. ms \in Seq(Message) /\ more \in Seq(Message) BY DEF About
  <1>2. ms \o more \in Seq(Message) BY <1>1
  <1>3. ASSUME NEW i \in DOMAIN (ms \o more)
        PROVE  \/ i \in DOMAIN ms /\ (ms \o more)[i] = ms[i]
               \/ /\ i - Len(ms) \in DOMAIN more
                  /\ (ms \o more)[i] = more[i - Len(ms)]
    BY <1>1
  <1> QED BY <1>2, <1>3 DEF About

\* The same, where one message is no prompt.
LEMMA MessageAdded ==
  ASSUME NEW calls, NEW ms, About(ms, calls),
         NEW kind \in MsgKinds, kind # "ApprovalPrompt"
  PROVE  About(Append(ms, Msg(kind)), calls)
  <1>1. ms \in Seq(Message) /\ Msg(kind) \in Message
    BY CallsAssumption DEF About, Msg, Message
  <1>2. Append(ms, Msg(kind)) \in Seq(Message) BY <1>1
  <1>3. ASSUME NEW i \in DOMAIN Append(ms, Msg(kind))
        PROVE  \/ i \in DOMAIN ms /\ Append(ms, Msg(kind))[i] = ms[i]
               \/ Append(ms, Msg(kind))[i] = Msg(kind)
    BY <1>1
  <1> QED BY <1>2, <1>3 DEF About, Msg

\* The rest of a sequence is part of it.
LEMMA RestOf ==
  ASSUME NEW S, NEW s \in Seq(S), s # <<>>
  PROVE  /\ Head(s) \in S /\ Head(s) = s[1] /\ 1 \in DOMAIN s
         /\ Tail(s) \in Seq(S) /\ Len(Tail(s)) = Len(s) - 1
         /\ \A i \in DOMAIN Tail(s) :
              i + 1 \in DOMAIN s /\ Tail(s)[i] = s[i + 1]
  OBVIOUS

\* The elements of a longer sequence.
LEMMA OneMore ==
  ASSUME NEW S, NEW s \in Seq(S), NEW x \in S
  PROVE  /\ Append(s, x) \in Seq(S) /\ Len(Append(s, x)) = Len(s) + 1
         /\ \A i \in DOMAIN Append(s, x) :
              \/ i \in DOMAIN s /\ Append(s, x)[i] = s[i]
              \/ i = Len(s) + 1 /\ Append(s, x)[i] = x
  OBVIOUS

\* The prompts for some calls are about them.
LEMMA PromptsAbout ==
  ASSUME NEW calls \in SUBSET Calls, NEW prompts \in Prompts(calls)
  PROVE  About(prompts, calls)
  <1>1. Cardinality(calls) \in Nat
    BY CallsAssumption, FS_Subset, FS_CardinalityType
  <1>2. PICK order \in Ascending(calls) :
          prompts = [i \in 1 .. Cardinality(calls) |->
                       MsgAbout("ApprovalPrompt", order[i])]
    BY DEF Prompts
  <1>3. order \in [1 .. Cardinality(calls) -> calls] BY DEF Ascending
  <1>4. \A i \in 1 .. Cardinality(calls) :
          /\ MsgAbout("ApprovalPrompt", order[i]) \in Message
          /\ MsgAbout("ApprovalPrompt", order[i]).id \in calls
    BY <1>3 DEF MsgAbout, Message, MsgKinds
  <1> QED BY <1>1, <1>2, <1>4 DEF About

\* The replayed requests are about the calls asked for, and the end is last.
LEMMA ReplayedCalls ==
  ASSUME NEW calls \in SUBSET Calls, NEW order \in Ascending(calls)
  PROVE  /\ Replayed(calls, order) \in Seq(Event)
         /\ \A i \in DOMAIN Replayed(calls, order) :
              /\ Replayed(calls, order)[i].kind = "ToolCallRequested" =>
                   Replayed(calls, order)[i].id \in calls
              /\ Replayed(calls, order)[i].kind \notin ToolEvents =>
                   i = Len(Replayed(calls, order))
  <1> DEFINE n == Cardinality(calls)
             event(i) == IF i % 2 = 1 THEN "ToolCallStarted"
                         ELSE "ToolCallRequested"
             s == [i \in 1 .. 2 * n |-> MsgAbout(event(i), order[(i + 1) \div 2])]
  <1>1. n \in Nat
    BY CallsAssumption, FS_Subset, FS_CardinalityType
  <1>2. order \in [1 .. n -> calls] BY DEF Ascending
  <1>3. \A i \in 1 .. 2 * n : (i + 1) \div 2 \in 1 .. n BY <1>1
  <1>4. \A i \in 1 .. 2 * n : order[(i + 1) \div 2] \in calls BY <1>2, <1>3
  <1>5. \A i \in 1 .. 2 * n :
          /\ MsgAbout(event(i), order[(i + 1) \div 2]) \in Event
          /\ MsgAbout(event(i), order[(i + 1) \div 2]).id \in calls
          /\ MsgAbout(event(i), order[(i + 1) \div 2]).kind \in ToolEvents
    BY <1>4 DEF MsgAbout, Event, Asking, ToolEvents
  <1>6. s \in Seq(Event) /\ Len(s) = 2 * n BY <1>1, <1>5
  <1>7. \A i \in DOMAIN s : s[i].id \in calls /\ s[i].kind \in ToolEvents
    BY <1>5
  <1>8. Replayed(calls, order) = Append(s, Msg("AwaitingTool"))
    BY DEF Replayed
  <1>9. Msg("AwaitingTool") \in Event BY DEF Msg, Event, Asking
  <1>10. Msg("AwaitingTool").kind = "AwaitingTool" BY DEF Msg
  <1> HIDE DEF s
  <1> QED BY <1>6, <1>7, <1>8, <1>9, <1>10, OneMore

-----------------------------------------------------------------------------
(* What the handlers of the worker share.                                  *)

\* A run as a continuation leaves it: no request of its stream is open.
Posted(run) ==
  /\ run \in Run
  /\ run.asks \subseteq r.asks /\ run.used = r.used
  /\ run.feed = <<>> \/ \E kind \in Outcomes : run.feed = <<Msg(kind)>>

\* The router's answers are runs as a continuation leaves them.
LEMMA RouterTurns ==
  ASSUME NEW run, Posted(run)
  PROVE  /\ Posted(RouterTurn(run)) /\ RouterTurn(run).asks = {}
         /\ \A kind \in Outcomes : Posted(RouterReplies(run, kind))
  <1>1. run \in Run BY DEF Posted
  <1>2. ASSUME NEW kind \in Outcomes
        PROVE  Posted(RouterReplies(run, kind))
    <2>1. <<Msg(kind)>> \in Seq(Event) BY DEF Event, Msg, Outcomes
    <2> QED BY <1>1, <2>1 DEF Posted, RouterReplies, Run
  <1>3. Posted(RouterTurn(run)) /\ RouterTurn(run).asks = {}
    <2>1. <<>> \in Seq(Event) OBVIOUS
    <2> QED BY <1>1, <2>1 DEF Posted, RouterTurn, Run
  <1> QED BY <1>2, <1>3

LEMMA RouterAnswers ==
  ASSUME r \in Run
  PROVE  /\ Posted(RouterTurn(r)) /\ RouterTurn(r).asks = {}
         /\ Posted(RouterBreaks(r))
         /\ \A kind \in Outcomes : Posted(RouterReplies(r, kind))
         /\ \A calls, sealed : Posted(RouterToolResults(r, calls, sealed))
         /\ \A id, sealed : Posted(RouterDecision(r, id, sealed))
  <1>1. /\ Posted(RouterTurn(r)) /\ RouterTurn(r).asks = {}
        /\ \A kind \in Outcomes : Posted(RouterReplies(r, kind))
    <2>1. ASSUME NEW kind \in Outcomes
          PROVE  Posted(RouterReplies(r, kind))
      <3>1. <<Msg(kind)>> \in Seq(Event) BY DEF Event, Msg, Outcomes
      <3> QED BY <3>1 DEF Posted, RouterReplies, Run
    <2>2. <<>> \in Seq(Event) OBVIOUS
    <2> QED BY <2>1, <2>2 DEF Posted, RouterTurn, Run
  <1>2. "Error" \in Outcomes /\ "Idle" \in Outcomes BY DEF Outcomes
  <1>3. Posted(RouterBreaks(r))
    BY <1>1, <1>2, RouterTurns DEF RouterBreaks
  <1> QED BY <1>1, <1>2, <1>3 DEF RouterToolResults, RouterDecision

\* The worker but for where it is and what state it is in.
Kept(wk) ==
  /\ w'.session = wk.session
  /\ w'.edits = wk.edits /\ w'.reads = wk.reads /\ w'.aliases = wk.aliases
  /\ w'.results = wk.results /\ w'.requests = wk.requests
  /\ w'.seals = wk.seals

\* A stream that is left leads to the main loop, and its messages are sent.
LEMMA Left ==
  ASSUME NEW wk \in Client(sessions), NEW calls, NEW ms,
         About(msgs, calls), About(ms, calls), left \in BOOLEAN,
         Leave(wk, ms)
  PROVE  /\ w' \in Client(sessions) /\ Kept(wk)
         /\ w'.at = "loop"
         /\ w'.state = (IF wk.state = "Streaming" THEN "Idle" ELSE wk.state)
         /\ About(msgs', calls)
         /\ left' \in BOOLEAN
  <1>1. w' = Settled(wk) BY DEF Leave
  <1>2. /\ w' \in Client(sessions) /\ Kept(wk)
        /\ w'.at = "loop"
        /\ w'.state = (IF wk.state = "Streaming" THEN "Idle" ELSE wk.state)
    BY <1>1 DEF Settled, Client, Kept
  <1>3. About(Append(ms, Msg("Idle")), calls)
    BY MessageAdded DEF MsgKinds
  <1>4. About(msgs', calls) BY <1>3, MoreMessages DEF Leave, SendMsg
  <1> QED BY <1>2, <1>4 DEF Leave

\* A continuation opens a stream of its own, or the worker is idle.
LEMMA Continued ==
  ASSUME NEW wk \in Client(sessions), NEW calls, NEW ms, NEW run,
         About(msgs, calls), About(ms, calls), left \in BOOLEAN,
         Posted(run), r \in Run, StreamContinue(wk, ms, run)
  PROVE  /\ w' \in Client(sessions) /\ Kept(wk)
         /\ About(msgs', calls)
         /\ left' \in BOOLEAN
         /\ r' \in Run
         /\ \/ w'.at = "stream" /\ w'.state = "Streaming" /\ r' = run
            \/ w'.at = "loop" /\ w'.state = "Idle" /\ r' = r
  <1>1. CASE w' = [wk EXCEPT !.state = "Streaming", !.at = "stream"]
             /\ SendMsg(ms) /\ r' = run /\ UNCHANGED left
    <2>1. About(msgs', calls) BY <1>1, MoreMessages DEF SendMsg
    <2> QED BY <1>1, <2>1 DEF Client, Kept, Posted
  <1>2. CASE Leave([wk EXCEPT !.state = "Idle"], Append(ms, Msg("Error")))
             /\ UNCHANGED r
    <2> DEFINE idle == [wk EXCEPT !.state = "Idle"]
    <2>1. /\ idle \in Client(sessions) /\ idle.state = "Idle"
          /\ Kept(idle) <=> Kept(wk)
      BY DEF Client, Kept
    <2>2. About(Append(ms, Msg("Error")), calls)
      BY MessageAdded DEF MsgKinds
    <2>3. Leave(idle, Append(ms, Msg("Error"))) BY <1>2
    <2> HIDE DEF idle
    <2> QED BY <1>2, <2>1, <2>2, <2>3, Left
  <1> QED BY <1>1, <1>2 DEF StreamContinue

-----------------------------------------------------------------------------
(* Steps that run nothing, ask nothing and decide nothing.                 *)

Calm ==
  /\ w' \in Client(sessions) /\ r' \in Run /\ left' \in BOOLEAN
  /\ About(msgs', r.used \cup {0})
  /\ UNCHANGED <<t, exit, executed, approved, lost, grants, answer, held,
                 sessions>>
  /\ \/ cmds' = cmds
     \/ cmds # <<>> /\ cmds' = Tail(cmds)
  /\ w'.session = w.session
  /\ w'.edits = w.edits /\ w'.reads = w.reads /\ w'.aliases = w.aliases
  /\ w'.requests \subseteq w.requests
  /\ r'.asks \subseteq r.asks /\ r'.used = r.used
  /\ \/ r'.asks = r.asks /\ r'.feed = r.feed
     \/ r'.asks = r.asks /\ r.feed # <<>> /\ r'.feed = Tail(r.feed)
     \/ r'.feed = <<>>
     \/ \E kind \in Outcomes : r'.feed = <<Msg(kind)>>
  /\ w'.at = "stream" =>
       \/ w.at = "stream" /\ w'.results = w.results
       \/ r'.feed = <<>>
       \/ \E kind \in Outcomes : r'.feed = <<Msg(kind)>>
  /\ w'.at = "loop" /\ w'.state = "AwaitingTool" /\ ~r'.cut =>
       /\ w.at = "loop" /\ w.state = "AwaitingTool" /\ ~r.cut
       /\ w'.seals = w.seals /\ r'.wants = r.wants
  /\ w'.at = "opening" => w.at = "opening" /\ w'.state = w.state
  /\ w.session = 0 => w'.at \in {"loop", "signing_out", "stopped"} /\ w'.state = w.state

\* What a step of the worker may do that decides nothing: it takes at most one
\* command, and asks for nothing the router did not ask for.
Within ==
  /\ w' \in Client(sessions) /\ r' \in Run /\ left' \in BOOLEAN
  /\ executed' \in [Calls -> Nat] /\ lost' \subseteq Calls
  /\ About(msgs', r.used \cup {0})
  /\ UNCHANGED <<t, exit, approved, grants, held, sessions>>
  /\ \/ cmds' = cmds
     \/ cmds # <<>> /\ cmds' = Tail(cmds)
  /\ w'.session = w.session
  /\ w'.edits = w.edits /\ w'.reads = w.reads /\ w'.aliases = w.aliases
  /\ w'.requests \subseteq w.requests \cup r.asks
  /\ r'.asks \subseteq r.asks /\ r'.used = r.used
  /\ w.session = 0 => w'.at \in {"loop", "signing_out", "stopped"} /\ w'.state = w.state

LEMMA CalmWithin ==
  ASSUME IInv, Calm
  PROVE  Within
  BY DEF IInv, Typing, Calm, Within

LEMMA WithinTyping ==
  ASSUME IInv, Within
  PROVE  Typing'
  <1>1. cmds \in Seq(Command(sessions)) /\ Len(cmds) <= CmdCap + 1
    BY DEF IInv, Typing
  <1>2. /\ cmds' \in Seq(Command(sessions)) /\ Len(cmds') <= CmdCap + 1
        /\ \A i \in DOMAIN cmds' : \E j \in DOMAIN cmds : cmds'[i] = cmds[j]
    <2>1. CASE cmds' = cmds BY <1>1, <2>1
    <2>2. CASE cmds # <<>> /\ cmds' = Tail(cmds)
      <3>1. CmdCap \in Nat BY BoundsAssumption
      <3> QED BY <1>1, <2>2, <3>1, RestOf
    <2> QED BY <2>1, <2>2 DEF Within
  <1>3. msgs' \in Seq(Message) BY DEF Within, About
  <1> QED BY <1>2, <1>3 DEF IInv, Typing, Within

LEMMA CalmExecution ==
  ASSUME IInv, Calm
  PROVE  Execution'
  <1>1. Used' BY DEF IInv, Execution, Used, Calm
  <1>2. ASSUME r'.asks = r.asks,
               r'.feed = r.feed \/ (r.feed # <<>> /\ r'.feed = Tail(r.feed))
        PROVE  Fed' /\ Once'
    <2>1. r.feed \in Seq(Event) BY DEF IInv, Typing, Run
    <2>2. \A i \in DOMAIN r'.feed : \E j \in DOMAIN r.feed :
            r'.feed[i] = r.feed[j] /\ (j = Len(r.feed) => i = Len(r'.feed))
      <3>1. CASE r'.feed = r.feed BY <3>1
      <3>2. CASE r.feed # <<>> /\ r'.feed = Tail(r.feed)
        BY <2>1, <3>2, RestOf
      <3> QED BY <1>2, <3>1, <3>2
    <2>3. Fed' BY <1>2, <2>2 DEF IInv, Execution, Fed
    <2>4. RunAgain' => RunAgain BY <2>2 DEF RunAgain
    <2>5. w'.at = "stream" /\ RunAgain' =>
            w.at = "stream" /\ w'.results = w.results
      BY DEF Calm, RunAgain, Msg, Outcomes, Asking, ToolEvents
    <2>6. Once'
      BY <2>4, <2>5 DEF IInv, Execution, Once, ExecutedOnce, Calm
    <2> QED BY <2>3, <2>6
  <1>3. ASSUME \/ r'.feed = <<>>
               \/ \E kind \in Outcomes : r'.feed = <<Msg(kind)>>
        PROVE  Fed' /\ Once'
    <2>1. \A i \in DOMAIN r'.feed :
            r'.feed[i].kind \in Outcomes /\ i = Len(r'.feed)
      <3>1. CASE r'.feed = <<>> BY <3>1
      <3>2. CASE \E kind \in Outcomes : r'.feed = <<Msg(kind)>>
        BY <3>2 DEF Msg
      <3> QED BY <1>3, <3>1, <3>2
    <2>2. Fed' BY <2>1 DEF Fed, Outcomes, ToolEvents
    <2>3. ~RunAgain' BY <2>1 DEF RunAgain, Outcomes, Asking, ToolEvents
    <2>4. Once' BY <2>3 DEF IInv, Execution, Once, ExecutedOnce, Calm
    <2> QED BY <2>2, <2>4
  <1>4. Fed' /\ Once' BY <1>2, <1>3 DEF Calm
  <1>5. SealsHeld' BY DEF IInv, Execution, SealsHeld, Calm
  <1>6. AnswersFit' BY DEF IInv, Execution, AnswersFit, Calm
  <1> QED BY <1>1, <1>4, <1>5, <1>6 DEF Execution

\* What was granted, asked for and decided before still is.
LEMMA WithinApproval ==
  ASSUME IInv, Within
  PROVE  Approval'
  <1>1. NoSession'
    BY DEF IInv, Approval, NoSession, Within
  <1>2. Accepted' BY DEF IInv, Approval, Accepted, Granted, Within
  <1>3. Decided'
    <2>1. \A i \in DOMAIN cmds' : \E j \in DOMAIN cmds : cmds'[i] = cmds[j]
      <3>1. cmds \in Seq(Command(sessions)) BY DEF IInv, Typing
      <3>2. CASE cmds' = cmds BY <3>2
      <3>3. CASE cmds # <<>> /\ cmds' = Tail(cmds) BY <3>1, <3>3, RestOf
      <3> QED BY <3>2, <3>3 DEF Within
    <2>2. ASSUME NEW d, Backed(d) PROVE Backed(d)'
      BY <2>2 DEF Backed, Granted, Within
    <2>3. ASSUME NEW i \in DOMAIN cmds', cmds'[i].kind = "Decision"
          PROVE  Backed(cmds[i])'
      <3>1. PICK j \in DOMAIN cmds : cmds'[i] = cmds[j] BY <2>1
      <3>2. PICK d : d = cmds[j] OBVIOUS
      <3>3. Backed(d) BY <2>3, <3>1, <3>2 DEF IInv, Approval, Decided
      <3>4. Backed(d)' BY <2>2, <3>3
      <3> QED BY <3>1, <3>2, <3>4
    <2> QED BY <2>3 DEF Decided
  <1>4. Prompted' BY DEF IInv, Approval, Prompted, Within
  <1> QED BY <1>1, <1>2, <1>3, <1>4 DEF Approval

LEMMA CalmKeeps ==
  ASSUME IInv, Calm
  PROVE  IInv'
  BY CalmWithin, WithinTyping, CalmExecution, WithinApproval DEF IInv

-----------------------------------------------------------------------------
(* The steps that are calm.                                                *)

\* What a step starts from, as the lemmas about handlers want it.
LEMMA Before ==
  ASSUME IInv
  PROVE  /\ w \in Client(sessions) /\ r \in Run /\ left \in BOOLEAN
         /\ About(msgs, r.used \cup {0})
         /\ w.at \in {"opening", "stream"} => w.session # 0
         /\ w.state # "Idle" => w.session # 0
  BY DEF IInv, Typing, Approval, NoSession, Prompted

\* Messages that are no prompts.
LEMMA Notes ==
  ASSUME NEW calls
  PROVE  /\ About(<<>>, calls)
         /\ \A kind \in MsgKinds \ {"ApprovalPrompt"} :
              About(<<Msg(kind)>>, calls)
         /\ \A kind, more \in MsgKinds \ {"ApprovalPrompt"} :
              /\ About(<<Msg(kind), Msg(more)>>, calls)
              /\ About(<<Msg(kind)>> \o <<Msg(more)>>, calls)
              /\ About(Append(<<Msg(kind)>>, Msg(more)), calls)
  <1>1. /\ About(<<>>, calls)
        /\ \A kind \in MsgKinds \ {"ApprovalPrompt"} :
             About(<<Msg(kind)>>, calls)
    BY DEF About, Msg, Message, MsgKinds
  <1>2. ASSUME NEW kind \in MsgKinds \ {"ApprovalPrompt"},
               NEW more \in MsgKinds \ {"ApprovalPrompt"}
        PROVE  /\ About(<<Msg(kind), Msg(more)>>, calls)
               /\ About(<<Msg(kind)>> \o <<Msg(more)>>, calls)
               /\ About(Append(<<Msg(kind)>>, Msg(more)), calls)
    <2>1. About(<<Msg(kind)>> \o <<Msg(more)>>, calls)
      BY <1>1, MoreMessages
    <2>2. About(<<Msg(kind), Msg(more)>>, calls)
      BY DEF About, Msg, Message
    <2>3. About(Append(<<Msg(kind)>>, Msg(more)), calls)
      BY <1>1, MessageAdded
    <2> QED BY <2>1, <2>2, <2>3
  <1> QED BY <1>1, <1>2

\* Messages that follow those on their way.
LEMMA Sent ==
  ASSUME IInv, NEW ms, About(ms, r.used \cup {0}), SendMsg(ms)
  PROVE  About(msgs', r.used \cup {0})
  BY Before, MoreMessages DEF SendMsg

\* A query changes nothing but the channels.
LEMMA QueryCalm ==
  ASSUME IInv, NEW kind, NEW reply \in MsgKinds \ {"ApprovalPrompt"},
         Query(kind, reply) \/ SessionQuery(kind, reply)
  PROVE  Calm
  <1>1. /\ UNCHANGED <<w, t, exit, r, history, sessions>>
        /\ cmds # <<>> /\ cmds' = Tail(cmds)
        /\ AtLoop
        /\ SendMsg(<<Msg(reply)>>) \/ SendMsg(<<Msg("Error")>>)
    BY DEF Query, SessionQuery, Receive, bounds
  <1>2. About(msgs', r.used \cup {0})
    BY <1>1, Notes, Sent DEF MsgKinds
  <1> QED BY <1>1, <1>2, Before DEF Calm, history, AtLoop

LEMMA QueriesCalm ==
  ASSUME IInv,
         \/ Preview \/ GetRouterStatus \/ ListProviders \/ ListModels
         \/ ListSessions \/ GetUsage \/ GetTraces
  PROVE  Calm
  <1>1. {"Note", "View", "ModelsList", "SessionsList"}
          \subseteq MsgKinds \ {"ApprovalPrompt"}
    BY DEF MsgKinds
  <1> QED
    BY <1>1, QueryCalm DEF Preview, GetRouterStatus, ListProviders, ListModels,
      ListSessions, GetUsage, GetTraces

LEMMA IgnoreCalm ==
  ASSUME IInv, Ignore
  PROVE  Calm
  BY Before DEF Ignore, Calm, history, bounds, IInv, Approval, NoSession

LEMMA RouterEndsCalm ==
  ASSUME IInv, RouterEnds
  PROVE  Calm
  <1>1. PICK kind \in Outcomes :
          /\ r'.feed = <<Msg(kind)>> /\ r'.asks = r.asks /\ r'.used = r.used
          /\ r' \in Run
    <2>1. \A kind \in Outcomes :
            /\ RouterReplies(r, kind) \in Run
            /\ RouterReplies(r, kind).feed = <<Msg(kind)>>
            /\ RouterReplies(r, kind).asks = r.asks
            /\ RouterReplies(r, kind).used = r.used
      BY Before, RouterAnswers DEF Posted, RouterReplies, Run
    <2>2. Encrypted \in BOOLEAN BY DEF Encrypted
    <2>3. CASE \E kind \in {"Completed", "Error", "AwaitingDecrypt",
                            "AwaitingEncrypt"} : r' = RouterReplies(r, kind)
      BY <2>1, <2>3 DEF Outcomes
    <2>4. CASE r' = [RouterReplies(r, "AwaitingApproval") EXCEPT
                       !.approval = TRUE, !.wants = Encrypted]
      <3> DEFINE run == RouterReplies(r, "AwaitingApproval")
      <3>1. /\ run \in Run /\ run.feed = <<Msg("AwaitingApproval")>>
            /\ run.asks = r.asks /\ run.used = r.used
        BY <2>1 DEF Outcomes
      <3>2. r' = [run EXCEPT !.approval = TRUE, !.wants = Encrypted] BY <2>4
      <3> HIDE DEF run
      <3>3. r' \in Run /\ r'.feed = run.feed /\ r'.asks = run.asks
            /\ r'.used = run.used
        BY <2>2, <3>1, <3>2 DEF Run
      <3> QED BY <3>1, <3>3 DEF Outcomes
    <2> QED BY <2>3, <2>4 DEF RouterEnds
  <1> QED BY <1>1, Before DEF RouterEnds, Calm, history

LEMMA StreamDeltaCalm ==
  ASSUME IInv, StreamDelta
  PROVE  Calm
  <1>1. About(msgs', r.used \cup {0})
    BY Notes, Sent DEF StreamDelta, MsgKinds
  <1> QED BY <1>1, Before DEF StreamDelta, Streaming, Calm, history

LEMMA StreamBreaksCalm ==
  ASSUME IInv, StreamBreaks
  PROVE  Calm
  <1> DEFINE idle == [w EXCEPT !.state = "Idle"]
  <1>1. idle \in Client(sessions) /\ (Kept(idle) => Kept(w))
    BY Before DEF Client, Kept
  <1>2. Leave(idle, <<Msg("Error")>>) \/ Leave(w, <<>>) BY DEF StreamBreaks
  <1> HIDE DEF idle
  <1>3. /\ w' \in Client(sessions) /\ Kept(w) /\ w'.at = "loop"
        /\ About(msgs', r.used \cup {0}) /\ left' \in BOOLEAN
    BY <1>1, <1>2, Before, Left, Notes DEF MsgKinds
  <1>4. /\ r' \in Run /\ r'.asks = r.asks /\ r'.used = r.used
        /\ r'.feed = <<>> /\ r'.cut
    <2>1. <<>> \in Seq(Event) OBVIOUS
    <2> QED BY <2>1, Before DEF StreamBreaks, StreamDropped, Run
  <1> QED
    BY <1>3, <1>4, Before DEF StreamBreaks, Streaming, Calm, Kept

\* An event that is taken leaves the rest.
LEMMA Taking ==
  ASSUME IInv, NEW kind, TakeEvent(kind)
  PROVE  /\ EventTaken \in Run /\ EventTaken.asks = r.asks
         /\ EventTaken.used = r.used
         /\ r.feed # <<>> /\ EventTaken.feed = Tail(r.feed)
         /\ Head(r.feed) \in Event /\ Head(r.feed) = r.feed[1]
         /\ 1 \in DOMAIN r.feed
         /\ w.at = "stream" /\ w.session # 0
  <1>1. r.feed \in Seq(Event) /\ r.feed # <<>>
    BY Before DEF TakeEvent, Run
  <1>2. /\ Tail(r.feed) \in Seq(Event) /\ Head(r.feed) \in Event
        /\ Head(r.feed) = r.feed[1] /\ 1 \in DOMAIN r.feed
    BY <1>1, RestOf
  <1> QED BY <1>1, <1>2, Before DEF EventTaken, Run, TakeEvent, Streaming

LEMMA ToolCallStartedCalm ==
  ASSUME IInv, ToolCallStarted
  PROVE  Calm
  <1>1. TakeEvent("ToolCallStarted") BY DEF ToolCallStarted
  <1>2. PICK c \in Calls \cup {0} : c = Head(r.feed).id
    BY <1>1, Taking DEF Event
  <1>3. About(msgs', r.used \cup {0})
    BY <1>2, PlainMessage, Sent DEF ToolCallStarted, MsgKinds
  <1> QED BY <1>1, <1>3, Taking, Before DEF ToolCallStarted, Calm, history,
    bounds

\* A continuation that does not touch what is pending is calm.
LEMMA ContinueCalm ==
  ASSUME IInv, NEW wk \in Client(sessions), NEW ms, NEW run,
         wk.session = w.session, wk.session # 0,
         wk.edits = w.edits, wk.reads = w.reads, wk.aliases = w.aliases,
         wk.requests \subseteq w.requests,
         About(ms, r.used \cup {0}), Posted(run), StreamContinue(wk, ms, run),
         cmds' = cmds \/ (cmds # <<>> /\ cmds' = Tail(cmds)),
         UNCHANGED <<t, exit, executed, approved, lost, grants, answer, held,
                     sessions>>
  PROVE  Calm
  <1>1. /\ w' \in Client(sessions) /\ Kept(wk)
        /\ About(msgs', r.used \cup {0})
        /\ left' \in BOOLEAN
        /\ r' \in Run
        /\ \/ w'.at = "stream" /\ w'.state = "Streaming" /\ r' = run
           \/ w'.at = "loop" /\ w'.state = "Idle" /\ r' = r
    BY Before, Continued
  <1> QED BY <1>1, Before DEF Calm, Kept, Posted

\* Leaving a stream after an event that touches nothing is calm as well.
LEMMA LeaveCalm ==
  ASSUME IInv, NEW wk \in Client(sessions), NEW ms,
         wk.session = w.session, wk.session # 0,
         wk.edits = w.edits, wk.reads = w.reads, wk.aliases = w.aliases,
         wk.requests \subseteq w.requests,
         wk.state # "AwaitingTool",
         About(ms, r.used \cup {0}), Leave(wk, ms),
         r' \in Run, r'.asks = r.asks, r'.used = r.used,
         r'.feed = r.feed \/ (r.feed # <<>> /\ r'.feed = Tail(r.feed)),
         cmds' = cmds,
         UNCHANGED <<t, exit, executed, approved, lost, grants, answer, held,
                     sessions>>
  PROVE  Calm
  <1>1. /\ w' \in Client(sessions) /\ Kept(wk)
        /\ w'.at = "loop"
        /\ w'.state = (IF wk.state = "Streaming" THEN "Idle" ELSE wk.state)
        /\ About(msgs', r.used \cup {0})
        /\ left' \in BOOLEAN
    BY Before, Left
  <1> QED BY <1>1, Before DEF Calm, Kept

LEMMA HandleAwaitingApprovalCalm ==
  ASSUME IInv, HandleAwaitingApproval
  PROVE  Calm
  <1> DEFINE wk == [w EXCEPT !.seals = PendingSeals(r),
                             !.state = "AwaitingApproval"]
             ms == <<MsgAbout("ApprovalPrompt", Standalone)>>
  <1>1. TakeEvent("AwaitingApproval") BY DEF HandleAwaitingApproval
  <1>2. PendingSeals(r) \in BOOLEAN BY Before DEF PendingSeals, Run
  <1>3. /\ wk \in Client(sessions) /\ wk.session = w.session
        /\ wk.edits = w.edits /\ wk.reads = w.reads
        /\ wk.aliases = w.aliases /\ wk.requests = w.requests
        /\ wk.state = "AwaitingApproval"
    BY <1>2, Before DEF Client
  <1>4. About(ms, r.used \cup {0})
    BY DEF About, MsgAbout, Standalone, Message, MsgKinds
  <1>5. Leave(wk, ms) BY DEF HandleAwaitingApproval
  <1> HIDE DEF wk, ms
  <1> QED
    BY <1>1, <1>3, <1>4, <1>5, Taking, LeaveCalm
    DEF HandleAwaitingApproval, bounds

LEMMA HandleCryptoPauseCalm ==
  ASSUME IInv, NEW kind, NEW run, Posted(run), HandleCryptoPause(kind, run)
  PROVE  Calm
  <1> DEFINE idle == [w EXCEPT !.state = "Idle"]
  <1>1. /\ idle \in Client(sessions) /\ idle.session = w.session
        /\ idle.edits = w.edits /\ idle.reads = w.reads
        /\ idle.aliases = w.aliases /\ idle.requests = w.requests
        /\ idle.state = "Idle"
    BY Before DEF Client
  <1>2. TakeEvent(kind) BY DEF HandleCryptoPause
  <1>3. CASE StreamContinue(w, <<>>, run)
    BY <1>2, <1>3, Taking, Before, Notes, ContinueCalm DEF HandleCryptoPause
  <1>4. CASE Leave(idle, <<Msg("Error")>>) /\ r' = EventTaken
    <2>1. Leave(idle, <<Msg("Error")>>) BY <1>4
    <2> HIDE DEF idle
    <2> QED
      BY <1>1, <1>2, <1>4, <2>1, Taking, Notes, LeaveCalm
      DEF HandleCryptoPause, MsgKinds
  <1> QED BY <1>3, <1>4 DEF HandleCryptoPause

LEMMA CryptoCalm ==
  ASSUME IInv, ContinueWithDecrypted \/ ContinueWithSealed
  PROVE  Calm
  BY HandleCryptoPauseCalm, RouterAnswers, Before
  DEF ContinueWithDecrypted, ContinueWithSealed, Outcomes

LEMMA ClearedClient ==
  ASSUME IInv
  PROVE  /\ Cleared(w) \in Client(sessions)
         /\ Cleared(w).session = w.session
         /\ Cleared(w).edits = w.edits /\ Cleared(w).reads = w.reads
         /\ Cleared(w).aliases = w.aliases /\ Cleared(w).requests = {}
  BY Before DEF Client, Cleared

LEMMA HandleCompletedCalm ==
  ASSUME IInv, HandleCompleted
  PROVE  Calm
  <1> DEFINE done == [Cleared(w) EXCEPT !.state = "Idle"]
             turn == <<Msg("AssistantTurn")>>
  <1>1. /\ done \in Client(sessions) /\ done.session = w.session
        /\ done.edits = w.edits /\ done.reads = w.reads
        /\ done.aliases = w.aliases /\ done.requests = {}
        /\ done.state = "Idle"
    <2>1. PICK wk : wk = Cleared(w) OBVIOUS
    <2> QED BY <2>1, ClearedClient DEF Client
  <1>2. TakeEvent("Completed") BY DEF HandleCompleted
  <1>3. About(turn, r.used \cup {0}) BY Notes DEF MsgKinds
  <1>4. \/ Leave(done, turn) /\ r' = EventTaken
        \/ StreamContinue(done, turn, RouterReplies(r, "Idle"))
    BY DEF HandleCompleted
  <1>5. Posted(RouterReplies(r, "Idle"))
    BY RouterAnswers, Before DEF Outcomes
  <1> HIDE DEF done, turn
  <1>6. CASE Leave(done, turn) /\ r' = EventTaken
    BY <1>1, <1>2, <1>3, <1>6, Taking, LeaveCalm DEF HandleCompleted
  <1>7. CASE StreamContinue(done, turn, RouterReplies(r, "Idle"))
    BY <1>1, <1>2, <1>3, <1>5, <1>7, Taking, ContinueCalm DEF HandleCompleted
  <1> QED BY <1>4, <1>6, <1>7

LEMMA HandleTurnOverCalm ==
  ASSUME IInv, NEW kind, NEW ms, About(ms, r.used \cup {0}),
         HandleTurnOver(kind, ms)
  PROVE  Calm
  <1> DEFINE over == [Cleared(w) EXCEPT !.seals = FALSE, !.state = "Idle"]
  <1>1. /\ over \in Client(sessions) /\ over.session = w.session
        /\ over.edits = w.edits /\ over.reads = w.reads
        /\ over.aliases = w.aliases /\ over.requests = {}
        /\ over.state = "Idle"
    <2>1. PICK wk : wk = Cleared(w) OBVIOUS
    <2> QED BY <2>1, ClearedClient DEF Client
  <1>2. TakeEvent(kind) /\ Leave(over, ms) BY DEF HandleTurnOver
  <1> HIDE DEF over
  <1> QED BY <1>1, <1>2, Taking, LeaveCalm DEF HandleTurnOver, bounds

LEMMA TurnOverCalm ==
  ASSUME IInv, HandleIdle \/ HandleError
  PROVE  Calm
  BY HandleTurnOverCalm, Notes DEF HandleIdle, HandleError, MsgKinds

LEMMA ExecuteOpensCalm ==
  ASSUME IInv, ExecuteOpens
  PROVE  Calm
  BY Before, ContinueCalm, RouterAnswers, Notes DEF ExecuteOpens

LEMMA DecideApprovalCalm ==
  ASSUME IInv, DecideApproval
  PROVE  Calm
  <1> DEFINE wk == [w EXCEPT !.seals = FALSE]
  <1>1. /\ wk \in Client(sessions) /\ wk.session = w.session
        /\ wk.edits = w.edits /\ wk.reads = w.reads
        /\ wk.aliases = w.aliases /\ wk.requests = w.requests
    BY Before DEF Client
  <1>2. /\ w.session # 0 /\ w.state = "AwaitingApproval"
        /\ cmds # <<>> /\ cmds' = Tail(cmds)
    BY Before DEF DecideApproval, Receive
  <1>3. CASE StreamContinue(wk, <<>>, RouterDecision(r, Head(cmds).id, w.seals))
    <2>1. Posted(RouterDecision(r, Head(cmds).id, w.seals))
      BY RouterAnswers, Before
    <2>2. StreamContinue(wk, <<>>, RouterDecision(r, Head(cmds).id, w.seals))
      BY <1>3
    <2> HIDE DEF wk
    <2> QED BY <1>1, <1>2, <2>1, <2>2, Notes, ContinueCalm DEF DecideApproval
  <1>4. CASE SendMsg(<<Msg("Error")>>) /\ UNCHANGED <<w, r, left>>
    <2>1. About(msgs', r.used \cup {0}) BY <1>4, Notes, Sent DEF MsgKinds
    <2> QED BY <1>2, <1>4, <2>1, Before DEF DecideApproval, Calm
  <1> QED BY <1>3, <1>4 DEF DecideApproval

LEMMA BreakCalm ==
  ASSUME IInv, Break
  PROVE  Calm
  <1>1. About(<<Msg("Interrupted")>>, r.used \cup {0}) BY Notes DEF MsgKinds
  <1> QED
    BY <1>1, Before, ContinueCalm, RouterAnswers DEF Break, Receive

LEMMA WorkerExitsCalm ==
  ASSUME IInv, WorkerExits
  PROVE  Calm
  <1>1. CASE LoopStops /\ UNCHANGED <<msgs, left>>
    BY <1>1, Before DEF WorkerExits, LoopStops, Calm, Client, bounds
  <1>2. CASE w.at = "opening" /\ w' = [w EXCEPT !.at = "loop"]
             /\ UNCHANGED <<msgs, left>>
    <2>1. r' = r BY <1>2 DEF WorkerExits
    <2>2. w' \in Client(sessions) BY <1>2, Before DEF Client
    <2>3. w.state = "Streaming" BY <1>2 DEF IInv, Execution, SealsHeld
    <2> QED BY <1>2, <2>1, <2>2, <2>3, Before DEF WorkerExits, Calm, Client, bounds
  <1>3. CASE w.at = "stream" /\ Leave(w, <<>>)
    <2>1. /\ w' \in Client(sessions) /\ Kept(w) /\ w'.at = "loop"
          /\ About(msgs', r.used \cup {0}) /\ left' \in BOOLEAN
      BY <1>3, Before, Left, Notes
    <2>2. /\ r' \in Run /\ r'.asks = r.asks /\ r'.used = r.used
          /\ r'.feed = <<>> /\ r'.cut
      <3>1. <<>> \in Seq(Event) OBVIOUS
      <3> QED BY <1>3, <3>1, Before DEF WorkerExits, StreamDropped, Run
    <2> QED BY <1>3, <2>1, <2>2, Before DEF WorkerExits, Calm, Kept, bounds
  <1> QED BY <1>1, <1>2, <1>3 DEF WorkerExits

\* The end of the sign-out changes nothing else.
LEMMA SignedOutCalm ==
  ASSUME IInv, SignedOut
  PROVE  Calm
  BY Before DEF SignedOut, Calm, Client, bounds, history

-----------------------------------------------------------------------------
(* Calls are asked for, run and prompted for.                              *)

LEMMA RouterAsksKeeps ==
  ASSUME IInv, RouterAsks
  PROVE  IInv'
  <1>1. PICK S \in SUBSET (Calls \ r.used) : \E order \in Ascending(S) :
          r' = [r EXCEPT !.asks = S, !.live = FALSE, !.wants = Encrypted,
                         !.used = @ \cup S, !.feed = Replayed(S, order)]
    BY DEF RouterAsks
  <1>2. PICK order \in Ascending(S) :
          r' = [r EXCEPT !.asks = S, !.live = FALSE, !.wants = Encrypted,
                         !.used = @ \cup S, !.feed = Replayed(S, order)]
    BY <1>1
  <1>3. PICK feed : feed = Replayed(S, order) OBVIOUS
  <1>4. /\ feed \in Seq(Event)
        /\ \A i \in DOMAIN feed :
             /\ feed[i].kind = "ToolCallRequested" => feed[i].id \in S
             /\ feed[i].kind \notin ToolEvents => i = Len(feed)
    BY <1>3, ReplayedCalls
  <1>5. /\ r' \in Run /\ r'.asks = S /\ r'.used = r.used \cup S
        /\ r'.feed = feed
    <2>1. Encrypted \in BOOLEAN BY DEF Encrypted
    <2> QED BY <1>2, <1>3, <1>4, <2>1, Before DEF Run
  <1>6. /\ UNCHANGED <<w, t, cmds, msgs, exit, history, bounds>>
        /\ w.at = "stream"
    BY DEF RouterAsks
  <1>7. Typing' BY <1>5, <1>6 DEF IInv, Typing, history, bounds
  <1>8. Execution'
    <2>1. Used' BY <1>5, <1>6 DEF IInv, Execution, Used, history
    <2>2. Fed' BY <1>4, <1>5 DEF Fed
    <2>3. \A c \in S : executed[c] = 0
      BY <1>1 DEF IInv, Execution, Used, Typing
    <2>4. Once'
      BY <2>3, <1>5, <1>6 DEF IInv, Execution, Once, ExecutedOnce, Typing,
        history
    <2>5. SealsHeld' /\ AnswersFit'
      BY <1>6 DEF IInv, Execution, SealsHeld, AnswersFit, history
    <2> QED BY <2>1, <2>2, <2>4, <2>5 DEF Execution
  <1>9. Approval'
    <2>1. NoSession' /\ Accepted'
      BY <1>5, <1>6, Before
      DEF IInv, Approval, NoSession, Accepted, Granted, history
    <2>2. ASSUME NEW d, Backed(d) PROVE Backed(d)'
      BY <2>2, <1>5, <1>6, CallsAssumption DEF Backed, Granted, history
    <2>3. ASSUME NEW i \in DOMAIN cmds, cmds[i].kind = "Decision"
          PROVE  Backed(cmds[i])'
      <3>1. PICK d : d = cmds[i] OBVIOUS
      <3>2. Backed(d)' BY <2>2, <2>3, <3>1 DEF IInv, Approval, Decided
      <3> QED BY <1>6, <3>1, <3>2
    <2>4. Decided' BY <2>3, <1>6 DEF Decided
    <2>5. Prompted'
      BY <1>5, <1>6 DEF IInv, Approval, Prompted, About
    <2> QED BY <2>1, <2>4, <2>5 DEF Approval
  <1> QED BY <1>7, <1>8, <1>9 DEF IInv

\* A call that is run is counted once more, the others as often as before.
LEMMA Counted ==
  ASSUME IInv, NEW calls \in SUBSET Calls, Ran(calls)
  PROVE  /\ executed' \in [Calls -> Nat]
         /\ \A c \in Calls : executed'[c] = executed[c] + IF c \in calls THEN 1
                                                        ELSE 0
  BY DEF IInv, Typing, Ran

\* The worker after it ran some requested calls and keeps the others pending.
LEMMA Handled ==
  ASSUME IInv, NEW calls \in SUBSET r.asks, NEW wk,
         wk = HandleToolCallRequested(calls)
  PROVE  /\ wk \in Client(sessions)
         /\ wk.at = w.at /\ wk.session = w.session
         /\ wk.edits = w.edits /\ wk.reads = w.reads
         /\ wk.aliases = w.aliases /\ wk.seals = w.seals
         /\ wk.results = w.results \cup RunNow(calls)
         /\ wk.requests = w.requests \cup AskNow(calls)
         /\ wk.prompts = w.prompts \cup AskNow(calls)
         /\ RunNow(calls) \cup AskNow(calls) \subseteq calls
         /\ RunNow(calls) \cup AskNow(calls) \subseteq Calls
         /\ (RunNow(calls) \cup AskNow(calls)) \cap (w.results \cup w.requests)
              = {}
         /\ RunNow(calls) \cap AskNow(calls) = {}
  <1>1. r.asks \subseteq Calls BY Before DEF Run
  <1>2. w.requests = w.prompts BY Before DEF Client
  <1>3. /\ RunNow(calls) \cup AskNow(calls) \subseteq calls
        /\ (RunNow(calls) \cup AskNow(calls)) \cap (w.results \cup w.requests)
             = {}
        /\ RunNow(calls) \cap AskNow(calls) = {}
    BY <1>2 DEF RunNow, AskNow, NewRequests
  <1>4. PICK run, ask : run = RunNow(calls) /\ ask = AskNow(calls) OBVIOUS
  <1>5. /\ run \subseteq Calls /\ ask \subseteq Calls BY <1>1, <1>3, <1>4
  <1>6. PICK state : state = IF ask = {} THEN w.state ELSE "AwaitingTool"
    OBVIOUS
  <1>7. wk = [w EXCEPT !.results = w.results \cup run,
                       !.requests = w.requests \cup ask,
                       !.prompts = w.requests \cup ask, !.state = state]
    BY <1>2, <1>4, <1>6 DEF HandleToolCallRequested
  <1>8. /\ w.results \cup run \in SUBSET Calls
        /\ w.requests \cup ask \in SUBSET Calls
        /\ w.requests \cup ask = w.prompts \cup ask
        /\ state \in {"Idle", "AwaitingTool", "AwaitingApproval", "Streaming"}
    BY <1>2, <1>5, <1>6, Before DEF Client
  <1>9. /\ wk \in Client(sessions)
        /\ wk.at = w.at /\ wk.session = w.session
        /\ wk.edits = w.edits /\ wk.reads = w.reads
        /\ wk.aliases = w.aliases /\ wk.seals = w.seals
        /\ wk.results = w.results \cup run
        /\ wk.requests = w.requests \cup ask
        /\ wk.prompts = w.prompts \cup ask
    <2>1. PICK results, requests :
            /\ results = w.results \cup run /\ requests = w.requests \cup ask
      OBVIOUS
    <2>2. wk = [w EXCEPT !.results = results, !.requests = requests,
                         !.prompts = requests, !.state = state]
      BY <1>7, <2>1
    <2>3. /\ wk \in Client(sessions)
          /\ wk.at = w.at /\ wk.session = w.session
          /\ wk.edits = w.edits /\ wk.reads = w.reads
          /\ wk.aliases = w.aliases /\ wk.seals = w.seals
          /\ wk.results = results /\ wk.requests = requests
          /\ wk.prompts = requests
      <3>1. /\ w \in Client(sessions)
            /\ results \in SUBSET Calls /\ requests \in SUBSET Calls
        BY <1>8, <2>1, Before
      <3> QED BY <1>8, <2>2, <3>1 DEF Client
    <2> QED BY <1>8, <2>1, <2>3
  <1> QED BY <1>1, <1>3, <1>4, <1>9

\* Running the new ones of the calls the stream asks for runs none again.
LEMMA NoneAgain ==
  ASSUME IInv, w.at = "stream", RunAgain, NEW calls \in SUBSET r.asks,
         Ran(RunNow(calls)), UNCHANGED lost
  PROVE  /\ executed' \in [Calls -> Nat]
         /\ ExecutedOnce'
         /\ \A c \in (w.requests \cup AskNow(calls)) \ lost : executed'[c] = 0
         /\ \A c \in r.asks \ lost :
              executed'[c] > 0 => c \in w.results \cup RunNow(calls)
         /\ \A c \in Calls : executed'[c] > 0 => c \in r.used
  <1>1. PICK run, ask : run = RunNow(calls) /\ ask = AskNow(calls) OBVIOUS
  <1>2. /\ run \subseteq calls /\ ask \subseteq calls
        /\ run \subseteq Calls /\ ask \subseteq Calls
        /\ (run \cup ask) \cap (w.results \cup w.requests) = {}
        /\ run \cap ask = {}
    BY <1>1, Handled
  <1>3. /\ executed' \in [Calls -> Nat]
        /\ \A c \in Calls : executed'[c] = executed[c] + IF c \in run THEN 1
                                                       ELSE 0
    BY <1>1, <1>2, Counted
  <1>4. /\ executed \in [Calls -> Nat]
        /\ r.asks \subseteq Calls /\ w.requests \subseteq Calls
    BY Before DEF IInv, Typing, Run, Client
  <1>5. \A c \in (run \cup ask) \ lost : executed[c] = 0
    BY <1>2, <1>4 DEF IInv, Execution, Once
  <1>6. ExecutedOnce'
    BY <1>3, <1>4, <1>5 DEF IInv, Execution, Once, ExecutedOnce
  <1>7. \A c \in (w.requests \cup ask) \ lost : executed'[c] = 0
    BY <1>2, <1>3, <1>4, <1>5 DEF IInv, Execution, Once
  <1>8. \A c \in r.asks \ lost : executed'[c] > 0 => c \in w.results \cup run
    BY <1>3, <1>4 DEF IInv, Execution, Once
  <1>9. \A c \in Calls : executed'[c] > 0 => c \in r.used
    BY <1>2, <1>3, <1>4 DEF IInv, Execution, Used
  <1> QED BY <1>1, <1>3, <1>6, <1>7, <1>8, <1>9

LEMMA ToolCallRequestedKeeps ==
  ASSUME IInv, ToolCallRequested
  PROVE  IInv'
  <1>1. TakeEvent("ToolCallRequested") BY DEF ToolCallRequested
  <1>2. PICK calls : calls = {Head(r.feed).id} OBVIOUS
  <1>3. /\ w' = HandleToolCallRequested(calls)
        /\ \E prompts \in Prompts(AskNow(calls)) : SendMsg(prompts)
        /\ Ran(RunNow(calls))
        /\ r' = EventTaken
        /\ UNCHANGED <<t, cmds, exit, approved, lost, grants, answer, held,
                       left, sessions>>
    BY <1>2 DEF ToolCallRequested, bounds
  <1>4. calls \subseteq r.asks /\ RunAgain
    BY <1>1, <1>2, Taking
    DEF TakeEvent, IInv, Execution, Fed, RunAgain, Asking, ToolEvents
  <1>5. w.at = "stream" /\ w.session # 0 BY <1>1, Taking
  <1>6. PICK run, ask : run = RunNow(calls) /\ ask = AskNow(calls) OBVIOUS
  <1>7. /\ w' \in Client(sessions)
        /\ w'.at = w.at /\ w'.session = w.session
        /\ w'.edits = w.edits /\ w'.reads = w.reads
        /\ w'.aliases = w.aliases
        /\ w'.results = w.results \cup run
        /\ w'.requests = w.requests \cup ask
        /\ run \cup ask \subseteq calls /\ run \cup ask \subseteq Calls
    BY <1>3, <1>4, <1>6, Handled
  <1>8. /\ r' \in Run /\ r'.asks = r.asks /\ r'.used = r.used
        /\ r.feed # <<>> /\ r'.feed = Tail(r.feed)
    BY <1>1, <1>3, Taking
  <1>9. About(msgs', r.used \cup {0})
    <2>1. PICK prompts \in Prompts(ask) : SendMsg(prompts) BY <1>3, <1>6
    <2>2. About(prompts, ask) BY <1>7, <2>1, PromptsAbout
    <2>3. ask \subseteq r.used BY <1>4, <1>7 DEF IInv, Execution, Used
    <2>4. About(prompts, r.used \cup {0}) BY <2>2, <2>3 DEF About
    <2> QED BY <2>1, <2>4, Sent
  <1>10. /\ executed' \in [Calls -> Nat]
         /\ ExecutedOnce'
         /\ \A c \in (w.requests \cup ask) \ lost : executed'[c] = 0
         /\ \A c \in r.asks \ lost : executed'[c] > 0 => c \in w.results \cup run
         /\ \A c \in Calls : executed'[c] > 0 => c \in r.used
    BY <1>3, <1>4, <1>5, <1>6, NoneAgain
  <1>11. Within
    BY <1>3, <1>4, <1>5, <1>7, <1>8, <1>9, <1>10 DEF Within, IInv, Typing
  <1>12. Execution'
    <2>1. Used'
      BY <1>4, <1>7, <1>8, <1>10 DEF IInv, Execution, Used
    <2>2. Fed'
      <3>1. r.feed \in Seq(Event) BY Before DEF Run
      <3>2. \A i \in DOMAIN r'.feed :
              /\ i + 1 \in DOMAIN r.feed /\ r'.feed[i] = r.feed[i + 1]
              /\ i + 1 = Len(r.feed) => i = Len(r'.feed)
        BY <1>8, <3>1, RestOf
      <3> QED BY <1>8, <3>2 DEF IInv, Execution, Fed
    <2>3. Once' BY <1>3, <1>7, <1>8, <1>10 DEF Once
    <2>4. SealsHeld' /\ AnswersFit'
      BY <1>3, <1>5, <1>7 DEF IInv, Execution, SealsHeld, AnswersFit
    <2> QED BY <2>1, <2>2, <2>3, <2>4 DEF Execution
  <1> QED BY <1>11, <1>12, WithinTyping, WithinApproval DEF IInv

LEMMA HandleAwaitingToolKeeps ==
  ASSUME IInv, HandleAwaitingTool
  PROVE  IInv'
  <1> DEFINE handled == [HandleToolCallRequested(r.asks) EXCEPT
                           !.seals = PendingSeals(r)]
             waiting == [handled EXCEPT !.state = "AwaitingTool"]
             sent == [handled EXCEPT !.results = @ \ r.asks, !.prompts = {},
                                     !.requests = {}]
             posted == [sent EXCEPT !.seals = FALSE]
             idle == [sent EXCEPT !.state = "Idle"]
  <1>1. TakeEvent("AwaitingTool") BY DEF HandleAwaitingTool
  <1>2. /\ Ran(RunNow(r.asks))
        /\ UNCHANGED <<t, cmds, exit, approved, lost, grants, held, sessions>>
    BY DEF HandleAwaitingTool
  <1>3. \/ /\ \E prompts \in Prompts(AskNow(r.asks)) : Leave(waiting, prompts)
           /\ r' = EventTaken
           /\ UNCHANGED answer
        \/ /\ Answers(r.asks, handled.seals, TRUE)
           /\ StreamContinue(posted, <<>>,
                             RouterToolResults(r, r.asks, handled.seals))
        \/ /\ Leave(idle, <<Msg("Error")>>)
           /\ r' = EventTaken
           /\ UNCHANGED answer
    BY DEF HandleAwaitingTool
  <1>4. RunAgain
    BY <1>1, Taking DEF TakeEvent, RunAgain, Asking
  <1>5. w.at = "stream" /\ w.session # 0 BY <1>1, Taking
  <1>6. PICK run, ask : run = RunNow(r.asks) /\ ask = AskNow(r.asks) OBVIOUS
  <1>7. /\ handled \in Client(sessions) /\ handled.session = w.session
        /\ handled.edits = w.edits /\ handled.reads = w.reads
        /\ handled.aliases = w.aliases /\ handled.seals = r.wants
        /\ handled.requests = w.requests \cup ask
        /\ ask \subseteq r.asks /\ ask \subseteq Calls
    <2>1. PICK wk : wk = HandleToolCallRequested(r.asks) OBVIOUS
    <2>2. /\ wk \in Client(sessions) /\ wk.session = w.session
          /\ wk.edits = w.edits /\ wk.reads = w.reads
          /\ wk.aliases = w.aliases /\ wk.requests = w.requests \cup ask
          /\ ask \subseteq r.asks /\ ask \subseteq Calls
      BY <1>6, <2>1, Handled
    <2>3. r.wants \in BOOLEAN BY Before DEF Run
    <2>4. handled = [wk EXCEPT !.seals = r.wants] BY <2>1 DEF PendingSeals
    <2> HIDE DEF handled
    <2> QED BY <2>2, <2>3, <2>4 DEF Client
  <1> HIDE DEF handled
  <1>8. /\ waiting \in Client(sessions) /\ waiting.session = w.session
        /\ waiting.edits = w.edits /\ waiting.reads = w.reads
        /\ waiting.aliases = w.aliases /\ waiting.seals = r.wants
        /\ waiting.requests = w.requests \cup ask
        /\ waiting.state = "AwaitingTool"
    BY <1>7 DEF Client
  <1>9. /\ posted \in Client(sessions) /\ posted.session = w.session
        /\ posted.edits = w.edits /\ posted.reads = w.reads
        /\ posted.aliases = w.aliases /\ posted.requests = {}
    BY <1>7 DEF Client
  <1>10. /\ idle \in Client(sessions) /\ idle.session = w.session
         /\ idle.edits = w.edits /\ idle.reads = w.reads
         /\ idle.aliases = w.aliases /\ idle.requests = {}
         /\ idle.state = "Idle"
    BY <1>7 DEF Client
  <1> HIDE DEF waiting, posted, idle
  <1>11. /\ executed' \in [Calls -> Nat]
         /\ ExecutedOnce'
         /\ \A c \in (w.requests \cup ask) \ lost : executed'[c] = 0
         /\ \A c \in Calls : executed'[c] > 0 => c \in r.used
    BY <1>2, <1>4, <1>5, <1>6, NoneAgain
  \* What each of the branches comes to.
  <1>12. ASSUME w' \in Client(sessions), r' \in Run, left' \in BOOLEAN,
                About(msgs', r.used \cup {0}),
                w'.session = w.session, w'.edits = w.edits,
                w'.reads = w.reads, w'.aliases = w.aliases,
                w'.requests \subseteq w.requests \cup ask,
                r'.asks \subseteq r.asks, r'.used = r.used,
                Fed', w'.at # "stream" \/ r'.asks = {}, SealsHeld', AnswersFit'
         PROVE  IInv'
    <2>1. Within
      BY <1>2, <1>5, <1>7, <1>11, <1>12 DEF Within, IInv, Typing
    <2>2. Used' BY <1>7, <1>11, <1>12 DEF IInv, Execution, Used
    <2>3. Once' BY <1>2, <1>11, <1>12 DEF Once
    <2> QED
      BY <1>12, <2>1, <2>2, <2>3, WithinTyping, WithinApproval
      DEF IInv, Execution
  <1>13. /\ EventTaken \in Run /\ EventTaken.asks = r.asks
         /\ EventTaken.used = r.used /\ EventTaken.wants = r.wants
         /\ \A i \in DOMAIN EventTaken.feed :
              /\ EventTaken.feed[i].kind = "ToolCallRequested" =>
                   EventTaken.feed[i].id \in r.asks
              /\ EventTaken.feed[i].kind \notin ToolEvents =>
                   i = Len(EventTaken.feed)
    <2>1. r.feed \in Seq(Event) BY Before DEF Run
    <2>2. /\ EventTaken \in Run /\ EventTaken.asks = r.asks
          /\ EventTaken.used = r.used
          /\ r.feed # <<>> /\ EventTaken.feed = Tail(r.feed)
      BY <1>1, Taking
    <2>3. \A i \in DOMAIN Tail(r.feed) :
            /\ i + 1 \in DOMAIN r.feed /\ Tail(r.feed)[i] = r.feed[i + 1]
            /\ i + 1 = Len(r.feed) => i = Len(Tail(r.feed))
      BY <2>1, <2>2, RestOf
    <2>4. EventTaken.wants = r.wants BY Before DEF EventTaken, Run
    <2> QED BY <2>2, <2>3, <2>4 DEF IInv, Execution, Fed
  <1>14. ASSUME NEW prompts \in Prompts(ask), Leave(waiting, prompts),
                r' = EventTaken, UNCHANGED answer
         PROVE  IInv'
    <2>1. About(prompts, ask) BY <1>7, PromptsAbout
    <2>2. ask \subseteq r.used BY <1>7 DEF IInv, Execution, Used
    <2>3. About(prompts, r.used \cup {0}) BY <2>1, <2>2 DEF About
    <2>4. /\ w' \in Client(sessions) /\ Kept(waiting) /\ w'.at = "loop"
          /\ About(msgs', r.used \cup {0}) /\ left' \in BOOLEAN
      BY <1>8, <1>14, <2>3, Before, Left
    <2>5. Fed' BY <1>13, <1>14 DEF Fed
    <2>6. SealsHeld' BY <1>8, <1>13, <1>14, <2>4 DEF SealsHeld, Kept
    <2>7. AnswersFit' BY <1>14 DEF IInv, Execution, AnswersFit
    <2> QED BY <1>8, <1>12, <1>13, <1>14, <2>4, <2>5, <2>6, <2>7 DEF Kept
  <1>15. CASE /\ Answers(r.asks, handled.seals, TRUE)
              /\ StreamContinue(posted, <<>>,
                                RouterToolResults(r, r.asks, handled.seals))
    <2>1. RouterToolResults(r, r.asks, handled.seals) = RouterTurn(r)
      BY <1>7 DEF RouterToolResults
    <2>2. Posted(RouterTurn(r)) /\ RouterTurn(r).asks = {}
      BY Before, RouterAnswers
    <2>3. /\ w' \in Client(sessions) /\ Kept(posted)
          /\ About(msgs', r.used \cup {0}) /\ left' \in BOOLEAN
          /\ r' \in Run
          /\ \/ w'.at = "stream" /\ w'.state = "Streaming" /\ r' = RouterTurn(r)
             \/ w'.at = "loop" /\ w'.state = "Idle" /\ r' = r
      <3>1. PICK next : next = RouterToolResults(r, r.asks, handled.seals)
        OBVIOUS
      <3>2. StreamContinue(posted, <<>>, next) BY <1>15, <3>1
      <3>3. Posted(next) /\ next = RouterTurn(r) BY <2>1, <2>2, <3>1
      <3>4. About(<<>>, r.used \cup {0}) BY Notes
      <3>5. /\ w' \in Client(sessions) /\ Kept(posted)
            /\ About(msgs', r.used \cup {0}) /\ left' \in BOOLEAN
            /\ r' \in Run
            /\ \/ w'.at = "stream" /\ w'.state = "Streaming" /\ r' = next
               \/ w'.at = "loop" /\ w'.state = "Idle" /\ r' = r
        BY <1>9, <3>2, <3>3, <3>4, Before, Continued
      <3> QED BY <3>3, <3>5
    <2>4. RouterTurn(r).feed = <<>> BY Before DEF RouterTurn, Run
    <2>5. Fed' BY <2>2, <2>3, <2>4 DEF Fed, IInv, Execution
    <2>6. SealsHeld' BY <2>3 DEF SealsHeld
    <2>7. AnswersFit' BY <1>7, <1>15 DEF Answers, AnswersFit
    <2>8. r'.asks \subseteq r.asks /\ r'.used = r.used
      BY <2>2, <2>3 DEF Posted
    <2> QED BY <1>9, <1>12, <2>2, <2>3, <2>5, <2>6, <2>7, <2>8 DEF Kept
  <1>16. CASE /\ Leave(idle, <<Msg("Error")>>)
              /\ r' = EventTaken
              /\ UNCHANGED answer
    <2>1. /\ w' \in Client(sessions) /\ Kept(idle) /\ w'.at = "loop"
          /\ w'.state = "Idle"
          /\ About(msgs', r.used \cup {0}) /\ left' \in BOOLEAN
      BY <1>10, <1>16, Before, Left, Notes DEF MsgKinds
    <2>2. Fed' BY <1>13, <1>16 DEF Fed
    <2>3. SealsHeld' BY <2>1 DEF SealsHeld
    <2>4. AnswersFit' BY <1>16 DEF IInv, Execution, AnswersFit
    <2> QED BY <1>10, <1>12, <1>13, <1>16, <2>1, <2>2, <2>3, <2>4 DEF Kept
  <1> QED BY <1>3, <1>6, <1>14, <1>15, <1>16

-----------------------------------------------------------------------------
(* Sessions begin, end and are resumed.                                    *)

\* The commands left when the first is taken.
LEMMA Popped ==
  ASSUME IInv, cmds # <<>>, cmds' = Tail(cmds)
  PROVE  /\ cmds' \in Seq(Command(sessions)) /\ Len(cmds') <= CmdCap + 1
         /\ \A i \in DOMAIN cmds' : \E j \in DOMAIN cmds : cmds'[i] = cmds[j]
         /\ Head(cmds) \in Command(sessions)
         /\ Head(cmds) = cmds[1] /\ 1 \in DOMAIN cmds
  <1>1. CmdCap \in Nat BY BoundsAssumption
  <1> QED BY <1>1, RestOf DEF IInv, Typing

\* Decisions on their way stay backed where every decision does.
LEMMA StillDecided ==
  ASSUME IInv, cmds' = cmds \/ (cmds # <<>> /\ cmds' = Tail(cmds)),
         ASSUME NEW d, Backed(d) PROVE Backed(d)'
  PROVE  Decided'
  <1>1. \A i \in DOMAIN cmds' : \E j \in DOMAIN cmds : cmds'[i] = cmds[j]
    BY Popped
  <1>2. ASSUME NEW i \in DOMAIN cmds', cmds'[i].kind = "Decision"
        PROVE  Backed(cmds[i])'
    <2>1. PICK j \in DOMAIN cmds : cmds'[i] = cmds[j] BY <1>1
    <2>2. PICK d : d = cmds[j] OBVIOUS
    <2>3. Backed(d) BY <1>2, <2>1, <2>2 DEF IInv, Approval, Decided
    <2>4. Backed(d)' BY <2>3
    <2> QED BY <2>1, <2>2, <2>4
  <1> QED BY <1>2 DEF Decided

\* A client that starts over, and a run that is over.
LEMMA Reset ==
  ASSUME IInv
  PROVE  /\ ResetSessionState(w) \in Client(sessions)
         /\ ResetSessionState(w).at = w.at
         /\ ResetSessionState(w).session = 0
         /\ ResetSessionState(w).state = "Idle"
         /\ ResetSessionState(w).edits = AutoApply
         /\ ResetSessionState(w).reads = FALSE
         /\ ResetSessionState(w).aliases = {}
         /\ ResetSessionState(w).requests = {}
         /\ [NoRun EXCEPT !.used = r.used] \in Run
         /\ [NoRun EXCEPT !.used = r.used].asks = {}
         /\ [NoRun EXCEPT !.used = r.used].feed = <<>>
         /\ [NoRun EXCEPT !.used = r.used].used = r.used
  <1>1. AutoApply \in BOOLEAN BY BoundsAssumption
  <1>2. sessions \in Nat BY DEF IInv, Typing
  <1>3. w.at \in {"loop", "opening", "stream", "signing_out", "stopped"} BY Before DEF Client
  <1>4. /\ ResetSessionState(w).at = w.at
        /\ ResetSessionState(w).session = 0
        /\ ResetSessionState(w).state = "Idle"
        /\ ResetSessionState(w).edits = AutoApply
        /\ ResetSessionState(w).reads = FALSE
        /\ ResetSessionState(w).aliases = {}
        /\ ResetSessionState(w).requests = {}
    BY <1>1, <1>2, <1>3 DEF ResetSessionState, NewRouterClient
  <1>5. ResetSessionState(w) \in Client(sessions)
    <2>1. PICK new : new = NewRouterClient OBVIOUS
    <2>2. new \in Client(sessions)
      BY <1>1, <1>2, <2>1 DEF NewRouterClient, Client
    <2>3. ResetSessionState(w) = [new EXCEPT !.at = w.at]
      BY <2>1 DEF ResetSessionState
    <2> QED BY <1>3, <2>2, <2>3 DEF Client
  <1>6. <<>> \in Seq(Event) OBVIOUS
  <1>7. /\ [NoRun EXCEPT !.used = r.used] \in Run
        /\ [NoRun EXCEPT !.used = r.used].asks = {}
        /\ [NoRun EXCEPT !.used = r.used].feed = <<>>
        /\ [NoRun EXCEPT !.used = r.used].used = r.used
    BY <1>6, Before DEF NoRun, Run
  <1> QED BY <1>4, <1>5, <1>7

\* With a client that starts over nothing is pending and nothing accepted.
LEMMA StartsOver ==
  ASSUME IInv, w' \in Client(sessions), r' \in Run, left' \in BOOLEAN,
         held' \in BOOLEAN,
         w'.at = "loop", w'.state = "Idle",
         w'.edits = AutoApply, w'.reads = FALSE, w'.aliases = {},
         w'.requests = {},
         r'.asks = {}, r'.feed = <<>>, r'.used = r.used,
         About(msgs', r.used \cup {0}),
         cmds # <<>>, cmds' = Tail(cmds),
         UNCHANGED <<t, exit, executed, approved, lost, grants, answer,
                     sessions>>
  PROVE  IInv'
  <1>1. Typing'
    BY Popped DEF IInv, Typing, About
  <1>2. Execution'
    BY DEF IInv, Execution, Used, Fed, Once, ExecutedOnce, SealsHeld,
      AnswersFit
  <1>3. NoSession' /\ Accepted' BY DEF NoSession, Accepted
  <1>4. Decided'
    <2>1. ASSUME NEW d, Backed(d) PROVE Backed(d)' BY <2>1 DEF Backed
    <2> QED BY <2>1, StillDecided
  <1>5. Prompted' BY DEF IInv, Approval, Prompted
  <1> QED BY <1>1, <1>2, <1>3, <1>4, <1>5 DEF IInv, Approval

LEMMA ClearSessionKeeps ==
  ASSUME IInv, ClearSession
  PROVE  IInv'
  <1>1. PICK over : over = [NoRun EXCEPT !.used = r.used] OBVIOUS
  <1>2. /\ w' = ResetSessionState(w) /\ w.at = "loop"
        /\ r' = over
        /\ held' = FALSE /\ left' = FALSE
        /\ cmds # <<>> /\ cmds' = Tail(cmds)
        /\ UNCHANGED <<t, exit, executed, approved, lost, grants, answer,
                       sessions>>
    BY <1>1 DEF ClearSession, AtLoop, Receive
  <1>3. About(msgs', r.used \cup {0})
    <2> DEFINE done == <<Msg("Idle"), Msg("SessionClosed")>>
    <2>1. About(done, r.used \cup {0}) /\ About(<<Msg("Error")>>, r.used \cup {0})
      BY Notes DEF MsgKinds
    <2>2. SendMsg(done) \/ SendMsg(<<Msg("Error")>> \o done) BY DEF ClearSession
    <2> HIDE DEF done
    <2>3. About(<<Msg("Error")>> \o done, r.used \cup {0})
      BY <2>1, MoreMessages
    <2> QED BY <2>1, <2>2, <2>3, Sent
  <1> QED BY <1>1, <1>2, <1>3, Reset, StartsOver

LEMMA ResumeKeeps ==
  ASSUME IInv, Resume
  PROVE  IInv'
  <1>1. PICK over : over = [NoRun EXCEPT !.used = r.used] OBVIOUS
  <1>2. PICK s : s = Head(cmds).id OBVIOUS
  <1>3. PICK note \in {"ResumedSession", "Error"} :
          \/ /\ w' = ResetSessionState(w) /\ r' = over /\ ~held'
             /\ SendMsg(<<>> \o <<Msg(note)>>)
          \/ /\ w' = [ResetSessionState(w) EXCEPT !.session = s, !.aliases = {},
                                                  !.state = "Idle"]
             /\ r' = over /\ held' = FALSE
             /\ SendMsg(<<>> \o <<Msg(note)>>)
          \/ /\ w' = w /\ r' = r /\ held' = TRUE
             /\ SendMsg(<<Msg("Error")>> \o <<Msg(note)>>)
          \/ /\ w' = [w EXCEPT !.session = s, !.aliases = {}, !.state = "Idle"]
             /\ r' = over /\ held' = TRUE
             /\ SendMsg(<<Msg("Error")>> \o <<Msg(note)>>)
    BY <1>1, <1>2 DEF Resume
  <1>4. /\ w.at = "loop" /\ left' \in BOOLEAN /\ held' \in BOOLEAN
        /\ cmds # <<>> /\ cmds' = Tail(cmds)
        /\ Head(cmds).kind = "ResumeSession"
        /\ UNCHANGED <<t, exit, executed, approved, lost, grants, answer,
                       sessions>>
    BY DEF Resume, AtLoop, Receive
  <1>5. s \in 1 .. sessions /\ s \in 0 .. sessions /\ s # 0
    <2>1. sessions \in Nat /\ s \in 1 .. sessions
      BY <1>2, <1>4, Popped DEF IInv, Typing
    <2> QED BY <2>1
  <1>6. About(msgs', r.used \cup {0})
    <2>1. /\ About(<<Msg("Error")>>, r.used \cup {0})
          /\ About(<<Msg(note)>>, r.used \cup {0})
          /\ About(<<>>, r.used \cup {0})
      BY Notes DEF MsgKinds
    <2>2. /\ About(<<>> \o <<Msg(note)>>, r.used \cup {0})
          /\ About(<<Msg("Error")>> \o <<Msg(note)>>, r.used \cup {0})
      BY <2>1, MoreMessages
    <2> QED BY <1>3, <2>2, Sent
  <1>7. CASE w' = ResetSessionState(w) /\ r' = over /\ ~held'
    BY <1>1, <1>4, <1>6, <1>7, Reset, StartsOver
  <1>8. CASE /\ w' = [ResetSessionState(w) EXCEPT !.session = s, !.aliases = {},
                                                 !.state = "Idle"]
             /\ r' = over
    <2>1. PICK new : new = ResetSessionState(w) OBVIOUS
    <2>2. /\ w' \in Client(sessions) /\ w'.at = "loop" /\ w'.state = "Idle"
          /\ w'.edits = AutoApply /\ w'.reads = FALSE /\ w'.aliases = {}
          /\ w'.requests = {}
      <3>1. w' = [new EXCEPT !.session = s, !.aliases = {}, !.state = "Idle"]
        BY <1>8, <2>1
      <3>2. /\ new \in Client(sessions) /\ new.at = w.at
            /\ new.edits = AutoApply /\ new.reads = FALSE
            /\ new.requests = {}
        BY <2>1, Reset
      <3> QED BY <1>4, <1>5, <3>1, <3>2 DEF Client
    <2> QED BY <1>1, <1>4, <1>6, <1>8, <2>2, Reset, StartsOver
  <1>9. CASE w' = w /\ r' = r /\ held' = TRUE
    <2>1. Typing' BY <1>4, <1>6, <1>9, Popped DEF IInv, Typing, About
    <2>2. Execution'
      BY <1>4, <1>9
      DEF IInv, Execution, Used, Fed, Once, RunAgain, ExecutedOnce, SealsHeld,
        AnswersFit
    <2>3. NoSession' /\ Accepted' /\ Prompted'
      BY <1>4, <1>6, <1>9
      DEF IInv, Approval, NoSession, Accepted, Prompted
    <2>4. ASSUME NEW d, Backed(d) PROVE Backed(d)'
      BY <1>4, <1>9, <2>4 DEF Backed
    <2>5. Decided' BY <1>4, <2>4, StillDecided
    <2> QED BY <2>1, <2>2, <2>3, <2>5 DEF IInv, Approval
  <1>10. CASE /\ w' = [w EXCEPT !.session = s, !.aliases = {}, !.state = "Idle"]
              /\ r' = over /\ held' = TRUE
    <2>1. /\ w' \in Client(sessions) /\ w'.at = "loop" /\ w'.state = "Idle"
          /\ w'.session # 0 /\ w'.requests = w.requests
      BY <1>4, <1>5, <1>10, Before DEF Client
    <2>2. /\ r' \in Run /\ r'.asks = {} /\ r'.feed = <<>> /\ r'.used = r.used
      BY <1>1, <1>10, Reset
    <2>3. Typing' BY <1>4, <1>6, <2>1, <2>2, Popped DEF IInv, Typing, About
    <2>4. Execution'
      BY <1>4, <2>1, <2>2
      DEF IInv, Execution, Used, Fed, Once, ExecutedOnce, SealsHeld, AnswersFit
    <2>5. NoSession' /\ Accepted' /\ Prompted'
      BY <1>4, <1>6, <1>10, <2>1, <2>2
      DEF IInv, Approval, NoSession, Accepted, Prompted
    <2>6. ASSUME NEW d, Backed(d) PROVE Backed(d)'
      BY <1>4, <1>10, <2>2, <2>6 DEF Backed
    <2>7. Decided' BY <1>4, <2>6, StillDecided
    <2> QED BY <2>3, <2>4, <2>5, <2>7 DEF IInv, Approval
  <1> QED BY <1>3, <1>7, <1>8, <1>9, <1>10

\* An execute without a session starts one in which nothing is accepted.
LEMMA ExecuteKeeps ==
  ASSUME IInv, Execute
  PROVE  IInv'
  <1>1. /\ w.at = "loop" /\ w.state = "Idle"
        /\ cmds # <<>> /\ cmds' = Tail(cmds)
        /\ UNCHANGED <<t, exit, r, history>>
    BY DEF Execute, AtLoop, Receive
  <1>2. CASE SendMsg(<<Msg("Error")>>) /\ UNCHANGED <<w, sessions>>
    <2>1. About(msgs', r.used \cup {0}) BY <1>2, Notes, Sent DEF MsgKinds
    <2>2. Calm BY <1>1, <1>2, <2>1, Before DEF Calm, history
    <2> QED BY <2>2, CalmKeeps
  <1>3. CASE /\ w' = [w EXCEPT !.state = "Streaming", !.at = "opening",
                              !.session = SessionIdOrNew]
             /\ sessions' = (IF SessionIdOrNew > sessions THEN SessionIdOrNew
                            ELSE sessions)
             /\ SendMsg(<<Msg("Thinking")>>)
    <2>1. About(msgs', r.used \cup {0}) BY <1>3, Notes, Sent DEF MsgKinds
    <2>2. PICK id : id = SessionIdOrNew OBVIOUS
    <2>3. /\ sessions \in Nat \ {0} /\ sessions' \in Nat \ {0}
          /\ sessions <= sessions'
          /\ id \in 1 .. sessions'
          /\ w.session # 0 => id = w.session
      <3>1. w.session \in 0 .. sessions /\ sessions \in Nat \ {0}
        BY Before DEF IInv, Typing, Client
      <3>2. id = IF w.session = 0 THEN sessions + 1 ELSE w.session
        BY <2>2 DEF SessionIdOrNew
      <3>3. sessions' = IF id > sessions THEN id ELSE sessions BY <1>3, <2>2
      <3> QED BY <3>1, <3>2, <3>3
    <2>4. w \in Client(sessions') /\ id \in 0 .. sessions'
      <3>1. w.session \in 0 .. sessions' BY <2>3, Before DEF Client
      <3> QED BY <2>3, <3>1, Before DEF Client
    <2>5. /\ w' \in Client(sessions') /\ w'.at = "opening"
          /\ w'.state = "Streaming" /\ w'.session = id
          /\ w'.edits = w.edits /\ w'.reads = w.reads
          /\ w'.aliases = w.aliases
          /\ w'.requests = w.requests /\ w'.results = w.results
      BY <1>3, <2>2, <2>4 DEF Client
    <2>6. Typing'
      <3>1. Command(sessions) \subseteq Command(sessions')
        BY <2>3 DEF Command
      <3>2. /\ cmds' \in Seq(Command(sessions)) /\ Len(cmds') <= CmdCap + 1
            /\ \A i \in DOMAIN cmds' : \E j \in DOMAIN cmds :
                 cmds'[i] = cmds[j]
        BY <1>1, Popped
      <3>3. cmds' \in Seq(Command(sessions')) BY <3>1, <3>2
      <3>4. \A i \in DOMAIN cmds' :
              cmds'[i].kind = "ResumeSession" => cmds'[i].id \in 1 .. sessions'
        BY <2>3, <3>2 DEF IInv, Typing
      <3>5. w' \in Client(sessions)' BY <2>5 DEF Client
      <3>6. cmds' \in Seq(Command(sessions))' BY <3>3 DEF Command
      <3> QED
        BY <1>1, <2>1, <2>3, <3>2, <3>4, <3>5, <3>6
        DEF IInv, Typing, About, history
    <2>7. Execution'
      BY <1>1, <2>5
      DEF IInv, Execution, Used, Fed, Once, RunAgain, ExecutedOnce, SealsHeld,
        AnswersFit, history
    <2>8. NoSession' /\ Accepted'
      <3>1. NoSession' BY <2>3, <2>5 DEF NoSession
      <3>2. Accepted'
        BY <1>1, <2>3, <2>5
        DEF IInv, Approval, NoSession, Accepted, Granted, history
      <3> QED BY <3>1, <3>2
    <2>9. ASSUME NEW d, Backed(d) PROVE Backed(d)'
      BY <1>1, <2>3, <2>5, <2>9
      DEF Backed, Granted, IInv, Approval, NoSession, history
    <2>10. Decided' BY <1>1, <2>9, StillDecided
    <2>11. Prompted' BY <1>1, <2>1 DEF IInv, Approval, Prompted
    <2> QED BY <2>6, <2>7, <2>8, <2>10, <2>11 DEF IInv, Approval
  <1> QED BY <1>2, <1>3 DEF Execute

-----------------------------------------------------------------------------
(* The user decides about a tool.                                          *)

\* The worker when the decided call is no longer pending.
LEMMA TakenClient ==
  ASSUME IInv, NEW c \in w.requests, NEW option, NEW taken,
         taken = Accept(Taken(w, c), c, option)
  PROVE  /\ c \in Calls
         /\ taken \in Client(sessions)
         /\ taken.at = w.at /\ taken.state = w.state
         /\ taken.session = w.session /\ taken.seals = w.seals
         /\ taken.results = w.results /\ taken.requests = w.requests \ {c}
         /\ \/ /\ taken.edits = w.edits /\ taken.reads = w.reads
               /\ taken.aliases = w.aliases
            \/ /\ option = "ApproveAlwaysForSession"
               /\ taken.edits = (w.edits \/ ToolChangesFiles(c))
               /\ taken.reads = (w.reads \/ ReadsFile(c))
               /\ taken.aliases = w.aliases \cup Aliases(c)
  <1>1. c \in Calls BY Before DEF Client
  <1>2. PICK wk : wk = Taken(w, c) OBVIOUS
  <1>3. /\ wk \in Client(sessions)
        /\ wk.at = w.at /\ wk.state = w.state
        /\ wk.session = w.session /\ wk.seals = w.seals
        /\ wk.edits = w.edits /\ wk.reads = w.reads /\ wk.aliases = w.aliases
        /\ wk.results = w.results /\ wk.requests = w.requests \ {c}
    BY <1>2, Before DEF Taken, Client
  <1>4. CASE option # "ApproveAlwaysForSession"
    <2>1. taken = wk BY <1>2, <1>4 DEF Accept
    <2> QED BY <1>1, <1>3, <2>1
  <1>5. CASE option = "ApproveAlwaysForSession"
    <2>1. PICK edits, reads, aliases :
            /\ edits = (wk.edits \/ ToolChangesFiles(c))
            /\ reads = (wk.reads \/ ReadsFile(c))
            /\ aliases = wk.aliases \cup Aliases(c)
      OBVIOUS
    <2>2. taken = [wk EXCEPT !.edits = edits, !.reads = reads,
                             !.aliases = aliases]
      BY <1>2, <1>5, <2>1 DEF Accept
    <2>3. /\ edits \in BOOLEAN /\ reads \in BOOLEAN
          /\ aliases \in SUBSET {CommandAlias(Words[k]) : k \in Calls}
      <3>1. wk.aliases \in SUBSET {CommandAlias(Words[k]) : k \in Calls}
        BY <1>3 DEF Client
      <3>2. Aliases(c) \in SUBSET {CommandAlias(Words[k]) : k \in Calls}
        BY <1>1 DEF Aliases
      <3> QED
        BY <1>3, <2>1, <3>1, <3>2 DEF Client, ToolChangesFiles, ReadsFile
    <2> QED BY <1>1, <1>3, <1>5, <2>1, <2>2, <2>3 DEF Client
  <1> QED BY <1>4, <1>5

\* A decision that is taken is backed, and what it accepts was granted.
LEMMA DecisionBacked ==
  ASSUME IInv, Receive("Decision"), NEW c \in w.requests,
         c = Head(cmds).id, NEW option, option = Head(cmds).option
  PROVE  /\ option # "Reject" => c \in approved
         /\ option = "ApproveAlwaysForSession" =>
              held \/ \A what \in Covers(c) : Granted(what)
  <1>1. /\ cmds # <<>> /\ Head(cmds).kind = "Decision"
        /\ Head(cmds) = cmds[1] /\ 1 \in DOMAIN cmds
    BY Popped DEF Receive
  <1>2. Backed(cmds[1]) BY <1>1 DEF IInv, Approval, Decided
  <1> QED BY <1>1, <1>2 DEF Backed

LEMMA DecideToolKeeps ==
  ASSUME IInv, DecideTool
  PROVE  IInv'
  <1>1. PICK c, option, taken :
          /\ c = Head(cmds).id /\ option = Head(cmds).option
          /\ taken = Accept(Taken(w, c), c, option)
    OBVIOUS
  <1>2. /\ CanContinue /\ Receive("Decision") /\ w.state = "AwaitingTool"
        /\ cmds # <<>> /\ cmds' = Tail(cmds)
        /\ w.session # 0
        /\ UNCHANGED <<t, exit, approved, grants, held, sessions>>
    BY Before DEF DecideTool, Receive
  <1>3. CASE /\ c \notin w.requests
             /\ SendMsg(<<Msg("Error")>>)
             /\ UNCHANGED <<w, r, executed, answer, left, lost>>
    <2>1. About(msgs', r.used \cup {0}) BY <1>3, Notes, Sent DEF MsgKinds
    <2>2. Calm BY <1>2, <1>3, <2>1, Before DEF Calm
    <2> QED BY <2>2, CalmKeeps
  <1>4. ASSUME c \in w.requests,
               Ran(IF option = "Reject" THEN {} ELSE {c}),
               \/ /\ Answers({c}, w.seals, FALSE)
                  /\ StreamContinue([taken EXCEPT !.seals = FALSE], <<>>,
                                    RouterToolResults(r, {c}, w.seals))
                  /\ UNCHANGED lost
               \/ /\ w' = taken
                  /\ lost' = lost \cup {c}
                  /\ SendMsg(<<Msg("Error")>>)
                  /\ UNCHANGED <<r, answer, left>>
        PROVE  IInv'
    <2>1. /\ c \in Calls
          /\ taken \in Client(sessions)
          /\ taken.at = w.at /\ taken.state = w.state
          /\ taken.session = w.session /\ taken.seals = w.seals
          /\ taken.results = w.results /\ taken.requests = w.requests \ {c}
          /\ \/ /\ taken.edits = w.edits /\ taken.reads = w.reads
                /\ taken.aliases = w.aliases
             \/ /\ option = "ApproveAlwaysForSession"
                /\ taken.edits = (w.edits \/ ToolChangesFiles(c))
                /\ taken.reads = (w.reads \/ ReadsFile(c))
                /\ taken.aliases = w.aliases \cup Aliases(c)
      BY <1>1, <1>4, TakenClient
    <2>2. /\ option = "ApproveAlwaysForSession" =>
               held \/ \A what \in Covers(c) : Granted(what)
      BY <1>1, <1>2, <1>4, DecisionBacked
    <2>3. /\ held
          \/ /\ taken.edits => AutoApply \/ Granted(Edits)
             /\ taken.reads => Granted(Reads)
             /\ \A a \in taken.aliases : Granted(a)
      BY <2>1, <2>2 DEF IInv, Approval, Accepted, Covers
    <2>4. PICK ran \in SUBSET {c} : Ran(ran) BY <1>4
    <2>5. /\ executed' \in [Calls -> Nat]
          /\ \A k \in Calls : executed'[k] = executed[k] + IF k \in ran THEN 1
                                                         ELSE 0
      BY <2>1, <2>4, Counted
    <2>6. /\ executed \in [Calls -> Nat] /\ w.requests \subseteq Calls
          /\ r.asks \subseteq Calls /\ IsFiniteSet(r.asks)
      BY Before, CallsAssumption, FS_Subset DEF IInv, Typing, Client, Run
    <2>7. \A k \in Calls : executed'[k] > 0 => k \in r.used
      BY <1>4, <2>4, <2>5, <2>6 DEF IInv, Execution, Used
    <2>8. ASSUME w' \in Client(sessions), r' \in Run, left' \in BOOLEAN,
                 About(msgs', r.used \cup {0}),
                 w'.session = taken.session, w'.edits = taken.edits,
                 w'.reads = taken.reads, w'.aliases = taken.aliases,
                 w'.requests = taken.requests,
                 lost' = lost \/ lost' = lost \cup {c},
                 r'.asks \subseteq r.asks, r'.used = r.used, Fed',
                 w'.at = "stream" /\ RunAgain' =>
                   /\ w.at = "stream" /\ r' = r /\ w'.results = w.results
                   /\ c \in lost',
                 SealsHeld', AnswersFit'
          PROVE  IInv'
      <3>1. Typing'
        BY <1>2, <2>1, <2>5, <2>8, Popped DEF IInv, Typing, About
      <3>2. Used' BY <2>1, <2>7, <2>8 DEF IInv, Execution, Used
      <3>3. ExecutedOnce'
        BY <1>4, <2>4, <2>5, <2>6, <2>8, SMTT(30)
        DEF IInv, Execution, Once, ExecutedOnce
      <3>4. \A k \in w'.requests \ lost' : executed'[k] = 0
        BY <2>1, <2>4, <2>5, <2>6, <2>8 DEF IInv, Execution, Once
      <3>5. ASSUME w'.at = "stream", RunAgain',
                   NEW k \in r'.asks \ lost', executed'[k] > 0
            PROVE  k \in w'.results
        <4>1. /\ w.at = "stream" /\ r' = r /\ w'.results = w.results
              /\ k # c
          BY <2>8, <3>5
        <4>2. RunAgain BY <3>5, <4>1 DEF RunAgain
        <4>3. k \in Calls /\ k \notin lost /\ executed[k] > 0
          BY <2>4, <2>5, <2>6, <2>8, <3>5, <4>1
        <4> QED BY <3>5, <4>1, <4>2, <4>3 DEF IInv, Execution, Once
      <3>6. Once' BY <3>3, <3>4, <3>5 DEF Once
      <3>7. NoSession' BY <1>2, <2>1, <2>8 DEF NoSession
      <3>8. Accepted' BY <1>2, <2>1, <2>3, <2>8 DEF Accepted, Granted
      <3>9. ASSUME NEW d, Backed(d) PROVE Backed(d)'
        BY <1>2, <2>1, <2>8, <3>9 DEF Backed, Granted
      <3>10. Decided' BY <1>2, <3>9, StillDecided
      <3>11. Prompted' BY <1>2, <2>8 DEF IInv, Approval, Prompted
      <3> QED
        BY <2>8, <3>1, <3>2, <3>6, <3>7, <3>8, <3>10, <3>11
        DEF IInv, Execution, Approval
    <2>9. CASE /\ Answers({c}, w.seals, FALSE)
               /\ StreamContinue([taken EXCEPT !.seals = FALSE], <<>>,
                                 RouterToolResults(r, {c}, w.seals))
               /\ UNCHANGED lost
      <3>1. PICK next, wk : /\ next = RouterToolResults(r, {c}, w.seals)
                            /\ wk = [taken EXCEPT !.seals = FALSE]
        OBVIOUS
      <3>2. StreamContinue(wk, <<>>, next) BY <2>9, <3>1
      <3>3. Posted(next) BY <3>1, Before, RouterAnswers
      <3>4. /\ wk \in Client(sessions)
            /\ wk.session = taken.session /\ wk.edits = taken.edits
            /\ wk.reads = taken.reads /\ wk.aliases = taken.aliases
            /\ wk.requests = taken.requests
        BY <2>1, <3>1 DEF Client
      <3>5. About(<<>>, r.used \cup {0}) BY Notes
      <3>6. /\ w' \in Client(sessions) /\ Kept(wk)
            /\ About(msgs', r.used \cup {0}) /\ left' \in BOOLEAN
            /\ r' \in Run
            /\ \/ w'.at = "stream" /\ w'.state = "Streaming" /\ r' = next
               \/ w'.at = "loop" /\ w'.state = "Idle" /\ r' = r
        BY <3>2, <3>3, <3>4, <3>5, Before, Continued
      <3>7. /\ \A i \in DOMAIN next.feed :
                 next.feed[i].kind \in Outcomes /\ i = Len(next.feed)
            /\ next.asks \subseteq r.asks /\ next.used = r.used
        <4>1. CASE next.feed = <<>> BY <3>3, <4>1 DEF Posted
        <4>2. CASE \E kind \in Outcomes : next.feed = <<Msg(kind)>>
          BY <3>3, <4>2 DEF Posted, Msg
        <4> QED BY <3>3, <4>1, <4>2 DEF Posted
      <3>8. Fed'
        BY <3>6, <3>7 DEF IInv, Execution, Fed, Outcomes, ToolEvents
      <3>9. ~(w'.at = "stream" /\ RunAgain')
        BY <3>6, <3>7 DEF RunAgain, Outcomes, Asking, ToolEvents
      <3>10. SealsHeld' BY <3>6 DEF SealsHeld
      <3>11. AnswersFit'
        <4>1. answer' = [calls |-> {c}, asked |-> r.asks, sealed |-> w.seals,
                         wanted |-> r.wants, auto |-> FALSE,
                         whole |-> /\ w.at = "loop" /\ ~r.cut
                                   /\ w.requests \subseteq r.asks]
          BY <2>9 DEF Answers
        <4>2. ASSUME w.at = "loop", ~r.cut, w.requests \subseteq r.asks,
                     Cardinality(r.asks) = 1
              PROVE  {c} = r.asks /\ (r.wants => w.seals)
          <5>1. PICK x : r.asks = {x}
            BY <2>6, <4>2, FS_Singleton
          <5> QED
            BY <1>2, <1>4, <4>2, <5>1 DEF IInv, Execution, SealsHeld
        <4> QED BY <4>1, <4>2 DEF AnswersFit
      <3> QED
        BY <2>8, <2>9, <3>4, <3>6, <3>7, <3>8, <3>9, <3>10, <3>11 DEF Kept
    <2>10. CASE /\ w' = taken
                /\ lost' = lost \cup {c}
                /\ SendMsg(<<Msg("Error")>>)
                /\ UNCHANGED <<r, answer, left>>
      <3>1. About(msgs', r.used \cup {0}) BY <2>10, Notes, Sent DEF MsgKinds
      <3>2. Fed' BY <2>10 DEF IInv, Execution, Fed
      <3>3. SealsHeld'
        BY <1>2, <2>1, <2>10 DEF IInv, Execution, SealsHeld
      <3>4. AnswersFit' BY <2>10 DEF IInv, Execution, AnswersFit
      <3> QED BY <2>1, <2>8, <2>10, <3>1, <3>2, <3>3, <3>4, Before
    <2> QED BY <1>4, <2>9, <2>10
  <1> QED BY <1>1, <1>3, <1>4 DEF DecideTool

-----------------------------------------------------------------------------
(* The user and the run loop.                                              *)

\* A key that decides nothing: a command of another kind may be on its way,
\* and the token may be cancelled.
Key ==
  /\ t' \in Terminal /\ t'.turn = t.turn
  /\ exit' \in {exit, TRUE}
  /\ \/ cmds' = cmds
     \/ \E cmd \in Command(sessions) :
          /\ Send(cmd)
          /\ cmd.kind # "Decision"
          /\ cmd.kind = "ResumeSession" => cmd.id \in 1 .. sessions
  /\ UNCHANGED <<w, msgs, r, history, sessions>>

LEMMA SendsMore ==
  ASSUME IInv, NEW cmd \in Command(sessions), Send(cmd)
  PROVE  /\ cmds' \in Seq(Command(sessions)) /\ Len(cmds') <= CmdCap + 1
         /\ \A i \in DOMAIN cmds' :
              \/ i \in DOMAIN cmds /\ cmds'[i] = cmds[i]
              \/ cmds'[i] = cmd
  <1>1. CmdCap \in Nat /\ Len(cmds) \in Nat /\ cmds \in Seq(Command(sessions))
    BY BoundsAssumption DEF IInv, Typing
  <1>2. cmds' = Append(cmds, cmd) /\ Len(cmds) <= CmdCap
    BY <1>1 DEF Send, Waiting
  <1> QED BY <1>1, <1>2, OneMore

\* What the worker and the router have is as before.
LEMMA SameExecution ==
  ASSUME IInv, exit' \in {exit, TRUE},
         UNCHANGED <<w, r, executed, lost, answer>>
  PROVE  Execution'
  BY DEF IInv, Typing, Execution, Used, Fed, Once, RunAgain, ExecutedOnce,
    SealsHeld, AnswersFit

LEMMA KeyKeeps ==
  ASSUME IInv, Key
  PROVE  IInv'
  <1>1. /\ cmds' \in Seq(Command(sessions)) /\ Len(cmds') <= CmdCap + 1
        /\ \A i \in DOMAIN cmds' :
             \/ i \in DOMAIN cmds /\ cmds'[i] = cmds[i]
             \/ /\ cmds'[i].kind # "Decision"
                /\ cmds'[i].kind = "ResumeSession" =>
                     cmds'[i].id \in 1 .. sessions
    <2>1. CASE cmds' = cmds BY <2>1 DEF IInv, Typing
    <2>2. CASE \E cmd \in Command(sessions) :
                 /\ Send(cmd)
                 /\ cmd.kind # "Decision"
                 /\ cmd.kind = "ResumeSession" => cmd.id \in 1 .. sessions
      BY <2>2, SendsMore
    <2> QED BY <2>1, <2>2 DEF Key
  <1>2. Typing' BY <1>1 DEF IInv, Typing, Key, history
  <1>3. Execution' BY SameExecution DEF Key, history
  <1>4. NoSession' /\ Accepted' /\ Prompted'
    BY DEF IInv, Approval, NoSession, Accepted, Granted, Prompted, Key, history
  <1>5. Decided'
    <2>1. ASSUME NEW d, Backed(d) PROVE Backed(d)'
      BY <2>1 DEF Backed, Granted, Key, history
    <2>2. ASSUME NEW i \in DOMAIN cmds', cmds'[i].kind = "Decision"
          PROVE  Backed(cmds[i])'
      <3>1. i \in DOMAIN cmds /\ cmds'[i] = cmds[i] BY <1>1, <2>2
      <3>2. PICK d : d = cmds[i] OBVIOUS
      <3>3. Backed(d)'
        BY <2>1, <2>2, <3>1, <3>2 DEF IInv, Approval, Decided
      <3> QED BY <3>1, <3>2, <3>3
    <2> QED BY <2>2 DEF Decided
  <1> QED BY <1>2, <1>3, <1>4, <1>5 DEF IInv, Approval

\* The commands of the keys, and a terminal that shows something else.
LEMMA Plainly ==
  ASSUME IInv
  PROVE  /\ \A kind \in CmdKinds \ {"Decision", "ResumeSession"} :
              /\ Cmd(kind) \in Command(sessions)
              /\ Cmd(kind).kind = kind
         /\ \A s \in 1 .. sessions :
              /\ ResumeSession(s) \in Command(sessions)
              /\ ResumeSession(s).kind = "ResumeSession"
              /\ ResumeSession(s).id = s
         /\ \A component \in {"Console", "Sessions", "View"} :
              /\ [t EXCEPT !.component = component] \in Terminal
              /\ [t EXCEPT !.component = component].turn = t.turn
         /\ t \in Terminal
  <1>1. sessions \in Nat /\ t \in Terminal BY DEF IInv, Typing
  <1> QED
    BY <1>1 DEF Cmd, ResumeSession, Command, CmdKinds, Terminal

LEMMA KeysKeep ==
  ASSUME IInv,
         \/ HandlePromptExec \/ HandleCommand \/ HandlePreviewCommand
         \/ HandleModelCommand \/ HandleResumeCommand \/ LeaveView
         \/ ResumeSelectedSession \/ HandleInterrupt
  PROVE  IInv'
  <1>1. ASSUME NEW kind \in CmdKinds \ {"Decision", "ResumeSession"},
               Send(Cmd(kind))
        PROVE  \E cmd \in Command(sessions) :
                 /\ Send(cmd)
                 /\ cmd.kind # "Decision"
                 /\ cmd.kind = "ResumeSession" => cmd.id \in 1 .. sessions
    BY <1>1, Plainly
  <1>2. ASSUME NEW s \in 1 .. sessions, Send(ResumeSession(s))
        PROVE  \E cmd \in Command(sessions) :
                 /\ Send(cmd)
                 /\ cmd.kind # "Decision"
                 /\ cmd.kind = "ResumeSession" => cmd.id \in 1 .. sessions
    BY <1>2, Plainly
  <1>3. /\ Queries \cup {"Execute", "Break", "Clear", "ListModels",
                        "ListSessions"}
             \subseteq CmdKinds \ {"Decision", "ResumeSession"}
        /\ "Preview" \in Queries
    BY DEF CmdKinds, Queries
  <1>4. CASE HandlePromptExec \/ HandlePreviewCommand
    <2>1. Key
      BY <1>1, <1>3, <1>4, Plainly
      DEF HandlePromptExec, HandlePreviewCommand, Keyed, Input, Key
    <2> QED BY <2>1, KeyKeeps
  <1>5. CASE HandleCommand
    <2>1. Key
      BY <1>1, <1>3, <1>5, Plainly DEF HandleCommand, Keyed, Input, Key
    <2> QED BY <2>1, KeyKeeps
  <1>6. CASE HandleModelCommand
    <2>1. PICK awaited \in {TRUE, t.awaited} :
            t' = [t EXCEPT !.awaited = awaited]
      BY <1>6 DEF HandleModelCommand, Keyed
    <2>2. t' \in Terminal /\ t'.turn = t.turn BY <2>1, Plainly DEF Terminal
    <2>3. Key
      BY <1>1, <1>3, <1>6, <2>2 DEF HandleModelCommand, Keyed, Input, Key
    <2> QED BY <2>3, KeyKeeps
  <1>7. CASE HandleResumeCommand
    <2>1. Key
      BY <1>1, <1>2, <1>3, <1>7, Plainly
      DEF HandleResumeCommand, Keyed, Input, Key
    <2> QED BY <2>1, KeyKeeps
  <1>8. CASE LeaveView \/ ResumeSelectedSession
    <2>1. Key
      BY <1>2, <1>8, Plainly
      DEF LeaveView, ResumeSelectedSession, ShowConsole, Keyed, Input, Key
    <2> QED BY <2>1, KeyKeeps
  <1>9. CASE HandleInterrupt
    <2>1. Key
      BY <1>1, <1>3, <1>9, Plainly DEF HandleInterrupt, Keyed, Input, Key
    <2> QED BY <2>1, KeyKeeps
  <1> QED BY <1>4, <1>5, <1>6, <1>7, <1>8, <1>9

LEMMA DecideKeeps ==
  ASSUME IInv, Decide
  PROVE  IInv'
  <1>1. PICK c : c = t.turn.id OBVIOUS
  <1>2. PICK option \in ApprovalOptions(c) :
          /\ Send(Decision(c, option))
          /\ approved' = IF option = "Reject" THEN approved
                         ELSE approved \cup {c}
          /\ grants' = IF option # "ApproveAlwaysForSession" THEN grants
                       ELSE grants \cup (Covers(c) \X {w.session})
    BY <1>1 DEF Decide
  <1>3. UNCHANGED <<w, t, msgs, exit, r, executed, lost, answer, held, left,
                    sessions>>
    BY DEF Decide
  <1>4. c \in r.used \cup {0} /\ c \in Calls \cup {0}
    <2>1. t \in Terminal /\ t.turn.kind = "Approval"
      BY DEF Decide, IInv, Typing
    <2> QED BY <1>1, <2>1 DEF IInv, Approval, Prompted, Terminal
  <1>5. PICK d : d = Decision(c, option) OBVIOUS
  <1>6. option \in Options BY DEF ApprovalOptions, Options
  <1>7. /\ d \in Command(sessions) /\ d.kind = "Decision"
        /\ d.id = c /\ d.option = option
    <2>1. sessions \in Nat BY DEF IInv, Typing
    <2> QED BY <1>4, <1>5, <1>6, <2>1 DEF Decision, Command, CmdKinds
  <1>8. /\ cmds' \in Seq(Command(sessions)) /\ Len(cmds') <= CmdCap + 1
        /\ \A i \in DOMAIN cmds' :
             \/ i \in DOMAIN cmds /\ cmds'[i] = cmds[i]
             \/ cmds'[i] = d
    BY <1>2, <1>5, <1>7, SendsMore
  <1>9. approved \subseteq approved' /\ grants \subseteq grants' BY <1>2
  <1>10. Typing' BY <1>3, <1>7, <1>8 DEF IInv, Typing
  <1>11. Execution' BY <1>3, SameExecution
  <1>12. NoSession' /\ Accepted' /\ Prompted'
    BY <1>3, <1>9
    DEF IInv, Approval, NoSession, Accepted, Granted, Prompted
  <1>13. Decided'
    <2>1. ASSUME NEW e, Backed(e) PROVE Backed(e)'
      BY <1>3, <1>9, <2>1 DEF Backed, Granted
    <2>2. Backed(d)'
      <3>1. option # "Reject" => c \in approved' BY <1>2
      <3>2. option = "ApproveAlwaysForSession" =>
              \A what \in Covers(c) : <<what, w.session>> \in grants'
        BY <1>2
      <3> QED BY <1>3, <1>4, <1>7, <3>1, <3>2 DEF Backed, Granted
    <2>3. ASSUME NEW i \in DOMAIN cmds', cmds'[i].kind = "Decision"
          PROVE  Backed(cmds[i])'
      <3>1. CASE i \in DOMAIN cmds /\ cmds'[i] = cmds[i]
        <4>1. PICK e : e = cmds[i] OBVIOUS
        <4>2. Backed(e)'
          BY <2>1, <2>3, <3>1, <4>1 DEF IInv, Approval, Decided
        <4> QED BY <3>1, <4>1, <4>2
      <3>2. CASE cmds'[i] = d BY <2>2, <3>2
      <3> QED BY <1>8, <3>1, <3>2
    <2> QED BY <2>3 DEF Decided
  <1> QED BY <1>10, <1>11, <1>12, <1>13 DEF IInv, Approval

\* A message leaves a terminal behind that shows an approval only when it was
\* a prompt.
LEMMA Applied ==
  ASSUME IInv, NEW m \in Message,
         m.kind = "ApprovalPrompt" => m.id \in r.used \cup {0}
  PROVE  /\ ApplyMsg(t, m) \in Terminal
         /\ ApplyMsg(t, m).turn.kind = "Approval" =>
              ApplyMsg(t, m).turn.id \in r.used \cup {0}
  <1>1. t \in Terminal /\ (t.turn.kind = "Approval" => t.turn.id \in r.used \cup {0})
    BY DEF IInv, Typing, Approval, Prompted
  <1>2. m.id \in Calls \cup {0} /\ m.kind \in MsgKinds BY DEF Message
  <1> DEFINE Turn(kind) == [t EXCEPT !.turn = [kind |-> kind, id |-> m.id]]
  <1>3. ASSUME NEW kind \in {"None", "Streaming", "ToolCall", "Approval"}
        PROVE  /\ Turn(kind) \in Terminal
               /\ Turn(kind).turn.kind = kind /\ Turn(kind).turn.id = m.id
               /\ \A router \in {"Idle", "Thinking", "Interrupted"} :
                    /\ [Turn(kind) EXCEPT !.router = router] \in Terminal
                    /\ [Turn(kind) EXCEPT !.router = router].turn.kind = kind
               /\ ShowConsole(Turn(kind)) \in Terminal
               /\ ShowConsole(Turn(kind)).turn.kind = kind
    BY <1>1, <1>2 DEF Terminal, ShowConsole
  <1>4. /\ \A component \in {"Console", "Sessions", "View"} :
             /\ [t EXCEPT !.component = component] \in Terminal
             /\ [t EXCEPT !.component = component].turn = t.turn
        /\ [t EXCEPT !.awaited = FALSE] \in Terminal
        /\ [t EXCEPT !.awaited = FALSE].turn = t.turn
        /\ [t EXCEPT !.router = "Thinking"] \in Terminal
        /\ [t EXCEPT !.router = "Thinking"].turn = t.turn
    BY <1>1 DEF Terminal
  <1>5. CASE m.kind = "ApprovalPrompt"
    <2>1. ApplyMsg(t, m) = Turn("Approval")
      BY <1>5 DEF ApplyMsg, ShowApproval
    <2> HIDE DEF Turn
    <2> QED BY <1>3, <1>5, <2>1
  <1>6. CASE m.kind # "ApprovalPrompt"
    <2>1. \/ \E kind \in {"None", "Streaming", "ToolCall"} :
               \/ ApplyMsg(t, m) = Turn(kind)
               \/ ApplyMsg(t, m) = ShowConsole(Turn(kind))
               \/ \E router \in {"Idle", "Interrupted"} :
                    ApplyMsg(t, m) = [Turn(kind) EXCEPT !.router = router]
          \/ ApplyMsg(t, m) = t
          \/ ApplyMsg(t, m) = [t EXCEPT !.awaited = FALSE]
          \/ ApplyMsg(t, m) = [t EXCEPT !.router = "Thinking"]
          \/ \E component \in {"Sessions", "View"} :
               ApplyMsg(t, m) = [t EXCEPT !.component = component]
      BY <1>2, <1>6 DEF ApplyMsg, MsgKinds
    <2> HIDE DEF Turn
    <2>2. CASE \E kind \in {"None", "Streaming", "ToolCall"} :
                 \/ ApplyMsg(t, m) = Turn(kind)
                 \/ ApplyMsg(t, m) = ShowConsole(Turn(kind))
                 \/ \E router \in {"Idle", "Interrupted"} :
                      ApplyMsg(t, m) = [Turn(kind) EXCEPT !.router = router]
      <3>1. PICK kind \in {"None", "Streaming", "ToolCall"} :
              \/ ApplyMsg(t, m) = Turn(kind)
              \/ ApplyMsg(t, m) = ShowConsole(Turn(kind))
              \/ \E router \in {"Idle", "Interrupted"} :
                   ApplyMsg(t, m) = [Turn(kind) EXCEPT !.router = router]
        BY <2>2
      <3>2. /\ Turn(kind) \in Terminal /\ Turn(kind).turn.kind = kind
            /\ \A router \in {"Idle", "Thinking", "Interrupted"} :
                 /\ [Turn(kind) EXCEPT !.router = router] \in Terminal
                 /\ [Turn(kind) EXCEPT !.router = router].turn.kind = kind
            /\ ShowConsole(Turn(kind)) \in Terminal
            /\ ShowConsole(Turn(kind)).turn.kind = kind
        BY <1>3
      <3>3. ApplyMsg(t, m) \in Terminal /\ ApplyMsg(t, m).turn.kind = kind
        BY <3>1, <3>2
      <3> QED BY <3>3
    <2>3. CASE ApplyMsg(t, m) \in {t, [t EXCEPT !.awaited = FALSE],
                                    [t EXCEPT !.router = "Thinking"]}
      BY <1>1, <1>4, <2>3
    <2>4. CASE \E component \in {"Sessions", "View"} :
                 ApplyMsg(t, m) = [t EXCEPT !.component = component]
      BY <1>1, <1>4, <2>4
    <2> QED BY <2>1, <2>2, <2>3, <2>4
  <1> QED BY <1>5, <1>6

LEMMA HandleClientMsgKeeps ==
  ASSUME IInv, HandleClientMsg
  PROVE  IInv'
  <1>1. /\ t' = ApplyMsg(t, Head(msgs)) /\ msgs # <<>> /\ msgs' = Tail(msgs)
        /\ UNCHANGED <<w, cmds, exit, r, history, sessions>>
    BY DEF HandleClientMsg, bounds
  <1>2. msgs \in Seq(Message) BY DEF IInv, Typing
  <1>3. /\ Head(msgs) \in Message /\ Head(msgs) = msgs[1] /\ 1 \in DOMAIN msgs
        /\ msgs' \in Seq(Message)
        /\ \A i \in DOMAIN msgs' :
             i + 1 \in DOMAIN msgs /\ msgs'[i] = msgs[i + 1]
    BY <1>1, <1>2, RestOf
  <1>4. PICK m \in Message : m = Head(msgs) BY <1>3
  <1>5. m.kind = "ApprovalPrompt" => m.id \in r.used \cup {0}
    BY <1>3, <1>4 DEF IInv, Approval, Prompted, About
  <1>6. /\ t' \in Terminal
        /\ t'.turn.kind = "Approval" => t'.turn.id \in r.used \cup {0}
    BY <1>1, <1>4, <1>5, Applied
  <1>7. Typing' BY <1>1, <1>3, <1>6 DEF IInv, Typing, history
  <1>8. Execution' BY <1>1, SameExecution DEF history
  <1>9. Prompted'
    BY <1>1, <1>3, <1>6 DEF IInv, Approval, Prompted, About
  <1>10. NoSession' /\ Accepted'
    BY <1>1 DEF IInv, Approval, NoSession, Accepted, Granted, history
  <1>11. Decided'
    <2>1. ASSUME NEW d, Backed(d) PROVE Backed(d)'
      BY <1>1, <2>1 DEF Backed, Granted, history
    <2> QED BY <1>1, <2>1, StillDecided
  <1> QED BY <1>7, <1>8, <1>9, <1>10, <1>11 DEF IInv, Approval

\* The end of the loop closes the terminal and leaves all else.
LEMMA LoopEndsKeeps ==
  ASSUME IInv, LoopEnds
  PROVE  IInv'
  <1>1. t' \in Terminal /\ t'.turn = t.turn
    BY Plainly DEF LoopEnds, Terminal
  <1>2. Key BY <1>1 DEF LoopEnds, Key, bounds
  <1> QED BY <1>2, KeyKeeps

-----------------------------------------------------------------------------
(* The theorems.                                                           *)

LEMMA StutterKeeps ==
  ASSUME IInv, UNCHANGED vars
  PROVE  IInv'
  <1>1. Key BY Plainly DEF Key, vars, history
  <1> QED BY <1>1, KeyKeeps

LEMMA NextKeeps ==
  ASSUME IInv, [Next]_vars
  PROVE  IInv'
  <1>1. CASE User BY <1>1, KeysKeep, DecideKeeps DEF User
  <1>2. CASE RunLoop BY <1>2, HandleClientMsgKeeps, LoopEndsKeeps DEF RunLoop
  <1>3. CASE Router
    BY <1>3, RouterAsksKeeps, RouterEndsCalm, CalmKeeps DEF Router
  <1>4. CASE TurnStream
    BY <1>4, CalmKeeps, StreamDeltaCalm, StreamBreaksCalm,
      ToolCallStartedCalm, ToolCallRequestedKeeps, HandleAwaitingToolKeeps,
      HandleAwaitingApprovalCalm, CryptoCalm, HandleCompletedCalm, TurnOverCalm
    DEF TurnStream
  <1>5. CASE Commands
    BY <1>5, CalmKeeps, ExecuteKeeps, ExecuteOpensCalm, QueriesCalm,
      ClearSessionKeeps, ResumeKeeps, DecideToolKeeps, DecideApprovalCalm,
      BreakCalm, IgnoreCalm
    DEF Commands
  <1>6. CASE WorkerExits \/ SignedOut
    BY <1>6, CalmKeeps, WorkerExitsCalm, SignedOutCalm
  <1>7. CASE UNCHANGED vars BY <1>7, StutterKeeps
  <1> QED BY <1>1, <1>2, <1>3, <1>4, <1>5, <1>6, <1>7 DEF Next, Worker

LEMMA InitHolds == Init => IInv
  <1> SUFFICES ASSUME Init PROVE IInv
    OBVIOUS
  <1>1. /\ AutoApply \in BOOLEAN /\ CmdCap \in Nat \ {0}
    BY BoundsAssumption
  <1>2. w \in Client(sessions)
    <2>1. sessions \in Nat BY DEF Init
    <2>2. w = NewRouterClient BY DEF Init
    <2> QED BY <1>1, <2>1, <2>2 DEF NewRouterClient, Client
  <1>3. t \in Terminal BY DEF Init, NoTurn, Terminal
  <1>4. r \in Run
    <2>1. <<>> \in Seq(Event) OBVIOUS
    <2> QED BY <2>1 DEF Init, NoRun, Run
  <1>5. /\ cmds \in Seq(Command(sessions)) /\ Len(cmds) <= CmdCap + 1
        /\ \A i \in DOMAIN cmds : cmds[i].kind = "Execute"
    <2>1. /\ Cmd("Execute") \in Command(sessions)
          /\ Cmd("Execute").kind = "Execute"
      BY DEF Init, Cmd, Command, CmdKinds
    <2>2. CASE cmds = <<>> BY <1>1, <2>2
    <2>3. CASE cmds = <<Cmd("Execute")>> BY <1>1, <2>1, <2>3
    <2> QED BY <2>2, <2>3 DEF Init
  <1>6. msgs \in Seq(Message) /\ DOMAIN msgs = {} BY DEF Init
  <1>7. Typing
    <2>1. executed \in [Calls -> Nat] BY DEF Init
    <2>2. sessions \in Nat \ {0} BY DEF Init
    <2>3. exit = FALSE /\ held = FALSE /\ left = FALSE /\ lost = {} BY DEF Init
    <2> QED BY <1>2, <1>3, <1>4, <1>5, <1>6, <2>1, <2>2, <2>3 DEF Typing
  <1>8. Execution
    BY DEF Init, Execution, Used, Fed, Once, ExecutedOnce, SealsHeld,
      AnswersFit, NoRun, NewRouterClient, NoAnswer
  <1>9. Approval
    BY <1>1, <1>5, <1>6
    DEF Init, Approval, NoSession, Accepted, Decided, Prompted, About, NoRun,
      NewRouterClient, NoTurn
  <1> QED BY <1>7, <1>8, <1>9 DEF IInv

LEMMA Invariance == Spec => []IInv
  <1>1. IInv /\ [Next]_vars => IInv' BY NextKeeps
  <1> QED BY InitHolds, <1>1, PTL DEF Spec

\* The worker, the terminal and the channels have their types, and no more
\* commands wait than the channel holds.
THEOREM ClientTypeCorrect == Spec => []TypeOK
  <1>1. IInv => TypeOK
    BY DEF IInv, Typing, TypeOK, Client, Terminal, Command, Message
  <1> QED BY <1>1, Invariance, PTL

\* No call is run twice, however its request is repeated, decided or left
\* over, as long as its result could be sealed (handle_tool_call_requested,
\* tool_approval_request).
THEOREM RunOnce == Spec => []ExecutedOnce
  <1>1. IInv => ExecutedOnce BY DEF IInv, Execution, Once
  <1> QED BY <1>1, Invariance, PTL

\* What the worker posts by itself, or for a lone call, answers the pause and
\* carries its seals (handle_awaiting_tool, tool_approval_request).
THEOREM AnswersAreWhole == Spec => []AnswersFit
  <1>1. IInv => AnswersFit BY DEF IInv, Execution
  <1> QED BY <1>1, Invariance, PTL

\* A call the worker runs without asking is covered by what was accepted.
LEMMA RunNowCovered ==
  ASSUME IInv, NEW calls \in SUBSET r.asks, NEW c \in RunNow(calls),
         Needs[c] = "Ask"
  PROVE  \/ \E what \in Covers(c) : <<what, w.session>> \in grants
         \/ AutoApply /\ ToolChangesFiles(c)
         \/ held
  <1>1. \/ w.edits /\ ToolChangesFiles(c)
        \/ w.reads /\ ReadsFile(c)
        \/ Aliases(c) \cap w.aliases # {}
    BY DEF RunNow, ToolCallDecision
  <1>2. ToolChangesFiles(c) => Edits \in Covers(c)
    BY DEF Covers
  <1>3. ReadsFile(c) => Reads \in Covers(c) BY DEF Covers
  <1>4. Aliases(c) \subseteq Covers(c) BY DEF Covers
  <1> QED
    BY <1>1, <1>2, <1>3, <1>4 DEF IInv, Approval, Accepted, Granted

LEMMA ApprovedStep ==
  ASSUME IInv, [Next]_vars, NEW c \in Calls,
         executed'[c] > executed[c], Needs[c] = "Ask"
  PROVE  \/ c \in approved
         \/ \E what \in Covers(c) : <<what, w.session>> \in grants
         \/ AutoApply /\ ToolChangesFiles(c)
         \/ held
  <1>1. executed \in [Calls -> Nat] BY DEF IInv, Typing
  <1>2. executed' # executed BY <1>1
  <1>3. ~Calm BY <1>2 DEF Calm
  <1>4. ~(User \/ RunLoop \/ RouterAsks \/ Execute \/ ClearSession \/ Resume)
    BY <1>2
    DEF User, HandlePromptExec, HandleCommand, HandlePreviewCommand,
      HandleModelCommand, HandleResumeCommand, LeaveView,
      ResumeSelectedSession, Decide, HandleInterrupt, Keyed, RunLoop,
      HandleClientMsg, LoopEnds, RouterAsks, Execute, ClearSession, Resume,
      history
  <1>5. ToolCallRequested \/ HandleAwaitingTool \/ DecideTool
    <2>1. Next
      BY <1>2 DEF vars
    <2>2. ~RouterEnds BY <1>3, RouterEndsCalm
    <2>3. TurnStream => ToolCallRequested \/ HandleAwaitingTool
      BY <1>3, StreamDeltaCalm, StreamBreaksCalm, ToolCallStartedCalm,
        HandleAwaitingApprovalCalm, CryptoCalm, HandleCompletedCalm,
        TurnOverCalm
      DEF TurnStream
    <2>4. Commands => DecideTool
      BY <1>3, <1>4, ExecuteOpensCalm, QueriesCalm, DecideApprovalCalm,
        BreakCalm, IgnoreCalm
      DEF Commands
    <2>5. ~WorkerExits /\ ~SignedOut BY <1>3, WorkerExitsCalm, SignedOutCalm
    <2> QED BY <1>4, <2>1, <2>2, <2>3, <2>4, <2>5 DEF Next, Router, Worker
  <1>6. CASE ToolCallRequested
    <2>1. TakeEvent("ToolCallRequested") BY <1>6 DEF ToolCallRequested
    <2>2. PICK calls : calls = {Head(r.feed).id} OBVIOUS
    <2>3. calls \subseteq r.asks
      BY <2>1, <2>2, Taking DEF TakeEvent, IInv, Execution, Fed
    <2>4. Ran(RunNow(calls)) BY <1>6, <2>2 DEF ToolCallRequested
    <2>5. c \in RunNow(calls) BY <1>1, <2>4 DEF Ran
    <2> QED BY <2>3, <2>5, RunNowCovered
  <1>7. CASE HandleAwaitingTool
    <2>1. Ran(RunNow(r.asks)) BY <1>7 DEF HandleAwaitingTool
    <2>2. c \in RunNow(r.asks) BY <1>1, <2>1 DEF Ran
    <2> QED BY <2>2, RunNowCovered
  <1>8. CASE DecideTool
    <2>1. PICK k, option : k = Head(cmds).id /\ option = Head(cmds).option
      OBVIOUS
    <2>2. Receive("Decision") BY <1>8 DEF DecideTool
    <2>3. /\ k \in w.requests
          /\ Ran(IF option = "Reject" THEN {} ELSE {k})
      BY <1>2, <1>8, <2>1 DEF DecideTool
    <2>4. option # "Reject" /\ c = k BY <1>1, <2>3 DEF Ran
    <2> QED BY <2>1, <2>2, <2>3, <2>4, DecisionBacked
  <1> QED BY <1>5, <1>6, <1>7, <1>8

\* A call that needs approval is run only if it was approved, or covered by
\* what was accepted in this session (tool_call_decision, reset_session_state).
THEOREM OnlyApprovedIsRun == Spec => ApprovedOnly
  <1>1. IInv /\ [Next]_vars =>
          [\A c \in Calls :
             executed'[c] > executed[c] /\ Needs[c] = "Ask" =>
               \/ c \in approved
               \/ \E what \in Covers(c) : <<what, w.session>> \in grants
               \/ AutoApply /\ ToolChangesFiles(c)
               \/ held]_vars
    BY ApprovedStep
  <1> QED BY <1>1, Invariance, PTL DEF Spec, ApprovedOnly

=============================================================================
