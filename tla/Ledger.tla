------------------------------- MODULE Ledger -------------------------------
(***************************************************************************)
(* The execution trace of a session and what is computed from it: the      *)
(* events the turns of the router append (smista-router: trace.rs,         *)
(* orchestrator/trace_emit.rs), the prices of invocations (cost.rs and the *)
(* agent's Pricing), the usage report (usage.rs) and the paged reading of  *)
(* the trace.                                                              *)
(*                                                                         *)
(* Turns are the serving of one request each with the continuations of its *)
(* run. Every append of an event may fail without failing the turn; a turn *)
(* that was superseded goes on until it reaches the model call, so that    *)
(* two turns may write at the same time, while reports are read and the    *)
(* retention sweep deletes old events. How runs are locked is RunLock's    *)
(* subject, what pauses store RunContent's.                                *)
(***************************************************************************)
EXTENDS Integers, Sequences, FiniteSets, SequencesExt

CONSTANTS
    TurnIds,        \* served runs of the session
    PlanTurns,      \* the ones of them that begin in plan mode
    Models,         \* models of the catalogue
    Routes,         \* what a resolve may choose: [task, model]
    Rates,          \* per model: [input, output] prices, Absent if not declared
    Usages,         \* per model: the counts a call may report: [input, output], 0 if not reported
    Encrypted,      \* whether the session is end-to-end encrypted
    SharedOrchestrator, \* whether one Orchestrator serves all requests; the web handlers build one each
    Absent,         \* an absent value
    PageLimit,      \* events per page of the trace
    MaxInvocations, \* per turn: its model calls
    Sweeps,         \* how many of the oldest events a sweep may find past the cutoff
    MaxReads,       \* paged readings of the trace
    MaxExtras       \* failures and retention sweeps, together

ASSUME LedgerAssumption ==
    /\ Rates \in [Models -> [input : Nat \cup {Absent}, output : Nat \cup {Absent}]]
    /\ Usages \in [Models -> SUBSET [input : Nat, output : Nat]]
    /\ PlanTurns \subseteq TurnIds /\ {Encrypted, SharedOrchestrator} \subseteq BOOLEAN
    /\ PageLimit \in Nat \ {0}
    /\ \A r \in Routes : r = [task |-> r.task, model |-> r.model] /\ r.model \in Models
    /\ Sweeps \subseteq Nat \ {0}
    /\ MaxInvocations \in [TurnIds -> Nat] /\ {MaxReads, MaxExtras} \subseteq Nat
    /\ Absent \notin Nat \cup [input : Nat, output : Nat, cost : Nat \cup {Absent}]

VARIABLES
    events,     \* trace_event rows with their content, by created_at
    decisions,  \* session_routing_decision rows, oldest first
    writing,    \* per turn: the rows it has still to write, the first one under way
    pc,         \* where each turn is
    route,      \* the route its last resolve chose: [task, model]
    said,       \* whether its user message is recorded
    plan,       \* whether its run is in plan mode
    superseded, \* whether a later request took the run over
    returned,   \* the model that answered its last call and the usage it reported
    calls,      \* its model calls that were answered
    sealing,    \* trace rows its client was asked to seal
    pages,      \* the paged reading of the trace: [offset, seen, begun]
    lost,       \* turns whose cost event could not be written
    fails, purges, reads,
    next        \* the clock: the last created_at that was drawn

turnVars == <<pc, route, said, plan, superseded, returned, calls, sealing>>
ledgerVars == <<events, decisions, writing, turnVars, pages, lost, fails, purges, reads, next>>

Kinds == {"resolution", "message", "tool_call", "approval", "cost"}

-----------------------------------------------------------------------------
(* Prices. A side is priced when its rate and its token count are known.   *)

Reported(tokens) == IF tokens = 0 THEN Absent ELSE tokens

Side(tokens, rate) == IF tokens = Absent \/ rate = Absent THEN Absent ELSE tokens * rate

(* Pricing::actual_cost of the agent, with the prices of the model that    *)
(* answered.                                                               *)
ActualCost(input, output, rates) ==
    LET i == Side(input, rates.input)
        o == Side(output, rates.output)
    IN  IF i = Absent /\ o = Absent THEN Absent
        ELSE (IF i = Absent THEN 0 ELSE i) + (IF o = Absent THEN 0 ELSE o)

(* api_usage: a count of zero is one the provider did not report.          *)
ApiUsage(u, served) ==
    LET i == Reported(u.input)
        o == Reported(u.output)
    IN  [input |-> i, output |-> o, cost |-> ActualCost(i, o, Rates[served])]

(* priced: priced again with the rates of the model that was resolved, if  *)
(* everything is known.                                                    *)
Priced(usage, model) ==
    IF Absent \in {Rates[model].input, Rates[model].output, usage.input, usage.output}
    THEN usage
    ELSE [usage EXCEPT !.cost = usage.input * Rates[model].input + usage.output * Rates[model].output]

-----------------------------------------------------------------------------
(* The usage report                                                        *)

EmptyTally == [input |-> 0, output |-> 0, cost |-> Absent, has |-> FALSE, requests |-> 0]

AddReadable(tally, payload) ==
    IF payload = Absent THEN tally
    ELSE [input |-> tally.input + payload.input, output |-> tally.output + payload.output,
          cost |-> IF payload.cost = Absent THEN tally.cost
                   ELSE (IF tally.cost = Absent THEN 0 ELSE tally.cost) + payload.cost,
          has |-> TRUE, requests |-> tally.requests + 1]

(* UsageTally::add: a sealed payload, Absent, only counts as a request.    *)
Add(tally, payload) ==
    IF payload = Absent THEN [tally EXCEPT !.requests = @ + 1]
    ELSE [input |-> tally.input + payload.input, output |-> tally.output + payload.output,
          cost |-> IF payload.cost = Absent THEN tally.cost
                   ELSE (IF tally.cost = Absent THEN 0 ELSE tally.cost) + payload.cost,
          has |-> TRUE, requests |-> tally.requests + 1]

(* One bucket of a breakdown: the entry that matches, or a new one.        *)
AddTo(buckets, key, payload) ==
    IF key \in DOMAIN buckets
    THEN [buckets EXCEPT ![key] = Add(@, payload)]
    ELSE [k \in DOMAIN buckets \cup {key} |-> IF k = key THEN Add(EmptyTally, payload) ELSE buckets[k]]

NoBuckets == [k \in {} |-> EmptyTally]

(* cost_payload                                                            *)
CostPayload(e) == IF e.clear THEN e.payload ELSE Absent

(* aggregate                                                               *)
Aggregate(costs) ==
    LET Fold(acc, e) ==
          [total |-> Add(acc.total, CostPayload(e)),
           by_model |-> AddTo(acc.by_model, e.model, CostPayload(e)),
           by_task |-> AddTo(acc.by_task, e.task, CostPayload(e))]
    IN  FoldLeft(Fold, [total |-> EmptyTally, by_model |-> NoBuckets, by_task |-> NoBuckets], costs)

(* into_usage                                                              *)
IntoUsage(tally) ==
    [input |-> IF tally.has THEN tally.input ELSE Absent,
     output |-> IF tally.has THEN tally.output ELSE Absent,
     cost |-> tally.cost]

-----------------------------------------------------------------------------
(* A row's content: only a cost event's payload is read again. A row is    *)
(* stored in clear; its id is its created_at, 0 as long as it has none.    *)
Event(t, kind, ctx, payload) ==
    [id |-> 0, clear |-> TRUE, turn |-> t, kind |-> kind, task |-> ctx.task, model |-> ctx.model,
     payload |-> payload]

NoPages == [offset |-> 0, seen |-> <<>>, begun |-> {}]
NoRoute == [task |-> Absent, model |-> Absent]
NoAnswer == [model |-> Absent, usage |-> Absent]
Answered == UNION {[model : {m}, usage : Usages[m]] : m \in Models}

Ids(rows) == {rows[i].id : i \in DOMAIN rows}

\* A turn is served, or its run waits for the client, or it has ended.
Served == {"resolve", "resolved", "invoke", "answered", "planned", "asked", "completed"}
Stages == Served \cup {"new", "tools", "approval", "seal", "done", "ended"}

LedgerTypeOK ==
    /\ \A i \in DOMAIN events : events[i].kind \in Kinds /\ events[i].turn \in TurnIds
    /\ \A i, j \in DOMAIN events : i < j => events[i].id < events[j].id
    /\ \A i \in DOMAIN decisions : decisions[i].route \in Routes
    /\ pc \in [TurnIds -> Stages]
    /\ route \in [TurnIds -> Routes \cup {NoRoute}]
    /\ said \in [TurnIds -> BOOLEAN] /\ plan \in [TurnIds -> BOOLEAN]
    /\ superseded \in [TurnIds -> BOOLEAN]
    /\ returned \in [TurnIds -> Answered \cup {NoAnswer}]
    /\ \A t \in TurnIds : sealing[t] \subseteq 1 .. next
    /\ {fails, purges} \subseteq 0 .. MaxExtras /\ reads \in 0 .. MaxReads

LedgerInit ==
    /\ events = <<>> /\ decisions = <<>>
    /\ writing = [t \in TurnIds |-> <<>>]
    /\ pc = [t \in TurnIds |-> "new"]
    /\ route = [t \in TurnIds |-> NoRoute]
    /\ said = [t \in TurnIds |-> FALSE]
    /\ plan = [t \in TurnIds |-> t \in PlanTurns]
    /\ superseded = [t \in TurnIds |-> FALSE]
    /\ returned = [t \in TurnIds |-> NoAnswer]
    /\ calls = [t \in TurnIds |-> 0]
    /\ sealing = [t \in TurnIds |-> {}]
    /\ pages = NoPages
    /\ lost = {}
    /\ fails = 0 /\ purges = 0 /\ reads = 0 /\ next = 0

Extra == fails + purges < MaxExtras
Goto(t, l) == pc' = [pc EXCEPT ![t] = l]
readVars == <<pages, reads>>

-----------------------------------------------------------------------------
(* Writing the trace: a turn writes its rows one after the other, and      *)
(* draws the created_at of a row before the write of it begins.            *)

Stage(t, rows) ==
    /\ writing' = [writing EXCEPT ![t] =
                     IF rows = <<>> THEN rows ELSE [rows EXCEPT ![1].id = next + 1]]
    /\ next' = IF rows = <<>> THEN next ELSE next + 1

(* append_trace_event: rows are read by created_at, so that the row takes  *)
(* its place there, behind k others.                                       *)
Insert(t, k) ==
    /\ writing[t] # <<>>
    /\ \A i \in DOMAIN events : events[i].id < Head(writing[t]).id <=> i <= k
    /\ events' = SubSeq(events, 1, k) \o <<Head(writing[t])>> \o SubSeq(events, k + 1, Len(events))
    /\ Stage(t, Tail(writing[t]))
    /\ UNCHANGED <<decisions, turnVars, readVars, lost, fails, purges>>

LostWith(t, rows) ==
    IF \E i \in DOMAIN rows : rows[i].kind = "cost" THEN lost \cup {t} ELSE lost

(* A write that fails is logged and the turn goes on.                      *)
InsertFails(t) ==
    /\ writing[t] # <<>> /\ Extra
    /\ fails' = fails + 1
    /\ lost' = LostWith(t, <<Head(writing[t])>>)
    /\ Stage(t, Tail(writing[t]))
    /\ UNCHANGED <<events, decisions, turnVars, readVars, purges>>

(* TraceEventPayload: the envelope takes the place of the clear payload.   *)
Sealed(e) == [e EXCEPT !.clear = FALSE]

-----------------------------------------------------------------------------
(* A turn                                                                  *)

At(t, l) == pc[t] = l /\ writing[t] = <<>>
unwritten == <<events, lost, fails, purges, readVars>>
NoRecord == UNCHANGED <<unwritten, writing, next>>

(* A request is served. It takes over from the turns that have not ended.  *)
Begin(t) ==
    /\ pc[t] = "new"
    /\ Goto(t, "resolve")
    /\ superseded' = [u \in TurnIds |-> superseded[u] \/ pc[u] \notin {"new", "done", "ended"}]
    /\ NoRecord
    /\ UNCHANGED <<decisions, route, said, plan, returned, calls, sealing>>

(* context_of and record_resolution: what the resolve decided (the rows of *)
(* the classification, the routing decision and the context selection      *)
(* count as one).                                                          *)
RecordResolution(t, r) == <<Event(t, "resolution", r, Absent)>>

Resolve(t, r) ==
    /\ At(t, "resolve")
    /\ route' = [route EXCEPT ![t] = r]
    /\ decisions' = Append(decisions, [turn |-> t, route |-> r])
    /\ Stage(t, RecordResolution(t, r))
    /\ Goto(t, "resolved")
    /\ UNCHANGED <<said, plan, superseded, returned, calls, sealing, unwritten>>

(* The user message is stored and recorded once, before the model call.    *)
RecordUser(t) == IF said[t] THEN <<>> ELSE <<Event(t, "message", route[t], Absent)>>

UserMessage(t) ==
    /\ At(t, "resolved")
    /\ Stage(t, RecordUser(t))
    /\ said' = [said EXCEPT ![t] = TRUE]
    /\ Goto(t, "invoke")
    /\ UNCHANGED <<decisions, route, plan, superseded, returned, calls, sealing, unwritten>>

(* The model answers, the resolved one or a fallback of it: with text,     *)
(* which is the plan of a planning turn, with calls for the client, or     *)
(* with calls that are all refused, of which nothing is recorded. A        *)
(* request that was superseded is not stopped, unless one Orchestrator     *)
(* serves them all.                                                        *)
Outcomes(t) == {IF plan[t] THEN "planned" ELSE "answered", "asked", "resolve"}

Returns(t, served, u, l) ==
    /\ At(t, "invoke") /\ calls[t] < MaxInvocations[t]
    /\ ~(SharedOrchestrator /\ superseded[t])
    /\ l \in Outcomes(t)
    /\ calls' = [calls EXCEPT ![t] = @ + 1]
    /\ returned' = [returned EXCEPT ![t] = [model |-> served, usage |-> u]]
    /\ Goto(t, l)
    /\ NoRecord
    /\ UNCHANGED <<decisions, route, said, plan, superseded, sealing>>

(* record_cost_event: a count that was not reported becomes zero.          *)
CostEvent(t, usage) ==
    Event(t, "cost", route[t],
          [input |-> IF usage.input = Absent THEN 0 ELSE usage.input,
           output |-> IF usage.output = Absent THEN 0 ELSE usage.output,
           cost |-> usage.cost])

CompletedEventsEach(t, usage) ==
    <<CostEvent(t, usage), Event(t, "message", route[t], Absent), CostEvent(t, usage)>>

(* A completed turn records its message and its cost, a pause for tools    *)
(* its message and its calls, each after the message is stored; a pause    *)
(* for a plan records nothing.                                             *)
CompletedEvents(t, usage) == <<Event(t, "message", route[t], Absent), CostEvent(t, usage)>>
RequestEvents(t) == <<Event(t, "message", route[t], Absent), Event(t, "tool_call", route[t], Absent)>>

Completes(t) ==
    LET a == returned[t]
    IN  /\ At(t, "answered")
        /\ Stage(t, CompletedEvents(t, Priced(ApiUsage(a.usage, a.model), route[t].model)))
        /\ Goto(t, "completed")
        /\ UNCHANGED <<decisions, route, said, plan, superseded, returned, calls, sealing, unwritten>>

AsksForTools(t) ==
    /\ At(t, "asked")
    /\ Stage(t, RequestEvents(t))
    /\ Goto(t, "tools")
    /\ UNCHANGED <<decisions, route, said, plan, superseded, returned, calls, sealing, unwritten>>

PlanReady(t) ==
    /\ At(t, "planned")
    /\ Goto(t, "approval")
    /\ NoRecord
    /\ UNCHANGED <<decisions, route, said, plan, superseded, returned, calls, sealing>>

(* A call or a write other than the trace's fails, the call is cancelled,  *)
(* or the handler is dropped, with the rows it has not written.            *)
Fails(t) ==
    /\ pc[t] \in Served \/ writing[t] # <<>>
    /\ Extra /\ fails' = fails + 1
    /\ Goto(t, "ended")
    /\ lost' = LostWith(t, writing[t])
    /\ writing' = [writing EXCEPT ![t] = <<>>]
    /\ UNCHANGED <<events, decisions, route, said, plan, superseded, returned, calls, sealing,
                   readVars, purges, next>>

FirstContext == Head(decisions).route

(* continuation_trace_context: the session's latest routing decision.      *)
ContinuationContext == Last(decisions).route

(* resume_tool_results and resume_approvals, as far as they are traced.    *)
ToolResults(t, decided) ==
    /\ At(t, "tools") /\ ~superseded[t]
    /\ Stage(t, <<Event(t, "tool_call", ContinuationContext, Absent)>>
                 \o (IF decided THEN <<Event(t, "approval", ContinuationContext, Absent)>> ELSE <<>>))
    /\ Goto(t, "resolve")
    /\ UNCHANGED <<decisions, route, said, plan, superseded, returned, calls, sealing, unwritten>>

Approval(t, approved) ==
    /\ At(t, "approval") /\ ~superseded[t]
    /\ Stage(t, <<Event(t, "approval", ContinuationContext, Absent)>>)
    /\ Goto(t, IF approved THEN "resolve" ELSE "ended")
    /\ plan' = [plan EXCEPT ![t] = ~approved]
    /\ UNCHANGED <<decisions, route, said, superseded, returned, calls, sealing, unwritten>>

(* finish_completed: the rows that are in clear are sent to be sealed ...  *)
AsksToSeal(t) ==
    /\ At(t, "completed")
    /\ sealing' = [sealing EXCEPT ![t] =
          IF Encrypted THEN {e.id : e \in {f \in Range(events) : f.clear}} ELSE {}]
    /\ Goto(t, IF Encrypted THEN "seal" ELSE "done")
    /\ NoRecord
    /\ UNCHANGED <<decisions, route, said, plan, superseded, returned, calls>>

(* ... and reseal_traces overwrites the ones that are still there.         *)
ResealTraces(t) ==
    /\ At(t, "seal") /\ ~superseded[t]
    /\ events' = [i \in DOMAIN events |->
                    IF events[i].id \in sealing[t] THEN Sealed(events[i]) ELSE events[i]]
    /\ sealing' = [sealing EXCEPT ![t] = {}]
    /\ Goto(t, "done")
    /\ UNCHANGED <<decisions, route, said, plan, superseded, returned, calls, writing, next,
                   lost, fails, purges, readVars>>

-----------------------------------------------------------------------------
(* Readers and the retention sweep                                         *)

(* get_session_cost_events, assemble_trace_events and SessionUsage::usage: *)
(* the cost events that are stored, aggregated.                            *)
Costs == FoldLeft(LAMBDA rows, e : IF e.kind = "cost" THEN Append(rows, e) ELSE rows,
                  <<>>, events)
Usage == Aggregate(Costs)

(* One page of get_session_trace_events, ordered by created_at, as the     *)
(* CLI's get_traces asks for it: the next offset is behind what it has     *)
(* read, a short page ends it.                                             *)
Page(offset) == SubSeq(events, offset + 1,
                       IF offset + PageLimit < Len(events) THEN offset + PageLimit ELSE Len(events))

NextOffsetSkips(page, offset) == offset + PageLimit + 1
NextOffsetRepeats(page, offset) == offset + Len(page) - 1

NextOffset(page, offset) == offset + Len(page)

Reading(p) ==
    LET page == Page(p.offset)
    IN  [offset |-> IF Len(page) < PageLimit THEN 0 ELSE NextOffset(page, p.offset),
         seen |-> p.seen \o [i \in DOMAIN page |-> page[i].id], begun |-> p.begun]

StartReading ==
    /\ pages = NoPages /\ reads < MaxReads
    /\ reads' = reads + 1
    /\ pages' = Reading([NoPages EXCEPT !.begun = Ids(events)])
    /\ UNCHANGED <<events, decisions, writing, turnVars, lost, fails, purges, next>>

(* The client shows what it has read.                                      *)
Shown ==
    /\ pages.offset = 0 /\ pages # NoPages
    /\ pages' = NoPages
    /\ UNCHANGED <<events, decisions, writing, turnVars, reads, lost, fails, purges, next>>

ReadOn ==
    /\ pages.offset > 0
    /\ pages' = Reading(pages)
    /\ UNCHANGED <<events, decisions, writing, turnVars, reads, lost, fails, purges, next>>

(* purge_traces: the events of a time before the cutoff, the n oldest.     *)
Purge(n) ==
    /\ Extra /\ n <= Len(events)
    /\ purges' = purges + 1
    /\ events' = SubSeq(events, n + 1, Len(events))
    /\ UNCHANGED <<decisions, writing, turnVars, readVars, lost, fails, next>>

LedgerNext ==
    \/ \E t \in TurnIds :
          \/ Begin(t) \/ UserMessage(t) \/ Completes(t) \/ AsksForTools(t) \/ PlanReady(t)
          \/ Fails(t) \/ AsksToSeal(t) \/ ResealTraces(t) \/ InsertFails(t)
          \/ \E r \in Routes : Resolve(t, r)
          \/ \E m \in Models : \E u \in Usages[m] : \E l \in Stages : Returns(t, m, u, l)
          \/ \E b \in BOOLEAN : ToolResults(t, b) \/ Approval(t, b)
          \/ \E k \in 0 .. Len(events) : Insert(t, k)
    \/ StartReading \/ ReadOn \/ Shown
    \/ \E n \in Sweeps : Purge(n)

LedgerSpec == LedgerInit /\ [][LedgerNext]_ledgerVars

-----------------------------------------------------------------------------
Total(numbers) == FoldLeft(LAMBDA a, b : a + b, 0, numbers)

(* A tally accounts for the cost events `of`: it counts each of them, the  *)
(* sealed ones too, and adds up what the clear ones say. It shows no       *)
(* tokens if all are sealed, and no cost if none of them is priced.        *)
AccountsFor(tally, costs, of) ==
    LET clear == {i \in of : costs[i].clear}
        priced == {i \in clear : costs[i].payload.cost # Absent}
        sum(field, S) == Total([i \in DOMAIN costs |-> IF i \in S THEN costs[i].payload[field] ELSE 0])
    IN  /\ tally.requests = Cardinality(of)
        /\ \A field \in {"input", "output"} :
              IntoUsage(tally)[field] = IF clear = {} THEN Absent ELSE sum(field, clear)
        /\ tally.cost = IF priced = {} THEN Absent ELSE sum("cost", priced)

(* A usage report accounts for every cost event that is stored, sealed or  *)
(* clear: the total for all of them, and each breakdown, which has an      *)
(* entry for every model (every task) that was charged, for those of the   *)
(* entry.                                                                  *)
ReportAddsUp ==
    LET costs == Costs
        usage == Usage
        of(field, key) == {i \in DOMAIN costs : costs[i][field] = key}
    IN  /\ AccountsFor(usage.total, costs, DOMAIN costs)
        /\ DOMAIN usage.by_model = {costs[i].model : i \in DOMAIN costs}
        /\ DOMAIN usage.by_task = {costs[i].task : i \in DOMAIN costs}
        /\ \A m \in DOMAIN usage.by_model : AccountsFor(usage.by_model[m], costs, of("model", m))
        /\ \A t \in DOMAIN usage.by_task : AccountsFor(usage.by_task[t], costs, of("task", t))

(* A turn that completed is charged once, with the tokens that its last    *)
(* call reported, unless the write failed or the event was swept; whatever *)
(* other turns write between its answer and its last row. (Of a turn that  *)
(* went through several calls, only the last one is charged, and of one    *)
(* that did not complete, none: see EveryCallCharged.)                     *)
Charges(t) == {i \in DOMAIN events : events[i].kind = "cost" /\ events[i].turn = t}

ChargedOnce ==
    \A t \in TurnIds :
      /\ \A i, j \in Charges(t) : i = j
      /\ \A i \in Charges(t) : /\ events[i].payload.input = returned[t].usage.input
                                /\ events[i].payload.output = returned[t].usage.output
      /\ (pc[t] \in {"seal", "done"} /\ t \notin lost /\ purges = 0) => Charges(t) # {}

(* docs/technical/run-state-machine.md:252: a Cost event is recorded "on   *)
(* recording usage after an invocation". Stated of every call of a turn    *)
(* that completed.                                                         *)
EveryCallCharged ==
    \A t \in TurnIds :
      (pc[t] = "done" /\ t \notin lost /\ purges = 0) => Cardinality(Charges(t)) = calls[t]

(* What a continuation records carries the route of the turn that paused,  *)
(* although the route is read back from the session's stored decisions.    *)
(* A superseded turn that resolves after it is the exception.              *)
RouteCarried ==
    \A i \in DOMAIN events :
      LET e == events[i]
          of == {d \in DOMAIN decisions : decisions[d].turn = e.turn}
          interfered == \E d \in DOMAIN decisions : decisions[d].turn # e.turn
                                                    /\ \E o \in of : o < d
      IN  (e.kind \in {"approval", "tool_call"} /\ ~interfered)
            => \E d \in of : decisions[d].route = [task |-> e.task, model |-> e.model]

(* Reading the trace page by page while turns write to it shows every      *)
(* event that was there when the reading began, unless the sweep ran: an   *)
(* event that is stored later with an earlier created_at pushes others     *)
(* back over the offset, never forward.                                    *)
PagesComplete ==
    (purges = 0 /\ pages.offset = 0) => pages.begun \subseteq Range(pages.seen)

(* An event is shown twice only if such a late one pushed it back: one     *)
(* that was not there at the beginning, has an earlier created_at and is   *)
(* not shown itself.                                                       *)
RepeatsAreLate ==
    purges = 0 =>
      \A i, j \in DOMAIN pages.seen :
        (i # j /\ pages.seen[i] = pages.seen[j]) =>
          \E k \in DOMAIN events : /\ events[k].id < pages.seen[i]
                                   /\ events[k].id \notin pages.begun \cup Range(pages.seen)
=============================================================================
