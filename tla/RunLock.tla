------------------------------ MODULE RunLock ------------------------------
(***************************************************************************)
(* Admission, supersede and settlement of the requests for one session.    *)
(*                                                                         *)
(* crates/smista-router/src/orchestrator.rs serves `execute` and the six   *)
(* continuations of a session.  They share the durable run-state row (the  *)
(* checkpoint `phase` and the processing lock `active`), the run-input row *)
(* and, when one Orchestrator serves both, the in-process registry of live *)
(* turns.  A request is a process; every step ends where the code awaits   *)
(* the database or the provider, so steps of different requests interleave *)
(* exactly where the program lets them.                                    *)
(*                                                                         *)
(* Abstractions.  The id of a run is the execute request that began it and *)
(* the identity of a pause (its call ids, its approval id, its pending     *)
(* rows) is the request whose turn authored it: every turn draws fresh     *)
(* UUIDs.  The rows of one pause change together.  The `turn` number and   *)
(* the text of messages are left out: nothing here branches on them.       *)
(***************************************************************************)
EXTENDS Naturals, FiniteSets

CONSTANTS
    Requests,        \* the requests that may reach the router
    Kinds,           \* the kinds of request that clients send
    Orchestrators,   \* the Orchestrator values requests are served by
    OrchestratorOf,  \* which Orchestrator serves a request
    FaultSites,      \* the storage calls that may fail
    MaxFaults,       \* bound: kinds of storage calls that fail
    MaxCrashes,      \* bound: crashes of the router process
    MaxDrops,        \* bound: handler futures dropped by a lost connection
    MaxServing,      \* bound: requests served at the same time
    None             \* absence of a row, a token, a value

AllKinds == {"execute", "tool_results", "approval_decisions", "decrypted",
             "sealed", "inject", "break"}

AllFaultSites == {"admission", "is_encrypted", "persist_run_input",
                  "mark_active", "handler", "author", "release", "rollback"}

ASSUME KindsAssumption == Kinds \subseteq AllKinds

ASSUME OrchestratorAssumption == OrchestratorOf \in [Requests -> Orchestrators]

ASSUME FaultAssumption ==
    /\ FaultSites \subseteq AllFaultSites
    /\ MaxFaults \in Nat
    /\ MaxCrashes \in Nat
    /\ MaxDrops \in Nat
    /\ MaxServing \in Nat

VARIABLES
    (* durable rows of the session *)
    encrypted,   \* the session is end-to-end encrypted; never changes
    row,         \* session_run_state: run, phase and the lock, or None
    input,       \* session_run_input: the run and its plan flag, or None
    calls,       \* session_tool_call rows authored by a request's turn
    plans,       \* session_plan row authored by a request's turn
    flushed,     \* pauses whose deferred rows were written sealed
    (* in-process registry *)
    live,        \* the live turn of an Orchestrator, or None
    cancelled,   \* the requests whose token was cancelled
    (* history *)
    overtaken,   \* a request took the run from one that was serving it, or
                 \* with a checkpoint that is not the stored one any more
    (* one record of locals per request *)
    pc, kind, snap, plan, next, reply,
    (* environment *)
    faults, crashes, drops

rows == <<encrypted, row, input, calls, plans, flushed>>
registry == <<live, cancelled, overtaken>>
locals == <<pc, kind, snap, plan, next, reply>>
env == <<faults, crashes, drops>>
vars == <<rows, registry, locals, env>>

-----------------------------------------------------------------------------
(* Types *)

PauseKinds == {"awaiting_tool", "awaiting_approval", "awaiting_decrypt",
               "awaiting_encrypt"}

Idle == [kind |-> "idle", by |-> None]

Phases == {Idle} \cup [kind : PauseKinds, by : Requests]

RunStates == [run : Requests, phase : Phases, active : BOOLEAN]

RunInputs == [run : Requests, plan : BOOLEAN]

ASSUME NoneAssumption ==
    None \notin Requests /\ None \notin RunStates /\ None \notin RunInputs

PCs == {"new", "open", "input", "admit", "begin", "mark", "persist", "dispatch",
        "turn", "author", "release", "restore", "abort", "finish", "done",
        "gone"}

Replies == {None, "busy", "no_active_run", "error", "rejected", "ok"}

CallStatus == {"none", "pending", "completed", "failed"}

PlanStatus == {"none", "draft", "approved", "rejected"}

TypeOK ==
    /\ encrypted \in BOOLEAN
    /\ row \in RunStates \cup {None}
    /\ input \in RunInputs \cup {None}
    /\ calls \in [Requests -> CallStatus]
    /\ plans \in [Requests -> PlanStatus]
    /\ flushed \in SUBSET Requests
    /\ live \in [Orchestrators -> Requests \cup {None}]
    /\ cancelled \in SUBSET Requests
    /\ overtaken \in BOOLEAN
    /\ pc \in [Requests -> PCs]
    /\ kind \in [Requests -> Kinds \cup {None}]
    /\ snap \in [Requests -> RunStates \cup {None}]
    /\ plan \in [Requests -> BOOLEAN]
    /\ next \in [Requests -> Phases]
    /\ reply \in [Requests -> Replies]
    /\ faults \in SUBSET FaultSites
    /\ crashes \in Nat
    /\ drops \in Nat

Init ==
    /\ encrypted \in BOOLEAN
    /\ row = None
    /\ input = None
    /\ calls = [r \in Requests |-> "none"]
    /\ plans = [r \in Requests |-> "none"]
    /\ flushed = {}
    /\ live = [o \in Orchestrators |-> None]
    /\ cancelled = {}
    /\ overtaken = FALSE
    /\ pc = [r \in Requests |-> "new"]
    /\ kind = [r \in Requests |-> None]
    /\ snap = [r \in Requests |-> None]
    /\ plan = [r \in Requests |-> FALSE]
    /\ next = [r \in Requests |-> Idle]
    /\ reply = [r \in Requests |-> None]
    /\ faults = {}
    /\ crashes = 0
    /\ drops = 0

-----------------------------------------------------------------------------
(* Helpers *)

Locked == row # None /\ row.active

\* `break` and `inject` seize the run whatever the lock says.
Supersedes(k) == k \in {"inject", "break"}

\* The run a request works for: its own, or the one it read.
RunOf(r) == IF kind[r] = "execute" THEN r ELSE snap[r].run

Unlocked(run, phase) == [run |-> run, phase |-> phase, active |-> FALSE]

Held(state) == [state EXCEPT !.active = TRUE]

\* The pause a continuation answers, as it was when the request read the row.
Pause(r) == snap[r].phase

Goto(r, label) == pc' = [pc EXCEPT ![r] = label]

\* The locals of the requests in R go out of scope.
Forget(R) ==
    /\ snap' = [r \in Requests |-> IF r \in R THEN None ELSE snap[r]]
    /\ plan' = [r \in Requests |-> IF r \in R THEN FALSE ELSE plan[r]]
    /\ next' = [r \in Requests |-> IF r \in R THEN Idle ELSE next[r]]

Return(r, answer) ==
    /\ Goto(r, "done")
    /\ reply' = [reply EXCEPT ![r] = answer]
    /\ Forget({r})

Serving(r) == pc[r] \notin {"new", "done", "gone"}

\* A request that may have written the lock and has not given it back.
Holding(r) == pc[r] \in {"begin", "persist", "dispatch", "turn", "author",
                         "release", "restore", "abort"}

\* A request takes the run.
Take(r) ==
    overtaken' = \/ overtaken
                 \/ \E s \in Requests \ {r} : Holding(s)
                 \/ snap[r] # None /\ snap[r] # row

Fault(site) ==
    /\ site \in FaultSites
    /\ Cardinality(faults) < MaxFaults
    /\ faults' = faults \cup {site}
    /\ UNCHANGED <<crashes, drops>>

-----------------------------------------------------------------------------
(* Admission of an execute *)

\* A request reaches its handler, which opens the session.
Open(r) ==
    /\ pc[r] = "new"
    /\ Cardinality({s \in Requests : Serving(s)}) < MaxServing
    /\ \E k \in Kinds : kind' = [kind EXCEPT ![r] = k]
    /\ Goto(r, "open")
    /\ UNCHANGED <<rows, registry, snap, plan, next, reply, env>>

\* A turn is in flight: the conditional write finds the lock taken.
ExecuteBusy(r) ==
    /\ pc[r] = "open" /\ kind[r] = "execute"
    /\ Locked
    /\ Return(r, "busy")
    /\ UNCHANGED <<rows, registry, kind, env>>

\* One transaction checks the lock and writes a fresh run at Idle.
ExecuteAcquire(r) ==
    /\ pc[r] = "open" /\ kind[r] = "execute"
    /\ ~Locked
    /\ row' = [run |-> r, phase |-> Idle, active |-> TRUE]
    /\ Take(r)
    /\ Goto(r, "begin")
    /\ UNCHANGED <<encrypted, input, calls, plans, flushed, live, cancelled, kind,
                   snap, plan, next, reply, env>>

\* Writing the token cancels the turn it replaces, in this registry only.
BeginToken(r) ==
    LET o == OrchestratorOf[r]
    IN  /\ live' = [live EXCEPT ![o] = r]
        /\ cancelled' = cancelled \cup ({live[o]} \ {None})

Begin(r) ==
    /\ pc[r] = "begin"
    /\ BeginToken(r)
    /\ Goto(r, IF kind[r] = "execute" THEN "persist" ELSE "dispatch")
    /\ UNCHANGED <<rows, overtaken, kind, snap, plan, next, reply, env>>

\* The request snapshot is stored; `plan` is whether its command is Plan.
PersistRunInput(r) ==
    /\ pc[r] = "persist"
    /\ \E planning \in BOOLEAN :
          /\ input' = [run |-> r, plan |-> planning]
          /\ plan' = [plan EXCEPT ![r] = planning]
    /\ Goto(r, "turn")
    /\ UNCHANGED <<encrypted, row, calls, plans, flushed, registry, kind,
                   snap, next, reply, env>>

PersistRunInputFails(r) ==
    /\ pc[r] = "persist"
    /\ Fault("persist_run_input")
    /\ Goto(r, "abort")
    /\ UNCHANGED <<rows, registry, kind, snap, plan, next, reply>>

\* Reading the session row fails: `?` returns with the lock still held.
IsEncryptedFails(r) ==
    /\ pc[r] = "persist"
    /\ Fault("is_encrypted")
    /\ Return(r, "error")
    /\ UNCHANGED <<rows, registry, kind>>

-----------------------------------------------------------------------------
(* Admission of a continuation *)

\* The row is read outside any lock; what is read is used throughout.
ReadState(r) ==
    /\ pc[r] = "open" /\ kind[r] # "execute"
    /\ row # None
    /\ snap' = [snap EXCEPT ![r] = row]
    /\ Goto(r, "input")
    /\ UNCHANGED <<rows, registry, kind, plan, next, reply, env>>

NoActiveRun(r) ==
    /\ pc[r] = "open" /\ kind[r] # "execute"
    /\ row = None
    /\ Return(r, "no_active_run")
    /\ UNCHANGED <<rows, registry, kind, env>>

ReadInput(r) ==
    /\ pc[r] = "input"
    /\ input # None
    /\ plan' = [plan EXCEPT ![r] = input.plan]
    /\ Goto(r, "admit")
    /\ UNCHANGED <<rows, registry, kind, snap, next, reply, env>>

\* An execute that holds the lock has not stored its input yet.
RunInputMissing(r) ==
    /\ pc[r] = "input"
    /\ input = None
    /\ Return(r, "error")
    /\ UNCHANGED <<rows, registry, kind, env>>

ContinueBusy(r) ==
    /\ pc[r] = "admit" /\ ~Supersedes(kind[r])
    /\ Locked
    /\ Return(r, "busy")
    /\ UNCHANGED <<rows, registry, kind, env>>

\* The conditional write stores the snapshot, with the lock set.
ContinueAcquire(r) ==
    /\ pc[r] = "admit" /\ ~Supersedes(kind[r])
    /\ ~Locked
    /\ row' = Held(snap[r])
    /\ Take(r)
    /\ Goto(r, "begin")
    /\ UNCHANGED <<encrypted, input, calls, plans, flushed, live, cancelled, kind,
                   snap, plan, next, reply, env>>

\* `break` and `inject` cancel first and only then take the lock.
Supersede(r) ==
    /\ pc[r] = "admit" /\ Supersedes(kind[r])
    /\ BeginToken(r)
    /\ Goto(r, "mark")
    /\ UNCHANGED <<rows, overtaken, kind, snap, plan, next, reply, env>>

\* The unconditional write of the snapshot, with the lock set.
MarkActive(r) ==
    /\ pc[r] = "mark"
    /\ row' = Held(snap[r])
    /\ Take(r)
    /\ Goto(r, "dispatch")
    /\ UNCHANGED <<encrypted, input, calls, plans, flushed, live, cancelled, kind,
                   snap, plan, next, reply, env>>

MarkActiveFails(r) ==
    /\ pc[r] = "mark"
    /\ Fault("mark_active")
    /\ Take(r)
    /\ Goto(r, "abort")
    /\ UNCHANGED <<rows, live, cancelled, kind, snap, plan, next, reply>>

\* A read or the acquiring write fails before anything was taken.
AdmissionFails(r) ==
    /\ \/ pc[r] \in {"open", "input"}
       \/ pc[r] = "admit" /\ ~Supersedes(kind[r])
    /\ Fault("admission")
    /\ Return(r, "error")
    /\ UNCHANGED <<rows, registry, kind>>

-----------------------------------------------------------------------------
(* Handlers of the continuations, dispatched on the snapshot's phase *)

Expected(k) ==
    CASE k = "tool_results" -> "awaiting_tool"
      [] k = "approval_decisions" -> "awaiting_approval"
      [] k = "decrypted" -> "awaiting_decrypt"
      [] k = "sealed" -> "awaiting_encrypt"

Answers(r) == pc[r] = "dispatch" /\ ~Supersedes(kind[r])
              /\ Pause(r).kind = Expected(kind[r])

\* UnexpectedContinuation: the phase does not match, or the payload does not
\* answer it (missing or duplicate results, no decision, a missing seal).
Reject(r) ==
    /\ pc[r] = "dispatch" /\ ~Supersedes(kind[r])
    /\ Goto(r, "restore")
    /\ UNCHANGED <<rows, registry, kind, snap, plan, next, reply, env>>

\* The deferred rows of an encrypted pause are created, never overwritten:
\* writing them a second time is an error.
FlushFails(r) ==
    /\ Answers(r) /\ kind[r] # "decrypted"
    /\ encrypted /\ Pause(r).by \in flushed
    /\ Goto(r, "abort")
    /\ UNCHANGED <<rows, registry, kind, snap, plan, next, reply, env>>

Flush(r) ==
    IF encrypted THEN /\ Pause(r).by \notin flushed
                      /\ flushed' = flushed \cup {Pause(r).by}
                 ELSE UNCHANGED flushed

ResumeToolResults(r) ==
    /\ Answers(r) /\ kind[r] = "tool_results"
    /\ Flush(r)
    /\ \E status \in {"completed", "failed"} :
          calls' = [calls EXCEPT ![Pause(r).by] = status]
    /\ Goto(r, "turn")
    /\ UNCHANGED <<encrypted, row, input, plans, registry, kind, snap, plan,
                   next, reply, env>>

ApprovePlan(r) ==
    /\ Answers(r) /\ kind[r] = "approval_decisions"
    /\ Flush(r)
    /\ plans' = [plans EXCEPT ![Pause(r).by] = "approved"]
    /\ input' = [input EXCEPT !.plan = FALSE]
    /\ plan' = [plan EXCEPT ![r] = FALSE]
    /\ Goto(r, "turn")
    /\ UNCHANGED <<encrypted, row, calls, registry, kind, snap, next, reply,
                   env>>

\* Mutant: a rejected plan leaves the run at the same checkpoint.
RejectPlanStays(r) ==
    /\ Answers(r) /\ kind[r] = "approval_decisions"
    /\ Flush(r)
    /\ plans' = [plans EXCEPT ![Pause(r).by] = "rejected"]
    /\ next' = [next EXCEPT ![r] = Pause(r)]
    /\ Goto(r, "release")
    /\ UNCHANGED <<encrypted, row, input, calls, registry, kind, snap, plan,
                   reply, env>>

RejectPlan(r) ==
    /\ Answers(r) /\ kind[r] = "approval_decisions"
    /\ Flush(r)
    /\ plans' = [plans EXCEPT ![Pause(r).by] = "rejected"]
    /\ next' = [next EXCEPT ![r] = Idle]
    /\ Goto(r, "release")
    /\ UNCHANGED <<encrypted, row, input, calls, registry, kind, snap, plan,
                   reply, env>>

ResumeDecrypted(r) ==
    /\ Answers(r) /\ kind[r] = "decrypted"
    /\ Goto(r, "turn")
    /\ UNCHANGED <<rows, registry, kind, snap, plan, next, reply, env>>

ResumeSealed(r) ==
    /\ Answers(r) /\ kind[r] = "sealed"
    /\ Flush(r)
    /\ next' = [next EXCEPT ![r] = Idle]
    /\ Goto(r, "release")
    /\ UNCHANGED <<encrypted, row, input, calls, plans, registry, kind, snap,
                   plan, reply, env>>

\* Marks the snapshot's outstanding calls failed.  The rows of an encrypted
\* pause are not stored until it is answered, so there is nothing to mark.
Outstanding(r) == Pause(r).kind = "awaiting_tool"

CancelOutstandingTools(r) ==
    calls' = IF Outstanding(r) THEN [calls EXCEPT ![Pause(r).by] = "failed"]
                               ELSE calls

CallRowMissing(r) == Outstanding(r) /\ calls[Pause(r).by] = "none"

ResumeInject(r) ==
    /\ pc[r] = "dispatch" /\ kind[r] = "inject"
    /\ ~CallRowMissing(r)
    /\ CancelOutstandingTools(r)
    /\ Goto(r, "turn")
    /\ UNCHANGED <<encrypted, row, input, plans, flushed, registry, kind,
                   snap, plan, next, reply, env>>

ResumeBreak(r) ==
    /\ pc[r] = "dispatch" /\ kind[r] = "break"
    /\ ~CallRowMissing(r)
    /\ CancelOutstandingTools(r)
    /\ next' = [next EXCEPT ![r] = Idle]
    /\ Goto(r, "release")
    /\ UNCHANGED <<encrypted, row, input, plans, flushed, registry, kind,
                   snap, plan, reply, env>>

\* The call row cannot be found: the supersede itself fails.
SupersedeFails(r) ==
    /\ pc[r] = "dispatch" /\ Supersedes(kind[r])
    /\ CallRowMissing(r)
    /\ Goto(r, "abort")
    /\ UNCHANGED <<rows, registry, kind, snap, plan, next, reply, env>>

\* A write of the handler fails, after none, some or all of its rows.
HandlerFails(r) ==
    /\ pc[r] = "dispatch"
    /\ Fault("handler")
    /\ \/ UNCHANGED <<flushed, calls, plans>>
       \/ /\ Answers(r) /\ kind[r] # "decrypted"
          /\ Flush(r)
          /\ UNCHANGED <<calls, plans>>
       \/ /\ Answers(r) /\ kind[r] = "tool_results"
          /\ Flush(r)
          /\ \E status \in {"completed", "failed"} :
                calls' = [calls EXCEPT ![Pause(r).by] = status]
          /\ UNCHANGED plans
       \/ /\ Answers(r) /\ kind[r] = "approval_decisions"
          /\ Flush(r)
          /\ \E status \in {"approved", "rejected"} :
                plans' = [plans EXCEPT ![Pause(r).by] = status]
          /\ UNCHANGED calls
    /\ Goto(r, "abort")
    /\ UNCHANGED <<encrypted, row, input, registry, kind, snap, plan, next,
                   reply>>

-----------------------------------------------------------------------------
(* The turn *)

\* Sealed history must be opened before the prompt can be built.
TurnNeedsDecrypt(r) ==
    /\ pc[r] = "turn" /\ encrypted
    /\ next' = [next EXCEPT ![r] = [kind |-> "awaiting_decrypt", by |-> r]]
    /\ Goto(r, "release")
    /\ UNCHANGED <<rows, registry, kind, snap, plan, reply, env>>

\* The provider answered.  The token is only looked at while the call runs.
InvokeReturns(r) ==
    /\ pc[r] = "turn"
    /\ r \notin cancelled
    /\ \E p \in {"awaiting_tool",
                 IF plan[r] THEN "awaiting_approval"
                 ELSE IF encrypted THEN "awaiting_encrypt" ELSE "idle"} :
          next' = [next EXCEPT ![r] =
                     IF p = "idle" THEN Idle ELSE [kind |-> p, by |-> r]]
    /\ Goto(r, "author")
    /\ UNCHANGED <<rows, registry, kind, snap, plan, reply, env>>

\* No route, no credential, a provider error with no fallback left, a storage
\* error on the way, or the cancelled token, which wins the biased race
\* against the provider.
TurnFails(r) ==
    /\ pc[r] = "turn"
    /\ Goto(r, "abort")
    /\ UNCHANGED <<rows, registry, kind, snap, plan, next, reply, env>>

Superseded(r) == r \in cancelled /\ TurnFails(r)

\* The turn's rows are stored at once, or deferred when encrypted.
StoreAuthored(r) ==
    /\ calls' = IF next[r].kind = "awaiting_tool" /\ ~encrypted
                THEN [calls EXCEPT ![r] = "pending"] ELSE calls
    /\ plans' = IF next[r].kind = "awaiting_approval" /\ ~encrypted
                THEN [plans EXCEPT ![r] = "draft"] ELSE plans

Author(r) ==
    /\ pc[r] = "author"
    /\ StoreAuthored(r)
    /\ Goto(r, "release")
    /\ UNCHANGED <<encrypted, row, input, flushed, registry, kind, snap, plan,
                   next, reply, env>>

AuthorFails(r) ==
    /\ pc[r] = "author"
    /\ Fault("author")
    /\ StoreAuthored(r) \/ UNCHANGED <<calls, plans>>
    /\ Goto(r, "abort")
    /\ UNCHANGED <<encrypted, row, input, flushed, registry, kind, snap, plan,
                   next, reply>>

-----------------------------------------------------------------------------
(* Settlement *)

\* The next checkpoint is written and the lock dropped, whoever holds it.
Release(r) ==
    /\ pc[r] = "release"
    /\ row' = Unlocked(RunOf(r), next[r])
    /\ Goto(r, "finish")
    /\ reply' = [reply EXCEPT ![r] = "ok"]
    /\ UNCHANGED <<encrypted, input, calls, plans, flushed, registry, kind,
                   snap, plan, next, env>>

ReleaseFails(r) ==
    /\ pc[r] = "release"
    /\ Fault("release")
    /\ Goto(r, "abort")
    /\ UNCHANGED <<rows, registry, kind, snap, plan, next, reply>>

\* A rejected continuation falls back to the checkpoint it read.
Restore(r) ==
    /\ pc[r] = "restore"
    /\ row' = Unlocked(RunOf(r), Pause(r))
    /\ Goto(r, "finish")
    /\ reply' = [reply EXCEPT ![r] = "rejected"]
    /\ UNCHANGED <<encrypted, input, calls, plans, flushed, registry, kind,
                   snap, plan, next, env>>

\* Mutant: a failure drops the token and leaves the row.
AbortTokenOnly(r) ==
    /\ pc[r] = "abort"
    /\ Goto(r, "finish")
    /\ reply' = [reply EXCEPT ![r] = "error"]
    /\ UNCHANGED <<rows, registry, kind, snap, plan, next, env>>

\* Mutant: a failure falls back to the checkpoint that was read.
AbortRestores(r) ==
    /\ pc[r] = "abort"
    /\ row' = Unlocked(RunOf(r), IF snap[r] = None THEN Idle ELSE Pause(r))
    /\ Goto(r, "finish")
    /\ reply' = [reply EXCEPT ![r] = "error"]
    /\ UNCHANGED <<encrypted, input, calls, plans, flushed, registry, kind,
                   snap, plan, next, env>>

\* Every other failure returns the run to Idle.
Abort(r) ==
    /\ pc[r] = "abort"
    /\ row' = Unlocked(RunOf(r), Idle)
    /\ Goto(r, "finish")
    /\ reply' = [reply EXCEPT ![r] = "error"]
    /\ UNCHANGED <<encrypted, input, calls, plans, flushed, registry, kind,
                   snap, plan, next, env>>

\* The write that gives the lock back fails; it is only logged.
RollbackFails(r) ==
    /\ pc[r] \in {"restore", "abort"}
    /\ Fault("rollback")
    /\ Goto(r, "finish")
    /\ reply' = [reply EXCEPT ![r] = "error"]
    /\ UNCHANGED <<rows, registry, kind, snap, plan, next>>

\* The token is dropped, unless a newer turn replaced it.
Finish(r) ==
    LET o == OrchestratorOf[r]
    IN  /\ pc[r] = "finish"
        /\ live' = IF live[o] = r THEN [live EXCEPT ![o] = None] ELSE live
        /\ Goto(r, "done")
        /\ Forget({r})
        /\ UNCHANGED <<rows, cancelled, overtaken, kind, reply, env>>

-----------------------------------------------------------------------------
(* Environment *)

\* The process dies: every request it serves and its registries are lost.
\* Nothing runs at startup over the run-state rows.
Crash ==
    /\ crashes < MaxCrashes
    /\ \E r \in Requests : Serving(r)
    /\ crashes' = crashes + 1
    /\ pc' = [r \in Requests |-> IF Serving(r) THEN "gone" ELSE pc[r]]
    /\ live' = [o \in Orchestrators |-> None]
    /\ Forget({r \in Requests : Serving(r)})
    /\ UNCHANGED <<rows, cancelled, overtaken, kind, reply, faults, drops>>

\* The client of a buffered request disconnects: the server drops the
\* handler's future at the await it stands at.  Between a write of the row
\* and the registry call that follows it there is no await.
Drop(r) ==
    /\ Serving(r) /\ pc[r] \notin {"begin", "finish"}
    /\ drops < MaxDrops
    /\ drops' = drops + 1
    /\ Goto(r, "gone")
    /\ Forget({r})
    /\ UNCHANGED <<rows, registry, kind, reply, faults, crashes>>

-----------------------------------------------------------------------------
Admission(r) ==
    \/ Open(r) \/ ExecuteBusy(r) \/ ExecuteAcquire(r) \/ Begin(r)
    \/ PersistRunInput(r) \/ PersistRunInputFails(r) \/ IsEncryptedFails(r)
    \/ ReadState(r) \/ NoActiveRun(r) \/ ReadInput(r) \/ RunInputMissing(r)
    \/ ContinueBusy(r) \/ ContinueAcquire(r)
    \/ Supersede(r) \/ MarkActive(r) \/ MarkActiveFails(r)
    \/ AdmissionFails(r)

Handler(r) ==
    \/ Reject(r) \/ FlushFails(r)
    \/ ResumeToolResults(r) \/ ApprovePlan(r) \/ RejectPlan(r)
    \/ ResumeDecrypted(r) \/ ResumeSealed(r)
    \/ ResumeInject(r) \/ ResumeBreak(r) \/ SupersedeFails(r)
    \/ HandlerFails(r)

Turn(r) ==
    \/ TurnNeedsDecrypt(r) \/ InvokeReturns(r) \/ TurnFails(r)
    \/ Author(r) \/ AuthorFails(r)

Settle(r) ==
    \/ Release(r) \/ ReleaseFails(r) \/ Restore(r) \/ Abort(r)
    \/ RollbackFails(r) \/ Finish(r)

Step(r) == Admission(r) \/ Handler(r) \/ Turn(r) \/ Settle(r)

\* Every request was answered or lost; the router waits for the next one.
Terminated ==
    /\ \A r \in Requests : ~Serving(r)
    /\ UNCHANGED vars

Next ==
    \/ \E r \in Requests : Step(r) \/ Drop(r)
    \/ Crash
    \/ Terminated

Spec == Init /\ [][Next]_vars

\* The runtime polls every task that can run, and the database answers. The
\* provider need not: its client has no timeout, and only a cancelled token
\* ends the call (invoke.rs).
FairSpec ==
    Spec /\ \A r \in Requests :
              /\ WF_vars(Step(r) /\ pc[r] \notin {"new", "turn"})
              /\ WF_vars(Superseded(r))

-----------------------------------------------------------------------------
(* Properties *)

\* A request that holds a token of its Orchestrator's registry.
Begun(r) == pc[r] \in {"mark", "persist", "dispatch", "turn", "author",
                       "release", "restore", "abort", "finish"}

\* The lock never outlives the requests that could release it: whenever the
\* durable `active` is set, some request is on its way to the write that
\* clears it (finish_step, settle and abort), whoever was superseded and
\* whatever failed, unless the process died, a handler was dropped, or one of
\* the two storage calls failed behind which the code gives up (the read of
\* the session after the lock was taken, and the rolling-back write itself).
LockHasHolder ==
    Locked /\ crashes = 0 /\ drops = 0
           /\ faults \cap {"is_encrypted", "rollback"} = {} =>
        \E r \in Requests : Holding(r)

\* "Processed by at most one request at a time": while no client breaks or
\* injects, two requests are never between the conditional lock write and
\* their release, whatever fails (acquire_run_lock).
OneHolder ==
    \A r, s \in Requests : Holding(r) /\ Holding(s) => r = s

\* docs/technical/execution-protocol.md:133: "A new client request for a run
\* cancels any in-flight turn for that run". Stated of the tokens: of the
\* turns in flight at most one has not been told to stop.
OneUncancelled ==
    \A r, s \in Requests :
        Begun(r) /\ Begun(s) /\ r # s => r \in cancelled \/ s \in cancelled

\* What a pause asks the client for has not been settled: the calls, the plan
\* or the deferred rows.
Answerable(p) ==
    /\ p.kind = "awaiting_tool" =>
          IF encrypted THEN p.by \notin flushed ELSE calls[p.by] = "pending"
    /\ p.kind = "awaiting_approval" =>
          IF encrypted THEN p.by \notin flushed ELSE plans[p.by] = "draft"
    /\ p.kind = "awaiting_encrypt" => p.by \notin flushed

\* A checkpoint at rest can still be answered, whatever failed, was dropped or
\* crashed before, and whatever other requests read, were refused or broke off
\* meanwhile, as long as each request that took the run found it free and took
\* it with the checkpoint that was stored (advance_streaming reads the row
\* before it takes the lock, and nothing in it looks again).
CheckpointAnswerable ==
    row # None /\ ~row.active /\ ~overtaken => Answerable(row.phase)

\* The same without the condition.
AlwaysAnswerable == row # None /\ ~row.active => Answerable(row.phase)

\* Decisions are final: an approved or rejected plan and an answered tool call
\* are never decided again, under the same condition and unless a break or an
\* inject takes over a run whose lock was left behind.
DecisionsAreFinal ==
    [][~overtaken /\ (\A s \in Requests : snap[s] # None => ~snap[s].active) =>
          \A r \in Requests :
            /\ plans[r] \in {"approved", "rejected"} => plans'[r] = plans[r]
            /\ calls[r] \in {"completed", "failed"} => calls'[r] = calls[r]]_vars

\* No path of a handler ends with the lock set (finish_step, settle, abort):
\* while the process does not crash, the lock is released again and again or a
\* turn stands at the call of its provider, which nothing ends.
LockReleased == []<>(~Locked \/ crashes > 0 \/ \E r \in Requests : pc[r] = "turn")

\* The same, crash or not: a stale lock is dropped at startup.
NeverWedged == []<>(~Locked \/ \E r \in Requests : pc[r] = "turn")

\* A break that got past its reads always brings the lock down, also a lock
\* left behind by a crash.
BreakUnlocks ==
    \A r \in Requests :
        (kind[r] = "break" /\ pc[r] = "mark") ~> (~Locked \/ pc[r] = "gone")

=============================================================================
