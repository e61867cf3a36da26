---------------------------- MODULE RequestProofs ----------------------------
(***************************************************************************)
(* Theorems about requests, for any sets of them and any bounds.           *)
(*                                                                         *)
(* RunLock: the lock of a session has a holder, a checkpoint can be        *)
(* answered and a decision stands, for any assignment of Orchestrators to  *)
(* requests, any number of them served at once and any bounds on failures. *)
(* Typing is the type invariant with what a request has read by the time   *)
(* it stands at a step.                                                    *)
(*                                                                         *)
(* Wire, from "The HTTP boundary" on: a confirmed sign-out holds, for any  *)
(* handles, clones, overlapping calls and seeded credentials, and any      *)
(* other HTTP client that kept a token; and a streamed turn is read        *)
(* faithfully, for any turn and any chunks.                                *)
(***************************************************************************)
EXTENDS RunLock, Wire, FoldFacts, SequenceTheorems, FiniteSetTheorems, TLAPS

\* The steps at which a continuation works on the state it read.

AfterRead == {"input", "admit", "begin", "mark", "dispatch", "turn", "author",
              "release", "restore", "abort"}

\* What a request knows by the time it stands at a step: a continuation has
\* its snapshot, and behind the lock the run input exists.
Reads ==
    \A r \in Requests :
        /\ pc[r] # "new" => kind[r] \in Kinds
        /\ pc[r] \in {"input", "admit", "mark", "dispatch", "restore"} =>
              kind[r] # "execute"
        /\ pc[r] = "mark" => Supersedes(kind[r])
        /\ pc[r] = "persist" => kind[r] = "execute"
        /\ pc[r] \in AfterRead /\ kind[r] # "execute" => snap[r] # None
        /\ \/ pc[r] \in {"admit", "mark", "dispatch"}
           \/ pc[r] = "begin" /\ kind[r] # "execute"
           => input # None

Typing == TypeOK /\ Reads

\* The phases and rows the actions build are well-typed.
LEMMA IdleTyped == Idle \in Phases
  BY DEF Phases

\* A pause authored by a request is a phase.
LEMMA PauseTyped ==
    \A k \in PauseKinds, r \in Requests : [kind |-> k, by |-> r] \in Phases
  BY DEF Phases

\* Setting the lock keeps a row a row.
LEMMA HeldTyped ==
    \A s \in RunStates : Held(s) \in RunStates /\ Held(s).active = TRUE
  BY DEF Held, RunStates

\* The row that settlement writes is a row.
LEMMA UnlockedTyped ==
    \A run \in Requests, p \in Phases : Unlocked(run, p) \in RunStates
  BY DEF Unlocked, RunStates

\* A continuation that read the row works on a well-formed snapshot.
LEMMA SnapTyped ==
    ASSUME Typing, NEW r \in Requests, pc[r] \in AfterRead, kind[r] # "execute"
    PROVE  /\ snap[r] \in RunStates
           /\ snap[r].run \in Requests
           /\ snap[r].phase \in Phases
  <1>1. snap[r] \in RunStates
    BY DEF Typing, TypeOK, Reads
  <1> QED BY <1>1 DEF RunStates

\* The run a request settles is the id of an execute.
LEMMA RunTyped ==
    ASSUME Typing, NEW r \in Requests, pc[r] \in AfterRead
    PROVE  RunOf(r) \in Requests
  BY SnapTyped DEF RunOf

\* The pause a handler answers, or whose calls a supersede fails, was authored
\* by a turn: it is never Idle.
LEMMA PauseAuthored ==
    ASSUME Typing, NEW r \in Requests, pc[r] = "dispatch",
           Answers(r) \/ Outstanding(r)
    PROVE  Pause(r).by \in Requests
  <1>1. kind[r] # "execute" /\ pc[r] \in AfterRead
    BY DEF Typing, Reads, AfterRead
  <1>2. Pause(r) \in Phases
    BY <1>1, SnapTyped DEF Pause
  <1>3. Pause(r).kind # "idle"
    <2>1. CASE Outstanding(r)
      BY <2>1 DEF Outstanding
    <2>2. CASE Answers(r)
      <3>1. kind[r] \in AllKinds
        BY KindsAssumption DEF Typing, Reads
      <3>2. kind[r] \in {"tool_results", "approval_decisions", "decrypted",
                         "sealed"}
        BY <1>1, <2>2, <3>1 DEF Answers, Supersedes, AllKinds
      <3>3. Expected(kind[r]) # "idle"
        BY <3>2, SMTT(30) DEF Expected
      <3> QED BY <2>2, <3>3 DEF Answers
    <2> QED BY <2>1, <2>2
  <1> QED BY <1>2, <1>3 DEF Phases, PauseKinds, Idle

\* A step of one request preserves Typing, action by action.
LEMMA StepTyping ==
    ASSUME Typing, NEW r \in Requests, Step(r)
    PROVE  Typing'
  <1> USE NoneAssumption, IdleTyped DEF Typing, TypeOK, Reads, AfterRead,
     PCs, rows, registry, env, Goto
  <1>1. CASE Open(r)
    BY <1>1 DEF Open
  <1>2. CASE ExecuteBusy(r)
    BY <1>2 DEF ExecuteBusy, Return, Forget, Replies
  <1>3. CASE ExecuteAcquire(r)
    BY <1>3 DEF ExecuteAcquire, Take, RunStates, Idle
  <1>4. CASE Begin(r)
    BY <1>4, OrchestratorAssumption DEF Begin, BeginToken
  <1>5. CASE PersistRunInput(r)
    <2>1. PICK planning \in BOOLEAN :
            /\ input' = [run |-> r, plan |-> planning]
            /\ plan' = [plan EXCEPT ![r] = planning]
      BY <1>5 DEF PersistRunInput
    <2>2. input' \in RunInputs
      BY <2>1 DEF RunInputs
    <2>3. plan' \in [Requests -> BOOLEAN]
      BY <2>1
    <2> QED BY <1>5, <2>2, <2>3 DEF PersistRunInput, RunInputs
  <1>6. CASE PersistRunInputFails(r)
    BY <1>6 DEF PersistRunInputFails, Fault
  <1>7. CASE IsEncryptedFails(r)
    <2>1. faults' \in SUBSET FaultSites /\ UNCHANGED <<crashes, drops>>
      BY <1>7 DEF IsEncryptedFails, Fault
    <2> QED BY <1>7, <2>1 DEF IsEncryptedFails, Return, Forget, Replies
  <1>8. CASE ReadState(r)
    BY <1>8 DEF ReadState
  <1>9. CASE NoActiveRun(r)
    BY <1>9 DEF NoActiveRun, Return, Forget, Replies
  <1>10. CASE ReadInput(r)
    BY <1>10 DEF ReadInput, RunInputs
  <1>11. CASE RunInputMissing(r)
    BY <1>11 DEF RunInputMissing, Return, Forget, Replies
  <1>12. CASE ContinueBusy(r)
    BY <1>12 DEF ContinueBusy, Return, Forget, Replies
  <1>13. CASE ContinueAcquire(r)
    BY <1>13, SnapTyped, HeldTyped DEF ContinueAcquire, Take, Supersedes
  <1>14. CASE Supersede(r)
    BY <1>14, OrchestratorAssumption DEF Supersede, BeginToken, Supersedes
  <1>15. CASE MarkActive(r)
    BY <1>15, SnapTyped, HeldTyped DEF MarkActive, Take
  <1>16. CASE MarkActiveFails(r)
    BY <1>16 DEF MarkActiveFails, Take, Fault
  <1>17. CASE AdmissionFails(r)
    <2>1. faults' \in SUBSET FaultSites /\ UNCHANGED <<crashes, drops>>
      BY <1>17 DEF AdmissionFails, Fault
    <2> QED BY <1>17, <2>1 DEF AdmissionFails, Return, Forget, Replies
  <1>18. CASE Reject(r)
    BY <1>18 DEF Reject, Answers
  <1>19. CASE FlushFails(r)
    BY <1>19 DEF FlushFails, Answers
  <1>20. CASE ResumeToolResults(r)
    BY <1>20, PauseAuthored DEF ResumeToolResults, Flush, CallStatus, Answers
  <1>21. CASE ApprovePlan(r)
    <2>1. Pause(r).by \in Requests
      BY <1>21, PauseAuthored DEF ApprovePlan, Answers
    <2>2. input' \in RunInputs
      BY <1>21 DEF ApprovePlan, Answers, RunInputs
    <2>3. plans' \in [Requests -> PlanStatus] /\ flushed' \in SUBSET Requests
      BY <1>21, <2>1 DEF ApprovePlan, Flush, PlanStatus
    <2>4. plan' \in [Requests -> BOOLEAN]
      BY <1>21 DEF ApprovePlan
    <2> QED BY <1>21, <2>2, <2>3, <2>4 DEF ApprovePlan, Answers, RunInputs
  <1>22. CASE RejectPlan(r)
    BY <1>22, PauseAuthored DEF RejectPlan, Flush, PlanStatus, Answers
  <1>23. CASE ResumeDecrypted(r)
    BY <1>23 DEF ResumeDecrypted, Answers
  <1>24. CASE ResumeSealed(r)
    BY <1>24, PauseAuthored DEF ResumeSealed, Flush, Answers
  <1>25. CASE ResumeInject(r)
    BY <1>25, PauseAuthored DEF ResumeInject, CancelOutstandingTools,
       CallStatus
  <1>26. CASE ResumeBreak(r)
    BY <1>26, PauseAuthored DEF ResumeBreak, CancelOutstandingTools, CallStatus
  <1>27. CASE SupersedeFails(r)
    BY <1>27 DEF SupersedeFails, Answers
  <1>28. CASE HandlerFails(r)
    <2>1. flushed' \in SUBSET Requests
      BY <1>28, PauseAuthored DEF HandlerFails, Flush, Answers
    <2>2. calls' \in [Requests -> CallStatus]
      BY <1>28, PauseAuthored DEF HandlerFails, CallStatus, Answers
    <2>3. plans' \in [Requests -> PlanStatus]
      BY <1>28, PauseAuthored DEF HandlerFails, PlanStatus, Answers
    <2>4. faults' \in SUBSET FaultSites /\ UNCHANGED <<crashes, drops>>
      BY <1>28 DEF HandlerFails, Fault
    <2> QED BY <1>28, <2>1, <2>2, <2>3, <2>4 DEF HandlerFails
  <1>29. CASE TurnNeedsDecrypt(r)
    BY <1>29, PauseTyped DEF TurnNeedsDecrypt, PauseKinds
  <1>30. CASE InvokeReturns(r)
    BY <1>30, PauseTyped DEF InvokeReturns, PauseKinds
  <1>32. CASE TurnFails(r)
    BY <1>32 DEF TurnFails
  <1>33. CASE Author(r)
    BY <1>33 DEF Author, StoreAuthored, CallStatus, PlanStatus
  <1>34. CASE AuthorFails(r)
    BY <1>34 DEF AuthorFails, Fault, StoreAuthored, CallStatus, PlanStatus
  <1>35. CASE Release(r)
    BY <1>35, RunTyped, UnlockedTyped DEF Release, Replies
  <1>36. CASE ReleaseFails(r)
    BY <1>36 DEF ReleaseFails, Fault
  <1>37. CASE Restore(r)
    BY <1>37, RunTyped, SnapTyped, UnlockedTyped DEF Restore, Replies, Pause
  <1>38. CASE Abort(r)
    BY <1>38, RunTyped, UnlockedTyped DEF Abort, Replies
  <1>39. CASE RollbackFails(r)
    BY <1>39 DEF RollbackFails, Fault, Replies
  <1>40. CASE Finish(r)
    BY <1>40, OrchestratorAssumption DEF Finish, Forget
  <1> QED BY <1>1, <1>2, <1>3, <1>4, <1>5, <1>6, <1>7, <1>8, <1>9, <1>10,
     <1>11, <1>12, <1>13, <1>14, <1>15, <1>16, <1>17, <1>18, <1>19, <1>20,
     <1>21, <1>22, <1>23, <1>24, <1>25, <1>26, <1>27, <1>28, <1>29, <1>30,
     <1>32, <1>33, <1>34, <1>35, <1>36, <1>37, <1>38, <1>39, <1>40 DEF
     Step, Admission, Handler, Turn, Settle

\* So does every step of the system, a dropped handler and a crash included.
LEMMA NextTyping == Typing /\ [Next]_vars => Typing'
  <1> SUFFICES ASSUME Typing, [Next]_vars PROVE Typing'
    OBVIOUS
  <1>1. CASE \E r \in Requests : Step(r)
    BY <1>1, StepTyping
  <1>2. ASSUME NEW R \in SUBSET Requests, Forget(R)
        PROVE  /\ snap' \in [Requests -> RunStates \cup {None}]
               /\ plan' \in [Requests -> BOOLEAN]
               /\ next' \in [Requests -> Phases]
               /\ \A r \in Requests \ R : snap'[r] = snap[r]
    BY <1>2, IdleTyped DEF Forget, Typing, TypeOK
  <1>3. ASSUME NEW r \in Requests, Drop(r) PROVE Typing'
    <2>1. Forget({r}) /\ {r} \in SUBSET Requests
      BY <1>3 DEF Drop
    <2>2. pc' = [pc EXCEPT ![r] = "gone"]
      BY <1>3 DEF Drop, Goto
    <2>3. TypeOK'
      BY <1>2, <1>3, <2>1, <2>2 DEF Drop, Typing, TypeOK, PCs, rows, registry
    <2>4. Reads'
      BY <1>2, <1>3, <2>1, <2>2 DEF Drop, Typing, TypeOK, Reads, AfterRead,
         Serving, rows
    <2> QED BY <2>3, <2>4 DEF Typing
  <1>4. CASE Crash
    <2> DEFINE R == {r \in Requests : Serving(r)}
    <2>1. Forget(R) /\ R \in SUBSET Requests
      BY <1>4 DEF Crash
    <2>2. \A r \in Requests : pc'[r] = IF Serving(r) THEN "gone" ELSE pc[r]
      BY <1>4 DEF Crash
    <2> HIDE DEF R
    <2>3. TypeOK'
      BY <1>2, <1>4, <2>1, <2>2 DEF Crash, Typing, TypeOK, PCs, rows
    <2>4. Reads'
      BY <1>4, <2>2 DEF Crash, Typing, TypeOK, Reads, AfterRead, Serving, rows
    <2> QED BY <2>3, <2>4 DEF Typing
  <1>5. CASE Terminated \/ UNCHANGED vars
    BY <1>5 DEF Terminated, vars, rows, registry, locals, env, Typing, TypeOK,
       Reads, AfterRead
  <1> QED BY <1>1, <1>3, <1>4, <1>5 DEF Next

\* Typing is inductive.
LEMMA TypingInvariant == Spec => []Typing
  <1>1. ASSUME Init PROVE Typing
    <2>1. faults \in SUBSET FaultSites
      BY <1>1 DEF Init
    <2>2. row \in RunStates \cup {None} /\ input \in RunInputs \cup {None}
      BY <1>1 DEF Init
    <2> QED BY <1>1, <2>1, <2>2, IdleTyped DEF Init, Typing, TypeOK, Reads,
           AfterRead, PCs, Replies, CallStatus, PlanStatus
  <1> QED BY <1>1, NextTyping, PTL DEF Spec

\* The rows, the registries and the locals of every request keep their types
\* whatever the orchestrator's requests do and whatever fails.
THEOREM TypeCorrect == Spec => []TypeOK
  <1>1. Typing => TypeOK
    BY DEF Typing
  <1> QED BY <1>1, TypingInvariant, PTL

-----------------------------------------------------------------------------
(* Mutual exclusion of the conditional lock *)

\* A holder's lock stands.
HolderLocks == \A r \in Requests : Holding(r) => Locked

\* Only the two conditional writes make a request a holder, and they require
\* the lock that every holder has set to be free.
LEMMA ExclusiveStep ==
    ASSUME Kinds \cap {"inject", "break"} = {},
           Typing, OneHolder, HolderLocks, [Next]_vars
    PROVE  OneHolder' /\ HolderLocks'
  <1> USE NoneAssumption DEF OneHolder, HolderLocks, Holding, Goto, Locked
  <1>1. ASSUME NEW r \in Requests, Admission(r)
        PROVE  OneHolder' /\ HolderLocks'
    <2>1. ~MarkActive(r) /\ ~MarkActiveFails(r) /\ ~Supersede(r)
      BY DEF MarkActive, MarkActiveFails, Supersede, Supersedes, Typing,
         TypeOK,
         Reads
    <2>2. CASE ExecuteAcquire(r)
      <3>0. row' = [run |-> r, phase |-> Idle, active |-> TRUE]
        BY <2>2 DEF ExecuteAcquire
      <3>1. Locked'
        <4>1. row' \in RunStates /\ row'.active
          BY <3>0, IdleTyped DEF RunStates
        <4> QED BY <4>1, NoneAssumption
      <3> QED BY <2>2, <3>1 DEF ExecuteAcquire, Typing, TypeOK
    <2>3. CASE ContinueAcquire(r)
      <3>1. snap[r] \in RunStates
        BY <2>3, SnapTyped DEF ContinueAcquire, Typing, Reads, AfterRead
      <3>2. Locked'
        BY <2>3, <3>1, HeldTyped, NoneAssumption DEF ContinueAcquire
      <3> QED BY <2>3, <3>2 DEF ContinueAcquire, Typing, TypeOK
    <2>4. CASE \/ Open(r) \/ ExecuteBusy(r) \/ Begin(r) \/ PersistRunInput(r)
               \/ PersistRunInputFails(r) \/ IsEncryptedFails(r)
               \/ ReadState(r) \/ NoActiveRun(r) \/ ReadInput(r)
               \/ RunInputMissing(r) \/ ContinueBusy(r) \/ AdmissionFails(r)
      BY <2>4 DEF Open, ExecuteBusy, Begin, PersistRunInput,
         PersistRunInputFails, IsEncryptedFails, ReadState, NoActiveRun,
         ReadInput, RunInputMissing, ContinueBusy, AdmissionFails,
            Return, rows,
         Typing, TypeOK
    <2> QED BY <1>1, <2>1, <2>2, <2>3, <2>4 DEF Admission
  <1>2. ASSUME NEW r \in Requests, Handler(r) PROVE OneHolder' /\ HolderLocks'
    BY <1>2 DEF Handler, Reject, FlushFails, ResumeToolResults,
       ApprovePlan, RejectPlan, ResumeDecrypted, ResumeSealed,
       ResumeInject, ResumeBreak, SupersedeFails, HandlerFails, Answers,
       rows, Typing, TypeOK
  <1>3. ASSUME NEW r \in Requests, Turn(r) PROVE OneHolder' /\ HolderLocks'
    BY <1>3 DEF Turn, TurnNeedsDecrypt, InvokeReturns,
       TurnFails, Author, AuthorFails, rows, Typing, TypeOK
  <1>4. ASSUME NEW r \in Requests, Settle(r) PROVE OneHolder' /\ HolderLocks'
    BY <1>4 DEF Settle, Release, ReleaseFails, Restore, Abort,
       RollbackFails, Finish, Unlocked, rows, Typing, TypeOK
  <1>5. ASSUME NEW r \in Requests, Drop(r) PROVE OneHolder' /\ HolderLocks'
    BY <1>5 DEF Drop, rows, Typing, TypeOK
  <1>6. CASE Crash
    BY <1>6 DEF Crash, Serving, rows, Typing, TypeOK
  <1>7. CASE Terminated \/ UNCHANGED vars
    BY <1>7 DEF Terminated, vars, rows, locals
  <1> QED BY <1>1, <1>2, <1>3, <1>4, <1>5, <1>6, <1>7 DEF Next, Step

\* Without break and inject, no two requests are ever between taking the lock
\* and giving it back, through any faults, crashes and dropped handlers
\* (acquire_run_lock is the only thing that keeps them apart).
THEOREM PatientClientsExclude ==
    ASSUME Kinds \cap {"inject", "break"} = {}
    PROVE  Spec => []OneHolder
  <1>1. Init => OneHolder /\ HolderLocks
    BY DEF Init, OneHolder, HolderLocks, Holding
  <1>2. Typing /\ OneHolder /\ HolderLocks /\ [Next]_vars
          => OneHolder' /\ HolderLocks'
    BY ExclusiveStep
  <1> QED BY <1>1, <1>2, TypingInvariant, PTL DEF Spec

-----------------------------------------------------------------------------
(* The lock has a holder *)

\* Every step that sets the lock leaves its request a holder, and a request
\* stops being a holder by a write that clears the lock.
LEMMA LockStep ==
    ASSUME Typing, LockHasHolder, [Next]_vars
    PROVE  LockHasHolder'
  <1> USE NoneAssumption DEF LockHasHolder, Holding, Goto, Locked, env
  <1>1. ASSUME NEW r \in Requests, Admission(r) PROVE LockHasHolder'
    BY <1>1, SMTT(30) DEF Admission, Open, ExecuteBusy, ExecuteAcquire, Begin,
       PersistRunInput, PersistRunInputFails, IsEncryptedFails, ReadState,
       NoActiveRun, ReadInput, RunInputMissing, ContinueBusy,
       ContinueAcquire, Supersede, MarkActive, MarkActiveFails,
       AdmissionFails, Return, Fault, rows, Typing, TypeOK, Reads
  <1>2. ASSUME NEW r \in Requests, Handler(r) PROVE LockHasHolder'
    BY <1>2 DEF Handler, Reject, FlushFails, ResumeToolResults,
       ApprovePlan, RejectPlan, ResumeDecrypted, ResumeSealed,
       ResumeInject, ResumeBreak, SupersedeFails, HandlerFails, Answers,
       Fault, rows, Typing, TypeOK
  <1>3. ASSUME NEW r \in Requests, Turn(r) PROVE LockHasHolder'
    BY <1>3 DEF Turn, TurnNeedsDecrypt, InvokeReturns,
       TurnFails, Author, AuthorFails, Fault, rows, Typing, TypeOK
  <1>4. ASSUME NEW r \in Requests, Settle(r) PROVE LockHasHolder'
    BY <1>4 DEF Settle, Release, ReleaseFails, Restore, Abort,
       RollbackFails, Finish, Fault, Unlocked, rows, Typing, TypeOK
  <1>5. ASSUME NEW r \in Requests, Drop(r) PROVE LockHasHolder'
    BY <1>5 DEF Drop, Typing, TypeOK
  <1>6. ASSUME Crash PROVE LockHasHolder'
    BY <1>6 DEF Crash, Typing, TypeOK
  <1>7. CASE Terminated \/ UNCHANGED vars
    BY <1>7 DEF Terminated, vars, rows, locals, env
  <1> QED BY <1>1, <1>2, <1>3, <1>4, <1>5, <1>6, <1>7 DEF Next, Step

\* The lock is never left behind with nobody to release it, break and inject
\* and every storage failure included, unless the process dies, a handler
\* future is dropped, the session read after the lock fails or the
\* rolling-back write itself fails (execute_streaming, settle, abort).
THEOREM LockNeverOrphaned == Spec => []LockHasHolder
  <1>1. Init => LockHasHolder
    BY DEF Init, LockHasHolder, Locked
  <1>2. Typing /\ LockHasHolder /\ [Next]_vars => LockHasHolder'
    BY LockStep
  <1> QED BY <1>1, <1>2, TypingInvariant, PTL DEF Spec

-----------------------------------------------------------------------------
(* Checkpoints and decisions *)

\* A request whose turn has stored nothing yet has no rows of its own, and no
\* checkpoint names it.
Unauthored(r) ==
    /\ pc[r] \in {"new", "open", "input", "admit", "mark", "begin", "persist",
                  "dispatch", "turn", "author"} =>
          calls[r] = "none" /\ plans[r] = "none"
    /\ pc[r] \notin {"abort", "finish", "done", "gone"} =>
          r \notin flushed /\ (row # None => row.phase.by # r)

\* The lock of the request that serves the run stands; the checkpoint it took
\* the run with is still stored, and what it will answer or write back is open.
SnapshotFresh(r) ==
    /\ pc[r] \in {"begin", "persist", "dispatch", "turn", "author", "release",
                  "restore"} => Locked
    /\ pc[r] \in {"begin", "dispatch", "restore"} /\ kind[r] # "execute" =>
          /\ row # None /\ snap[r].phase = row.phase
          /\ ~snap[r].active => Answerable(snap[r].phase)
    /\ pc[r] \in {"begin", "dispatch"} /\ kind[r] # "execute"
       /\ ~Supersedes(kind[r]) => ~snap[r].active
    /\ pc[r] = "restore" => Answerable(snap[r].phase)
    /\ pc[r] \in {"author", "release"} => next[r] = Idle \/ next[r].by = r
    /\ pc[r] = "release" => Answerable(next[r])

\* The rows of an encrypted pause exist only after its seals were flushed.
FlushedFirst ==
    encrypted => \A r \in Requests :
                    calls[r] # "none" \/ plans[r] # "none" => r \in flushed

AtRest == row # None /\ ~row.active => Answerable(row.phase)

Settled ==
    /\ OneHolder
    /\ FlushedFirst
    /\ AtRest
    /\ \A r \in Requests : Unauthored(r) /\ SnapshotFresh(r)

\* What holds as long as no request took the run from another one.
Sound == ~overtaken => Settled

\* A step of a request leaves the locals of the others alone.
LEMMA OthersRest ==
    ASSUME Typing, NEW r \in Requests, Step(r), NEW s \in Requests \ {r}
    PROVE  /\ pc'[s] = pc[s] /\ kind'[s] = kind[s] /\ snap'[s] = snap[s]
           /\ next'[s] = next[s]
  <1> USE DEF Typing, TypeOK, Goto, Forget, locals
  <1>1. CASE Admission(r)
    BY <1>1, ZenonT(40) DEF Admission, Open, ExecuteBusy, ExecuteAcquire, Begin,
       PersistRunInput, PersistRunInputFails, IsEncryptedFails, ReadState,
       NoActiveRun, ReadInput, RunInputMissing, ContinueBusy,
       ContinueAcquire, Supersede, MarkActive, MarkActiveFails,
       AdmissionFails, Return
  <1>2. CASE Handler(r)
    BY <1>2 DEF Handler, Reject, FlushFails, ResumeToolResults, ApprovePlan,
       RejectPlan, ResumeDecrypted, ResumeSealed, ResumeInject, ResumeBreak,
       SupersedeFails, HandlerFails
  <1>3. CASE Turn(r)
    BY <1>3 DEF Turn, TurnNeedsDecrypt, InvokeReturns, TurnFails, Author,
       AuthorFails
  <1>4. CASE Settle(r)
    BY <1>4 DEF Settle, Release, ReleaseFails, Restore, Abort,
       RollbackFails, Finish
  <1> QED BY <1>1, <1>2, <1>3, <1>4 DEF Step

\* A request that takes the run without taking it over.
Taking(r) == ExecuteAcquire(r) \/ ContinueAcquire(r) \/ MarkActive(r)
             \/ MarkActiveFails(r)

\* It finds the run free, with the checkpoint it read.
LEMMA TakenFresh ==
    ASSUME Typing, NEW r \in Requests, Taking(r), ~overtaken'
    PROVE  /\ ~overtaken
           /\ \A s \in Requests \ {r} : ~Holding(s)
           /\ snap[r] # None => snap[r] = row
  BY DEF Taking, ExecuteAcquire, ContinueAcquire, MarkActive, MarkActiveFails,
     Take, Typing, TypeOK

\* What was taken over stays so, and only taking the run makes a holder.
LEMMA NeverBack ==
    ASSUME Typing, NEW r \in Requests, Step(r), ~overtaken'
    PROVE  ~overtaken /\ (Taking(r) \/ (Holding(r)' => Holding(r)))
  <1>1. CASE Taking(r)
    BY <1>1, TakenFresh
  <1>2. CASE ~Taking(r)
    <2> USE <1>2 DEF Taking, Holding, registry, Typing, TypeOK, Goto
    <2>1. CASE Admission(r)
      BY <2>1 DEF Admission, Open, ExecuteBusy, Begin, PersistRunInput,
         PersistRunInputFails, IsEncryptedFails, ReadState, NoActiveRun,
         ReadInput, RunInputMissing, ContinueBusy, Supersede,
         AdmissionFails, Return
    <2>2. CASE Handler(r)
      BY <2>2 DEF Handler, Reject, FlushFails, ResumeToolResults,
         ApprovePlan, RejectPlan, ResumeDecrypted, ResumeSealed,
         ResumeInject, ResumeBreak, SupersedeFails, HandlerFails, Answers
    <2>3. CASE Turn(r)
      BY <2>3 DEF Turn, TurnNeedsDecrypt, InvokeReturns, TurnFails, Author,
         AuthorFails
    <2>4. CASE Settle(r)
      BY <2>4 DEF Settle, Release, ReleaseFails, Restore, Abort,
         RollbackFails, Finish
    <2> QED BY <2>1, <2>2, <2>3, <2>4 DEF Step
  <1> QED BY <1>1, <1>2

\* Nobody else serves the run while a request takes it or serves it.
LEMMA HoldersStep ==
    ASSUME Typing, OneHolder, NEW r \in Requests, Step(r), ~overtaken'
    PROVE  /\ OneHolder'
           /\ Holding(r) \/ Taking(r) => \A s \in Requests \ {r} : ~Holding(s)
  <1>1. \A s \in Requests \ {r} : Holding(s)' <=> Holding(s)
    BY OthersRest DEF Holding
  <1>2. CASE Taking(r)
    BY <1>1, <1>2, TakenFresh DEF OneHolder
  <1>3. CASE ~Taking(r)
    BY <1>1, <1>3, NeverBack DEF OneHolder
  <1> QED BY <1>2, <1>3

\* The pause that a handler settles is another request's, authored before, and
\* open unless a crash left the lock that a supersede takes over.
LEMMA PauseOpen ==
    ASSUME Typing, Settled, NEW r \in Requests, pc[r] = "dispatch",
           Answers(r) \/ Outstanding(r)
    PROVE  /\ Pause(r).by \in Requests \ {r}
           /\ pc[Pause(r).by] \notin {"new", "open", "input", "admit", "mark"}
           /\ row # None /\ row.active /\ row.phase = Pause(r)
           /\ ~snap[r].active => Answerable(Pause(r))
           /\ Answers(r) => ~snap[r].active
  <1>1. kind[r] # "execute"
    BY DEF Typing, Reads
  <1>2. Pause(r).by \in Requests
    BY PauseAuthored
  <1>3. row # None /\ row.phase = Pause(r) /\ row.active
        /\ (~snap[r].active => Answerable(Pause(r)))
        /\ (Answers(r) => ~snap[r].active)
    BY <1>1 DEF Settled, SnapshotFresh, Pause, Answers, Locked
  <1>4. \A s \in Requests :
           pc[s] \in {"new", "open", "input", "admit", "mark", "dispatch"} =>
              row.phase.by # s
    BY <1>3, SMTT(30) DEF Settled, Unauthored
  <1> QED BY <1>2, <1>3, <1>4

\* Each step of the request that serves the run keeps its snapshot current
\* and settles only what was open; the others change nothing that matters.
LEMMA SettledStep ==
    ASSUME Typing, Settled, NEW r \in Requests, Step(r), ~overtaken'
    PROVE  /\ FlushedFirst' /\ AtRest'
           /\ \A s \in Requests : Unauthored(s)' /\ SnapshotFresh(s)'
  <1>0. /\ \A s \in Requests \ {r} :
              pc'[s] = pc[s] /\ kind'[s] = kind[s] /\ snap'[s] = snap[s]
              /\ next'[s] = next[s]
        /\ Holding(r) \/ Taking(r) =>
              \A s \in Requests \ {r} : ~Holding(s)
    BY OthersRest, HoldersStep DEF Settled
  <1> USE <1>0, NoneAssumption DEF Settled, FlushedFirst, AtRest, Holding,
     Unauthored, SnapshotFresh, Answerable, Typing, TypeOK, Reads, rows,
     Goto, Idle, Locked
  <1>1. CASE Open(r)
    BY <1>1 DEF Open
  <1>2. CASE ExecuteBusy(r)
    BY <1>2 DEF ExecuteBusy, Return, Forget
  <1>3. CASE ExecuteAcquire(r)
    <2>1. row' # None /\ row'.active /\ row'.phase = Idle
      <3>1. row' = [run |-> r, phase |-> Idle, active |-> TRUE]
        BY <1>3 DEF ExecuteAcquire
      <3>2. row' \in RunStates
        BY <3>1, IdleTyped DEF RunStates
      <3> QED BY <3>1, <3>2, ZenonT(40)
    <2> QED BY <1>3, <2>1 DEF ExecuteAcquire
  <1>4. CASE Begin(r)
    BY <1>4 DEF Begin, BeginToken
  <1>5. CASE PersistRunInput(r)
    BY <1>5 DEF PersistRunInput
  <1>6. CASE PersistRunInputFails(r)
    BY <1>6 DEF PersistRunInputFails
  <1>7. CASE IsEncryptedFails(r)
    BY <1>7 DEF IsEncryptedFails, Return, Forget
  <1>8. CASE ReadState(r)
    BY <1>8 DEF ReadState
  <1>9. CASE NoActiveRun(r)
    BY <1>9 DEF NoActiveRun, Return, Forget
  <1>10. CASE ReadInput(r)
    BY <1>10 DEF ReadInput
  <1>11. CASE RunInputMissing(r)
    BY <1>11 DEF RunInputMissing, Return, Forget
  <1>12. CASE ContinueBusy(r)
    BY <1>12 DEF ContinueBusy, Return, Forget
  <1>13. CASE ContinueAcquire(r)
    <2>1. snap[r] \in RunStates
      BY <1>13, SnapTyped DEF ContinueAcquire, AfterRead, Supersedes
    <2>2. row' # None /\ row'.active /\ row'.phase = snap[r].phase
      BY <1>13, <2>1, HeldTyped DEF ContinueAcquire, Held, RunStates
    <2>3. snap[r] = row /\ ~snap[r].active /\ \A t \in Requests \ {r} : ~Holding(t)
      <3>1. Taking(r) /\ snap[r] # None
        BY <1>13, <2>1 DEF Taking
      <3>2. snap[r] = row /\ \A t \in Requests \ {r} : ~Holding(t)
        BY <3>1, TakenFresh
      <3> QED BY <1>13, <2>1, <3>2 DEF ContinueAcquire, RunStates
    <2>4. row # None /\ row'.phase = row.phase /\ row'.active
          /\ UNCHANGED <<encrypted, calls, plans, flushed, kind, snap, next>>
      BY <1>13, <2>1, <2>2, <2>3 DEF ContinueAcquire
    <2>5. FlushedFirst' /\ AtRest'
      BY <2>4
    <2>6. ASSUME NEW s \in Requests \ {r}
          PROVE  Unauthored(s)' /\ SnapshotFresh(s)'
      BY <2>3, <2>4, <2>6
    <2>7. Unauthored(r)' /\ SnapshotFresh(r)'
      BY <1>13, <2>2, <2>3, <2>4 DEF ContinueAcquire
    <2> QED BY <2>5, <2>6, <2>7
  <1>14. CASE Supersede(r)
    BY <1>14 DEF Supersede, BeginToken
  <1>15. CASE MarkActive(r)
    <2>1. snap[r] \in RunStates
      BY <1>15, SnapTyped DEF MarkActive, AfterRead, Supersedes
    <2>2. row' # None /\ row'.active /\ row'.phase = snap[r].phase
      BY <1>15, <2>1, HeldTyped DEF MarkActive, Held, RunStates
    <2>3. snap[r] = row /\ \A t \in Requests \ {r} : ~Holding(t)
      <3>1. Taking(r) /\ snap[r] # None
        BY <1>15, <2>1 DEF Taking
      <3> QED BY <3>1, TakenFresh
    <2>4. row # None /\ row'.phase = row.phase /\ row'.active
          /\ UNCHANGED <<encrypted, calls, plans, flushed, kind, snap, next>>
      BY <1>15, <2>1, <2>2, <2>3 DEF MarkActive
    <2>5. FlushedFirst' /\ AtRest'
      BY <2>4
    <2>6. ASSUME NEW s \in Requests \ {r}
          PROVE  Unauthored(s)' /\ SnapshotFresh(s)'
      BY <2>3, <2>4, <2>6
    <2>7. Unauthored(r)' /\ SnapshotFresh(r)'
      BY <1>15, <2>2, <2>3, <2>4 DEF MarkActive
    <2> QED BY <2>5, <2>6, <2>7
  <1>16. CASE MarkActiveFails(r)
    BY <1>16 DEF MarkActiveFails
  <1>17. CASE AdmissionFails(r)
    BY <1>17 DEF AdmissionFails, Return, Forget
  <1>18. CASE Reject(r)
    BY <1>18 DEF Reject
  <1>19. CASE FlushFails(r)
    BY <1>19 DEF FlushFails
  <1>20. CASE ResumeToolResults(r)
    <2>1. pc[r] = "dispatch" /\ Answers(r)
      BY <1>20 DEF ResumeToolResults, Answers
    <2> QED BY <1>20, <2>1, PauseOpen DEF ResumeToolResults, Flush
  <1>21. CASE ApprovePlan(r)
    <2>1. pc[r] = "dispatch" /\ Answers(r)
      BY <1>21 DEF ApprovePlan, Answers
    <2> QED BY <1>21, <2>1, PauseOpen DEF ApprovePlan, Flush
  <1>22. CASE RejectPlan(r)
    <2>1. pc[r] = "dispatch" /\ Answers(r)
      BY <1>22 DEF RejectPlan, Answers
    <2> QED BY <1>22, <2>1, PauseOpen DEF RejectPlan, Flush
  <1>23. CASE ResumeDecrypted(r)
    BY <1>23 DEF ResumeDecrypted, Answers
  <1>24. CASE ResumeSealed(r)
    <2>1. pc[r] = "dispatch" /\ Answers(r)
      BY <1>24, SMTT(30) DEF ResumeSealed, Answers
    <2> QED BY <1>24, <2>1, PauseOpen DEF ResumeSealed, Flush
  <1>25. CASE ResumeInject(r)
    <2>1. CASE ~Outstanding(r)
      BY <1>25, <2>1 DEF ResumeInject, CancelOutstandingTools
    <2>2. CASE Outstanding(r)
      <3>1. Pause(r).by \in Requests \ {r} /\ calls[Pause(r).by] # "none"
        BY <1>25, <2>2, PauseOpen DEF ResumeInject, CallRowMissing
      <3> QED BY <1>25, <2>2, <3>1, PauseOpen DEF ResumeInject,
         CancelOutstandingTools
    <2> QED BY <2>1, <2>2
  <1>26. CASE ResumeBreak(r)
    <2>1. CASE ~Outstanding(r)
      BY <1>26, <2>1 DEF ResumeBreak, CancelOutstandingTools
    <2>2. CASE Outstanding(r)
      <3>1. Pause(r).by \in Requests \ {r} /\ calls[Pause(r).by] # "none"
        BY <1>26, <2>2, PauseOpen DEF ResumeBreak, CallRowMissing
      <3> QED BY <1>26, <2>2, <3>1, PauseOpen DEF ResumeBreak,
         CancelOutstandingTools
    <2> QED BY <2>1, <2>2
  <1>27. CASE SupersedeFails(r)
    BY <1>27, SMTT(30) DEF SupersedeFails
  <1>28. CASE HandlerFails(r)
    BY <1>28 DEF HandlerFails, Flush, Answers, Pause
  <1>29. CASE TurnNeedsDecrypt(r)
    BY <1>29 DEF TurnNeedsDecrypt
  <1>30. CASE InvokeReturns(r)
    BY <1>30 DEF InvokeReturns
  <1>32. CASE TurnFails(r)
    BY <1>32 DEF TurnFails
  <1>33. CASE Author(r)
    BY <1>33 DEF Author, StoreAuthored
  <1>34. CASE AuthorFails(r)
    BY <1>34 DEF AuthorFails, StoreAuthored
  <1>35. CASE Release(r)
    <2>1. RunOf(r) \in Requests /\ next[r] \in Phases
      BY <1>35, RunTyped, SnapTyped DEF Release, AfterRead
    <2>2. row' = Unlocked(RunOf(r), next[r]) /\ row' \in RunStates
      BY <1>35, <2>1, UnlockedTyped DEF Release
    <2>3. row' # None /\ row'.active = FALSE /\ row'.phase = next[r]
      BY <2>2, ZenonT(40) DEF Unlocked
    <2> QED BY <1>35, <2>3 DEF Release
  <1>36. CASE ReleaseFails(r)
    BY <1>36 DEF ReleaseFails
  <1>37. CASE Restore(r)
    <2>1. RunOf(r) \in Requests /\ Pause(r) \in Phases
      BY <1>37, RunTyped, SnapTyped DEF Restore, AfterRead, Pause
    <2>2. row' = Unlocked(RunOf(r), Pause(r)) /\ row' \in RunStates
      BY <1>37, <2>1, UnlockedTyped DEF Restore
    <2>3. row' # None /\ row'.active = FALSE /\ row'.phase = Pause(r)
      BY <2>2, ZenonT(40) DEF Unlocked
    <2> QED BY <1>37, <2>3 DEF Restore, Pause
  <1>38. CASE Abort(r)
    BY <1>38 DEF Abort, Unlocked
  <1>39. CASE RollbackFails(r)
    BY <1>39 DEF RollbackFails
  <1>40. CASE Finish(r)
    BY <1>40, SMTT(30) DEF Finish, Forget
  <1> QED BY <1>1, <1>2, <1>3, <1>4, <1>5, <1>6, <1>7, <1>8, <1>9, <1>10,
     <1>11, <1>12, <1>13, <1>14, <1>15, <1>16, <1>17, <1>18, <1>19, <1>20,
     <1>21, <1>22, <1>23, <1>24, <1>25, <1>26, <1>27, <1>28, <1>29, <1>30,
     <1>32, <1>33, <1>34, <1>35, <1>36, <1>37, <1>38, <1>39, <1>40
     DEF      Step, Admission, Handler, Turn, Settle

\* The invariant is inductive, through storage faults, dropped handlers and
\* crashes.
LEMMA SoundNext ==
    ASSUME Typing, Sound, [Next]_vars
    PROVE  Sound'
  <1>1. SUFFICES ASSUME ~overtaken' PROVE Settled'
    BY DEF Sound
  <1>2. ASSUME NEW r \in Requests, Step(r) PROVE Settled'
    <2>1. ~overtaken
      BY <1>1, <1>2, NeverBack
    <2> QED BY <1>1, <1>2, <2>1, SettledStep, HoldersStep DEF Sound, Settled
  <1> USE DEF Sound, Settled, FlushedFirst, AtRest, Unauthored,
     SnapshotFresh, Answerable, OneHolder, Holding, Locked, Typing, TypeOK,
     rows, registry
  <1>3. ASSUME NEW r \in Requests, Drop(r) PROVE Settled'
    <2>1. Settled
      BY <1>1, <1>3 DEF Drop
    <2>2. OneHolder' /\ FlushedFirst' /\ AtRest'
      BY <1>3, <2>1 DEF Drop, Goto
    <2>3. ASSUME NEW s \in Requests PROVE Unauthored(s)' /\ SnapshotFresh(s)'
      <3>1. CASE s = r
        BY <1>3, <2>1, <3>1 DEF Drop, Goto
      <3>2. CASE s # r
        BY <1>3, <2>1, <3>2 DEF Drop, Goto, Forget
      <3> QED BY <3>1, <3>2
    <2> QED BY <2>2, <2>3
  <1>4. CASE Crash
    <2>1. Settled
      BY <1>1, <1>4 DEF Crash
    <2>2. OneHolder' /\ FlushedFirst' /\ AtRest'
      BY <1>4, <2>1 DEF Crash, Serving
    <2>3. ASSUME NEW s \in Requests PROVE Unauthored(s)' /\ SnapshotFresh(s)'
      BY <1>4, <2>1 DEF Crash, Serving
    <2> QED BY <2>2, <2>3
  <1>5. CASE Terminated \/ UNCHANGED vars
    BY <1>1, <1>5 DEF Terminated, vars, locals
  <1> QED BY <1>2, <1>3, <1>4, <1>5 DEF Next

\* The invariant holds throughout.
LEMMA SoundInvariant == Spec => []Sound
  <1>1. Init => Sound
    BY DEF Init, Sound, Settled, OneHolder, FlushedFirst, AtRest,
       Unauthored, SnapshotFresh, Holding
  <1>2. Typing /\ Sound /\ [Next]_vars => Sound'
    BY SoundNext
  <1> QED BY <1>1, <1>2, TypingInvariant, PTL DEF Spec

\* A checkpoint at rest can be answered, for any number of requests served at
\* the same time and whatever failed, was dropped or crashed on the way to it,
\* as long as every request that took the run found it free and unchanged
\* (finish_step, settle and abort, with the rows persist.rs writes before
\* them).
THEOREM CheckpointsStayAnswerable == Spec => []CheckpointAnswerable
  <1>1. Sound => CheckpointAnswerable
    BY DEF Sound, Settled, AtRest, CheckpointAnswerable
  <1> QED BY <1>1, SoundInvariant, PTL

\* A decision that was stored is not stored again, under the same condition
\* (resume_approval_decisions, resume_tool_results and the supersede's
\* cancel_outstanding_tools).
THEOREM DecidedOnce == Spec => DecisionsAreFinal
  <1> DEFINE Unlocks == \A s \in Requests : snap[s] # None => ~snap[s].active
             Final(r) ==
               /\ plans[r] \in {"approved", "rejected"} => plans'[r] = plans[r]
               /\ calls[r] \in {"completed", "failed"} => calls'[r] = calls[r]
  <1>1. ASSUME Typing, Settled, Unlocks, [Next]_vars, NEW s \in Requests
        PROVE  Final(s)
    <2>1. CASE UNCHANGED <<calls, plans>>
      BY <2>1
    <2>2. ASSUME NEW r \in Requests, pc[r] = "dispatch",
                 Answers(r) \/ Outstanding(r)
          PROVE  Answerable(Pause(r))
      <3>1. ~snap[r].active
        BY <1>1, <2>2, NoneAssumption DEF Typing, Reads, AfterRead
      <3> QED BY <1>1, <2>2, <3>1, PauseOpen
    <2>3. ASSUME NEW r \in Requests, Handler(r) PROVE Final(s)
      <3>1. CASE \/ Reject(r) \/ FlushFails(r) \/ ResumeDecrypted(r)
                 \/ ResumeSealed(r) \/ SupersedeFails(r)
        BY <2>1, <3>1 DEF Reject, FlushFails, ResumeDecrypted, ResumeSealed,
           SupersedeFails, rows
      <3>2. CASE ResumeToolResults(r) \/ ApprovePlan(r) \/ RejectPlan(r)
        BY <1>1, <2>2, <3>2 DEF ResumeToolResults, ApprovePlan, RejectPlan,
           Answers, Answerable, Settled, FlushedFirst, Expected, Typing, TypeOK
      <3>3. CASE ResumeInject(r) \/ ResumeBreak(r)
        BY <1>1, <2>2, <3>3 DEF ResumeInject, ResumeBreak, Outstanding,
           CancelOutstandingTools, CallRowMissing, Answerable, Settled,
           FlushedFirst, Typing, TypeOK
      <3>4. CASE HandlerFails(r)
        BY <1>1, <2>2, <3>4 DEF HandlerFails, Answers, Answerable, Settled,
           FlushedFirst, Expected, Typing, TypeOK
      <3> QED BY <2>3, <3>1, <3>2, <3>3, <3>4 DEF Handler
    <2>4. ASSUME NEW r \in Requests, Turn(r) PROVE Final(s)
      <3>1. CASE Author(r) \/ AuthorFails(r)
        BY <1>1, <3>1 DEF Author, AuthorFails, StoreAuthored, Settled,
           Unauthored, Typing, TypeOK
      <3> QED BY <2>1, <2>4, <3>1 DEF Turn, TurnNeedsDecrypt, InvokeReturns,
         TurnFails, rows
    <2>5. ASSUME NEW r \in Requests, Admission(r) PROVE Final(s)
      BY <2>1, <2>5 DEF Admission, Open, ExecuteBusy, ExecuteAcquire, Begin,
         PersistRunInput, PersistRunInputFails, IsEncryptedFails, ReadState,
         NoActiveRun, ReadInput, RunInputMissing, ContinueBusy,
         ContinueAcquire, Supersede, MarkActive, MarkActiveFails,
         AdmissionFails, rows
    <2>6. ASSUME NEW r \in Requests, Settle(r) \/ Drop(r) PROVE Final(s)
      BY <2>1, <2>6 DEF Settle, Release, ReleaseFails, Restore, Abort,
         RollbackFails, Finish, Drop, rows
    <2>7. CASE Crash \/ Terminated \/ UNCHANGED vars
      BY <2>1, <2>7 DEF Crash, Terminated, vars, rows
    <2> QED BY <1>1, <2>3, <2>4, <2>5, <2>6, <2>7 DEF Next, Step
  <1>2. Typing /\ Sound /\ [Next]_vars
          => [~overtaken /\ Unlocks => \A r \in Requests : Final(r)]_vars
    BY <1>1 DEF Sound
  <1> QED BY <1>2, TypingInvariant, SoundInvariant, PTL DEF Spec,
     DecisionsAreFinal

-----------------------------------------------------------------------------
(* The HTTP boundary: types *)

Codes == ApiErrorCodes \cup {"none"}

AnswerType == [status : Nat, json : BOOLEAN, code : Codes, mints : Nat]

RequestType ==
    [st : {"sent", "admitted", "authenticated", "answered", "taken"},
     op : Methods, bearer : BOOLEAN, tok : Nat, key : Nat,
     providers : BOOLEAN, query : BOOLEAN, answer : AnswerType,
     served : BOOLEAN, dead : BOOLEAN]

\* The state the proofs are about: what clients hold, the requests and the
\* credentials of the router.
Shapes ==
    /\ tokenCell \in [Handles -> Cells] /\ keyCell \in [Handles -> Cells]
    /\ key \in [Cells -> Nat] /\ token \in [Cells -> Nat]
    /\ outed \in [Cells -> SUBSET Nat]
    /\ reqs \in Seq(RequestType)
    /\ waiting \in [Handles -> Nat]
    /\ \A h \in Handles : waiting[h] =< Len(reqs)
    /\ keys \in Nat /\ minted \in Nat /\ open \subseteq 1..minted

\* The answers the router builds are answers.
LEMMA AnswersTyped ==
    /\ NoAnswer \in AnswerType /\ TooMany \in AnswerType
    /\ \A n \in Nat : Ok(n) \in AnswerType
    /\ \A c \in ApiErrorCodes : Fail(c) \in AnswerType
  <1>1. \A c \in ApiErrorCodes : Status(c) \in Nat
    BY DEF Status
  <1> QED BY <1>1 DEF NoAnswer, TooMany, Ok, Fail, AnswerType, Codes

\* The step replaces request i by v, and v presents what i presented.
Replaces(i, v) ==
    /\ reqs' \in Seq(RequestType) /\ Len(reqs') = Len(reqs)
    /\ \A j \in 1..Len(reqs) : reqs'[j] = IF j = i THEN v ELSE reqs[j]
    /\ v.op = reqs[i].op /\ v.tok = reqs[i].tok
    /\ v.dead = reqs[i].dead /\ v.query = reqs[i].query

\* Moving a request on to the next layer, or handing its answer over, leaves
\* every other request alone.
LEMMA StateChanges ==
    ASSUME reqs \in Seq(RequestType), NEW i \in 1..Len(reqs),
           NEW st \in {"admitted", "authenticated", "taken"},
           reqs' = [reqs EXCEPT ![i].st = st]
    PROVE  \E v \in RequestType :
              /\ Replaces(i, v) /\ v.st = st
              /\ v.answer = reqs[i].answer /\ v.served = reqs[i].served
  <1> DEFINE v == [reqs[i] EXCEPT !.st = st]
  <1>1. reqs[i] \in RequestType
    BY ElementOfSeq
  <1>2. /\ v \in RequestType /\ v.st = st /\ v.answer = reqs[i].answer
        /\ v.served = reqs[i].served /\ v.op = reqs[i].op
        /\ v.tok = reqs[i].tok /\ v.dead = reqs[i].dead
        /\ v.query = reqs[i].query
    BY <1>1 DEF RequestType
  <1>3. reqs' = [reqs EXCEPT ![i] = v]
    OBVIOUS
  <1> HIDE DEF v
  <1>4. Replaces(i, v)
    BY <1>2, <1>3, ExceptSeq DEF Replaces
  <1> QED BY <1>2, <1>4

\* So does answering it.
LEMMA AnswerChanges ==
    ASSUME reqs \in Seq(RequestType), NEW i \in 1..Len(reqs),
           NEW a \in AnswerType, reqs' = Answer(i, a)
    PROVE  \E v \in RequestType :
              /\ Replaces(i, v) /\ v.st = "answered"
              /\ v.answer = a /\ v.served = reqs[i].served
  <1> DEFINE v == [reqs[i] EXCEPT !.st = "answered", !.answer = a]
  <1>1. reqs[i] \in RequestType
    BY ElementOfSeq
  <1>2. /\ v \in RequestType /\ v.st = "answered" /\ v.answer = a
        /\ v.served = reqs[i].served /\ v.op = reqs[i].op
        /\ v.tok = reqs[i].tok /\ v.dead = reqs[i].dead
        /\ v.query = reqs[i].query
    BY <1>1 DEF RequestType
  <1>3. reqs' = [reqs EXCEPT ![i] = v]
    BY <1>1 DEF Answer, RequestType
  <1> HIDE DEF v
  <1>4. Replaces(i, v)
    BY <1>2, <1>3, ExceptSeq DEF Replaces
  <1> QED BY <1>2, <1>4

\* So does serving it.
LEMMA ServeChanges ==
    ASSUME reqs \in Seq(RequestType), NEW i \in 1..Len(reqs),
           NEW a \in AnswerType, reqs' = Serve(i, a)
    PROVE  \E v \in RequestType :
              /\ Replaces(i, v) /\ v.st = "answered" /\ v.answer = a
  <1> DEFINE v == [reqs[i] EXCEPT !.st = "answered", !.answer = a,
                                  !.served = TRUE]
  <1>1. reqs[i] \in RequestType
    BY ElementOfSeq
  <1>2. /\ v \in RequestType /\ v.st = "answered" /\ v.answer = a
        /\ v.op = reqs[i].op /\ v.tok = reqs[i].tok
        /\ v.dead = reqs[i].dead /\ v.query = reqs[i].query
    BY <1>1 DEF RequestType
  <1>3. reqs' = [reqs EXCEPT ![i] = v]
    BY <1>1 DEF Serve, Answer, RequestType
  <1> HIDE DEF v
  <1>4. Replaces(i, v)
    BY <1>2, <1>3, ExceptSeq DEF Replaces
  <1> QED BY <1>2, <1>4

-----------------------------------------------------------------------------
(* The invariant *)

\* The session token an answer carries, 0 when it carries none.
Carries(i) == IF reqs[i].op = "sign_in" THEN reqs[i].answer.mints ELSE 0

\* Whatever is held, signed out, presented or handed out was minted, and
\* handed out once.
MintedOnce ==
    /\ \A c \in Cells : token[c] =< minted /\ outed[c] \subseteq 1..minted
    /\ \A i \in 1..Len(reqs) : reqs[i].tok =< minted /\ Carries(i) =< minted
    /\ \A i, j \in 1..Len(reqs) :
          Carries(i) = Carries(j) /\ Carries(i) # 0 => i = j

\* A token in an answer that nobody took is nowhere else.
Undelivered ==
    \A i \in 1..Len(reqs) :
        /\ reqs[i].st \notin {"answered", "taken"} => reqs[i].answer.mints = 0
        /\ reqs[i].st = "answered" /\ Carries(i) # 0 =>
              /\ \A c \in Cells :
                    token[c] # Carries(i) /\ Carries(i) \notin outed[c]
              /\ \A j \in 1..Len(reqs) : reqs[j].tok # Carries(i)

\* A confirmed sign-out closed its token, and closed tokens stay closed.
SignOutCloses ==
    /\ \A c \in Cells : outed[c] \cap open = {}
    /\ \A i \in 1..Len(reqs) :
          /\ reqs[i].op \in PublicOps => reqs[i].tok = 0
          /\ reqs[i].op = "sign_out" => reqs[i].tok # 0 /\ ~reqs[i].query
          /\ reqs[i].op = "sign_out" /\ reqs[i].st = "answered"
             /\ Outcome(reqs[i].answer) = "ok" => reqs[i].tok \notin open

\* A request that presents a closed token gets no further than `authenticate`.
DeadStays ==
    \A i \in 1..Len(reqs) :
        reqs[i].dead => /\ reqs[i].tok # 0 /\ reqs[i].tok \notin open
                        /\ reqs[i].st # "authenticated"
                        /\ ~reqs[i].served

IInv ==
    /\ Shapes /\ MintedOnce /\ Undelivered /\ SignOutCloses /\ DeadStays
    /\ SignedOutNotHeld

\* Nothing here depends on the credentials alone: a step that leaves tokens,
\* requests and the router's tokens as they are keeps the invariant.
LEMMA Untouched ==
    ASSUME IInv, keyCell' \in [Handles -> Cells], key' \in [Cells -> Nat],
           waiting' \in [Handles -> Nat],
           \A h \in Handles : waiting'[h] =< Len(reqs), keys' \in Nat,
           UNCHANGED <<tokenCell, token, outed, reqs, minted, open>>
    PROVE  IInv'
  BY DEF IInv, Shapes, MintedOnce, Undelivered, SignOutCloses, DeadStays,
     SignedOutNotHeld, Carries

\* A builder that restores a token restores one that is open.
LEMMA SeedKeeps ==
    ASSUME IInv, NEW h \in Handles, NEW t \in Known, WithSessionToken(h, t)
    PROVE  IInv'
  <1> DEFINE c == SeededCell(h, tokenCell)
  <1>1. c \in Cells
    BY DEF SeededCell, Cells, IInv, Shapes
  <1>2. /\ tokenCell' \in [Handles -> Cells] /\ token' \in [Cells -> Nat]
        /\ \A d \in Cells : token'[d] = IF d = c THEN t ELSE token[d]
        /\ t \in open /\ t \in Nat /\ t =< minted
    BY <1>1 DEF WithSessionToken, IInv, Shapes
  <1>3. UNCHANGED <<keyCell, key, outed, waiting, reqs, keys, minted, open>>
    BY DEF WithSessionToken, callVars, routerVars
  <1>4. PICK k \in 1..Len(reqs) :
           reqs[k].st = "taken" /\ Carries(k) = t /\ t # 0
    BY DEF Known, Carries
  <1> HIDE DEF c
  <1>5. Shapes' /\ MintedOnce'
    BY <1>2, <1>3 DEF IInv, Shapes, MintedOnce, Carries
  <1>6. Undelivered'
    BY <1>2, <1>3, <1>4 DEF IInv, Undelivered, MintedOnce, Carries
  <1>7. SignOutCloses' /\ DeadStays' /\ SignedOutNotHeld'
    BY <1>2, <1>3 DEF IInv, SignOutCloses, DeadStays, SignedOutNotHeld
  <1> QED BY <1>5, <1>6, <1>7 DEF IInv

\* A request is sent with a token that is held, kept by another client, or
\* none.
LEMMA SendKeeps ==
    ASSUME IInv, NEW op \in Methods, NEW b \in BOOLEAN, NEW q \in BOOLEAN,
           NEW t \in Nat, NEW k \in Nat, t =< minted,
           \A i \in 1..Len(reqs) : reqs[i].st = "answered" /\ Carries(i) # 0
                                     => Carries(i) # t,
           op \in PublicOps => t = 0, op = "sign_out" => t # 0 /\ ~q,
           reqs' = Append(reqs, Request(op, b, t, k, q)),
           waiting' \in [Handles -> Nat],
           \A h \in Handles : waiting'[h] =< Len(reqs) + 1,
           UNCHANGED <<clientVars, routerVars>>
    PROVE  IInv'
  <1> DEFINE r == Request(op, b, t, k, q)
  <1>1. r.dead => t # 0 /\ t \notin open
    <2>1. r.dead = (t \in UNION {outed[c] : c \in Cells})
      BY DEF Request
    <2>2. SUFFICES ASSUME NEW c \in Cells, t \in outed[c]
                   PROVE  t # 0 /\ t \notin open
      BY <2>1
    <2> QED BY <2>2 DEF IInv, Shapes, MintedOnce, SignOutCloses
  <1>2. /\ r \in RequestType /\ r.st = "sent" /\ r.op = op /\ r.tok = t
        /\ r.query = q /\ r.answer = NoAnswer /\ ~r.served
    <2>1. /\ (op \in ProviderOps) \in BOOLEAN
          /\ (t \in UNION {outed[c] : c \in Cells}) \in BOOLEAN
      OBVIOUS
    <2> QED BY <2>1, AnswersTyped DEF Request, RequestType
  <1>3. PICK n \in Nat : n = Len(reqs)
    BY DEF IInv, Shapes
  <1>4. reqs \in Seq(RequestType) /\ reqs' = Append(reqs, r)
    BY DEF IInv, Shapes
  <1> HIDE DEF r
  <1>5. /\ reqs' \in Seq(RequestType) /\ Len(reqs') = n + 1
        /\ \A i \in 1..n : reqs'[i] = reqs[i]
        /\ reqs'[n + 1] = r
        /\ \A i \in 1..Len(reqs') : i \in 1..n \/ i = n + 1
    BY <1>2, <1>3, <1>4, AppendProperties
  <1>6. Carries(n + 1)' = 0 /\ \A i \in 1..n : Carries(i)' = Carries(i)
    BY <1>2, <1>5 DEF Carries, NoAnswer
  <1>7. UNCHANGED <<keyCell, tokenCell, key, token, outed, keys, minted, open>>
    BY DEF clientVars, routerVars
  <1>8. Shapes'
    BY <1>3, <1>5, <1>7 DEF IInv, Shapes
  <1>9. MintedOnce'
    <2>1. \A c \in Cells :
             token'[c] =< minted' /\ outed'[c] \subseteq 1..minted'
      BY <1>7 DEF IInv, MintedOnce
    <2>2. \A i \in 1..Len(reqs') :
             reqs'[i].tok =< minted' /\ Carries(i)' =< minted'
      BY <1>2, <1>3, <1>5, <1>6, <1>7 DEF IInv, MintedOnce, Shapes
    <2>3. \A i, j \in 1..Len(reqs') :
             Carries(i)' = Carries(j)' /\ Carries(i)' # 0 => i = j
      BY <1>3, <1>5, <1>6 DEF IInv, MintedOnce
    <2> QED BY <2>1, <2>2, <2>3 DEF MintedOnce
  <1>10. Undelivered'
    BY <1>2, <1>3, <1>5, <1>6, <1>7 DEF IInv, Undelivered, NoAnswer
  <1>11. SignOutCloses'
    BY <1>2, <1>3, <1>5, <1>7 DEF IInv, SignOutCloses
  <1>12. DeadStays' /\ SignedOutNotHeld'
    BY <1>1, <1>2, <1>3, <1>5, <1>7 DEF IInv, DeadStays, SignedOutNotHeld
  <1> QED BY <1>8, <1>9, <1>10, <1>11, <1>12 DEF IInv

\* A layer moves one request on: it mints nothing, lets no closed token pass
\* and confirms a sign-out only when the token is closed.
LEMMA MoveKeeps ==
    ASSUME IInv, NEW i \in 1..Len(reqs), NEW v \in RequestType,
           Replaces(i, v),
           v.op = "sign_in" => v.answer.mints = 0,
           v.st \notin {"answered", "taken"} => v.answer.mints = 0,
           v.dead => v.st # "authenticated" /\ ~v.served,
           v.op = "sign_out" /\ v.st = "answered" /\ Outcome(v.answer) = "ok"
             => v.tok \notin open',
           keys' \in Nat, open' \subseteq open,
           UNCHANGED <<clientVars, waiting, minted>>
    PROVE  IInv'
  <1> USE DEF Replaces
  <1>1. UNCHANGED <<keyCell, tokenCell, key, token, outed>>
    BY DEF clientVars
  <1>2. \A j \in 1..Len(reqs) : Carries(j)' \in {0, Carries(j)}
    BY DEF Carries
  <1>3. Shapes'
    BY <1>1 DEF IInv, Shapes
  <1>4. MintedOnce'
    <2>1. \A c \in Cells :
             token'[c] =< minted' /\ outed'[c] \subseteq 1..minted'
      BY <1>1 DEF IInv, MintedOnce
    <2>2. \A j \in 1..Len(reqs') :
             reqs'[j].tok =< minted' /\ Carries(j)' =< minted'
      <3>1. minted \in Nat /\ minted' = minted /\ Len(reqs') = Len(reqs)
        BY DEF IInv, Shapes
      <3>2. \A j \in 1..Len(reqs) :
               reqs[j].tok =< minted /\ Carries(j) =< minted
        BY DEF IInv, MintedOnce
      <3>3. \A j \in 1..Len(reqs) : reqs'[j].tok = reqs[j].tok
        OBVIOUS
      <3> QED BY <1>2, <3>1, <3>2, <3>3
    <2>3. \A j, k \in 1..Len(reqs') :
             Carries(j)' = Carries(k)' /\ Carries(j)' # 0 => j = k
      BY <1>2 DEF IInv, MintedOnce
    <2> QED BY <2>1, <2>2, <2>3 DEF MintedOnce
  <1>5. Undelivered'
    <2>1. \A j \in 1..Len(reqs) : Carries(j)' # 0 =>
             j # i /\ reqs'[j] = reqs[j] /\ Carries(j)' = Carries(j)
      BY <1>2 DEF Carries
    <2>2. \A j \in 1..Len(reqs) : reqs'[j].tok = reqs[j].tok
      OBVIOUS
    <2>3. \A j \in 1..Len(reqs) :
             reqs'[j].st \notin {"answered", "taken"}
               => reqs'[j].answer.mints = 0
      BY DEF IInv, Undelivered
    <2> QED BY <1>1, <2>1, <2>2, <2>3 DEF IInv, Undelivered
  <1>6. SignOutCloses'
    BY <1>1 DEF IInv, SignOutCloses
  <1>7. DeadStays' /\ SignedOutNotHeld'
    BY <1>1 DEF IInv, DeadStays, SignedOutNotHeld
  <1> QED BY <1>3, <1>4, <1>5, <1>6, <1>7 DEF IInv

\* What the layers in front of the handlers do to a request.
LEMMA LayersKeep ==
    ASSUME IInv, NEW i \in 1..Len(reqs), UNCHANGED clientVars,
           RejectQueryCredentials(i) \/ RateLimit(i) \/ Authenticate(i)
    PROVE  IInv'
  <1> DEFINE r == reqs[i]
  <1>0. reqs \in Seq(RequestType) /\ r \in RequestType
    BY ElementOfSeq DEF IInv, Shapes
  <1>1. /\ r \in RequestType
        /\ r.st \in {"sent", "admitted"} /\ r.answer.mints = 0
        /\ (r.dead => ~r.served /\ r.tok \notin open)
        /\ (r.op = "sign_out" => ~r.query /\ r.tok # 0)
    BY ElementOfSeq DEF IInv, Shapes, Undelivered, DeadStays, SignOutCloses,
       RejectQueryCredentials, RateLimit, Authenticate
  <1>2. UNCHANGED <<clientVars, waiting, minted, keys, open>> /\ keys' \in Nat
    BY DEF RejectQueryCredentials, RateLimit, Authenticate, routerVars, IInv,
       Shapes
  <1>3. ASSUME NEW a \in AnswerType, a.mints = 0, reqs' = Answer(i, a),
               r.op = "sign_out" /\ Outcome(a) = "ok" => r.tok \notin open
        PROVE  IInv'
    <2>1. PICK v \in RequestType :
             /\ Replaces(i, v) /\ v.st = "answered"
             /\ v.answer = a /\ v.served = r.served
      BY <1>0, <1>3, AnswerChanges
    <2>2. v.op = r.op /\ v.tok = r.tok /\ v.dead = r.dead
      BY <2>1 DEF Replaces
    <2> QED BY <1>1, <1>2, <1>3, <2>1, <2>2, MoveKeeps
  <1>4. ASSUME NEW st \in {"admitted", "authenticated", "taken"},
               st # "taken", reqs' = [reqs EXCEPT ![i].st = st],
               st = "authenticated" => r.tok \in open
        PROVE  IInv'
    <2>1. PICK v \in RequestType :
             /\ Replaces(i, v) /\ v.st = st
             /\ v.answer = r.answer /\ v.served = r.served
      <3>1. reqs' = [reqs EXCEPT ![i].st = st]
        BY <1>4
      <3> QED BY <1>0, <3>1, StateChanges
    <2>2. v.op = r.op /\ v.tok = r.tok /\ v.dead = r.dead
      BY <2>1 DEF Replaces
    <2> QED BY <1>1, <1>2, <1>4, <2>1, <2>2, MoveKeeps
  <1>5. CASE RejectQueryCredentials(i)
    <2> DEFINE a == Fail("credentials_in_query")
    <2>1. a \in AnswerType /\ a.mints = 0
      BY AnswersTyped DEF Fail, ApiErrorCodes
    <2> HIDE DEF a
    <2> QED BY <1>1, <1>3, <1>5, <2>1 DEF RejectQueryCredentials, a
  <1>6. CASE RateLimit(i)
    <2>1. /\ TooMany \in AnswerType /\ TooMany.mints = 0
          /\ Outcome(TooMany) # "ok"
      BY AnswersTyped DEF TooMany, Outcome, IsSuccess
    <2>2. \/ reqs' = Answer(i, TooMany)
          \/ reqs' = [reqs EXCEPT ![i].st = "admitted"]
      BY <1>6 DEF RateLimit
    <2> QED BY <1>3, <1>4, <2>1, <2>2
  <1>7. CASE Authenticate(i)
    <2> DEFINE a == Fail(Verdict(r))
    <2>1. CASE Verdict(r) = "ok"
      <3>1. r.tok \in open
        BY <1>1, <2>1 DEF Verdict, RequestType
      <3> QED BY <1>4, <1>7, <2>1, <3>1 DEF Authenticate
    <2>2. CASE Verdict(r) # "ok"
      <3>1. /\ Verdict(r) \in {"missing_credentials", "invalid_token",
                               "token_revoked"}
            /\ r.tok = 0 \/ r.tok \notin open
        BY <2>2 DEF Verdict
      <3>2. a \in AnswerType /\ a.mints = 0
        BY <3>1, AnswersTyped
           DEF Fail, ApiErrorCodes, CoreErrorCodes, AuthCodes
      <3>3. reqs' = Answer(i, a)
        BY <1>7, <2>2 DEF Authenticate
      <3> HIDE DEF a
      <3> QED BY <1>1, <1>3, <3>1, <3>2, <3>3
    <2> QED BY <2>1, <2>2
  <1> QED BY <1>5, <1>6, <1>7

\* A handler that runs is a handler of a request whose token is open, or of one
\* that carries none.
LEMMA RunnableLive ==
    ASSUME IInv, NEW i \in 1..Len(reqs), Runnable(i)
    PROVE  /\ reqs \in Seq(RequestType) /\ reqs[i] \in RequestType
           /\ ~reqs[i].dead
           /\ reqs[i].st \notin {"answered", "taken"}
  BY ElementOfSeq DEF IInv, Shapes, DeadStays, SignOutCloses, Runnable

\* The handlers that mint no session token.
LEMMA HandlersKeep ==
    ASSUME IInv, NEW i \in 1..Len(reqs), UNCHANGED clientVars,
           \/ HandleBootstrap(i) \/ HandleSignOut(i) \/ HandleOther(i)
           \/ HandleStream(i)
           \/ HandleSignIn(i) /\ reqs[i].key = 0
    PROVE  IInv'
  <1> DEFINE r == reqs[i]
  <1>1. /\ reqs \in Seq(RequestType) /\ r \in RequestType
        /\ ~r.dead
    BY RunnableLive DEF HandleBootstrap, HandleSignOut, HandleOther,
       HandleStream, HandleSignIn
  <1>2. ASSUME NEW a \in AnswerType, r.op = "sign_in" => a.mints = 0,
               reqs' = Serve(i, a), open' \subseteq open, keys' \in Nat,
               r.op = "sign_out" => r.tok \notin open',
               UNCHANGED <<waiting, minted>>
        PROVE  IInv'
    <2>1. PICK v \in RequestType :
             Replaces(i, v) /\ v.st = "answered" /\ v.answer = a
      BY <1>1, <1>2, ServeChanges
    <2>2. v.op = r.op /\ v.tok = r.tok /\ v.dead = r.dead
      BY <2>1 DEF Replaces
    <2> QED BY <1>1, <1>2, <2>1, <2>2, MoveKeeps
  <1>3. Ok(0) \in AnswerType /\ Ok(0).mints = 0
    BY AnswersTyped DEF Ok
  <1>4. keys \in Nat
    BY DEF IInv, Shapes
  <1>5. CASE HandleBootstrap(i)
    <2>1. Ok(keys + 1) \in AnswerType
      BY <1>4, AnswersTyped
    <2> QED BY <1>2, <1>4, <1>5, <2>1 DEF HandleBootstrap
  <1>6. CASE HandleSignOut(i)
    BY <1>2, <1>3, <1>4, <1>6 DEF HandleSignOut
  <1>7. CASE HandleOther(i)
    <2>1. PICK a : /\ a = Ok(0) \/ \E e \in TurnErrors : a = Fail(e)
                   /\ reqs' = Serve(i, a)
      BY <1>7 DEF HandleOther
    <2>2. a \in AnswerType /\ a.mints = 0
      BY <1>3, <2>1, AnswersTyped, TurnErrorsAssumption DEF Fail
    <2> QED BY <1>2, <1>4, <1>7, <2>1, <2>2 DEF HandleOther, routerVars
  <1>8. CASE HandleStream(i)
    BY <1>2, <1>3, <1>4, <1>8 DEF HandleStream, StreamOps, routerVars
  <1>9. CASE HandleSignIn(i) /\ r.key = 0
    <2> DEFINE a == Fail("missing_credentials")
    <2>1. a \in AnswerType /\ a.mints = 0
      BY AnswersTyped DEF Fail, ApiErrorCodes, CoreErrorCodes, AuthCodes
    <2>2. reqs' = Serve(i, a) /\ UNCHANGED <<waiting, minted, open, keys>>
      BY <1>9 DEF HandleSignIn
    <2> HIDE DEF a
    <2> QED BY <1>2, <1>4, <1>9, <2>1, <2>2 DEF HandleSignIn
  <1> QED BY <1>5, <1>6, <1>7, <1>8, <1>9

\* A sign-in mints a token that was never minted before.
LEMMA SignInKeeps ==
    ASSUME IInv, NEW i \in 1..Len(reqs), UNCHANGED clientVars,
           HandleSignIn(i), reqs[i].key # 0
    PROVE  IInv'
  <1> DEFINE a == Ok(minted + 1)
  <1>1. /\ reqs \in Seq(RequestType) /\ ~reqs[i].dead
        /\ reqs[i].op = "sign_in"
    BY RunnableLive DEF HandleSignIn
  <1>2. /\ minted \in Nat /\ minted' = minted + 1
        /\ open' = open \cup {minted + 1}
    BY DEF HandleSignIn, IInv, Shapes
  <1>3. a \in AnswerType /\ a.mints = minted + 1
    BY <1>2, AnswersTyped DEF Ok
  <1>4. reqs' = Serve(i, a)
    BY DEF HandleSignIn
  <1> HIDE DEF a
  <1>5. PICK v \in RequestType :
           Replaces(i, v) /\ v.st = "answered" /\ v.answer = a
    BY <1>1, <1>3, <1>4, ServeChanges
  <1>6. UNCHANGED <<keyCell, tokenCell, key, token, outed, waiting, keys>>
    BY DEF clientVars, HandleSignIn
  <1>7. /\ Carries(i)' = minted + 1
        /\ \A j \in 1..Len(reqs) : j # i => Carries(j)' = Carries(j)
    BY <1>1, <1>3, <1>5 DEF Carries, Replaces
  <1>8. \A j \in 1..Len(reqs) : reqs'[j].tok = reqs[j].tok
                                /\ reqs[j].tok \in Nat /\ reqs[j].tok =< minted
    <2>1. \A j \in 1..Len(reqs) : reqs[j] \in RequestType
      BY <1>1, ElementOfSeq
    <2> QED BY <1>5, <2>1 DEF Replaces, IInv, MintedOnce, RequestType
  <1>9. \A c \in Cells : /\ token[c] \in Nat /\ token[c] =< minted
                         /\ outed[c] \subseteq 1..minted
    BY DEF IInv, Shapes, MintedOnce
  <1>10. \A j \in 1..Len(reqs) : Carries(j) \in Nat /\ Carries(j) =< minted
    <2>1. \A j \in 1..Len(reqs) : reqs[j] \in RequestType
      BY <1>1, ElementOfSeq
    <2> QED BY <2>1 DEF IInv, MintedOnce, Carries, RequestType, AnswerType
  <1>11. Shapes'
    BY <1>2, <1>5, <1>6 DEF IInv, Shapes, Replaces
  <1>12. MintedOnce'
    <2>1. \A c \in Cells :
             token'[c] =< minted' /\ outed'[c] \subseteq 1..minted'
      BY <1>2, <1>6, <1>9
    <2>2. \A j \in 1..Len(reqs) :
             reqs'[j].tok =< minted' /\ Carries(j)' =< minted'
      BY <1>2, <1>7, <1>8, <1>10
    <2>3. \A j, k \in 1..Len(reqs) :
             Carries(j)' = Carries(k)' /\ Carries(j)' # 0 => j = k
      BY <1>2, <1>7, <1>10 DEF IInv, MintedOnce
    <2> QED BY <1>5, <2>1, <2>2, <2>3 DEF MintedOnce, Replaces
  <1>13. Undelivered'
    <2>1. \A j \in 1..Len(reqs) :
             reqs'[j].st \notin {"answered", "taken"}
               => reqs'[j].answer.mints = 0
      BY <1>5 DEF IInv, Undelivered, Replaces
    <2>2. ASSUME NEW j \in 1..Len(reqs),
                 reqs'[j].st = "answered", Carries(j)' # 0
          PROVE  /\ \A c \in Cells : token[c] # Carries(j)'
                                     /\ Carries(j)' \notin outed[c]
                 /\ \A k \in 1..Len(reqs) : reqs'[k].tok # Carries(j)'
      <3>1. CASE j = i
        BY <1>2, <1>7, <1>8, <1>9, <3>1
      <3>2. CASE j # i
        BY <1>5, <1>7, <1>8, <2>2, <3>2 DEF IInv, Undelivered, Replaces
      <3> QED BY <3>1, <3>2
    <2> QED BY <1>5, <1>6, <2>1, <2>2 DEF Undelivered, Replaces
  <1>14. SignOutCloses'
    <2>1. \A c \in Cells : outed'[c] \cap open' = {}
      BY <1>2, <1>6, <1>9 DEF IInv, SignOutCloses
    <2>2. \A j \in 1..Len(reqs) :
             reqs'[j].tok \in open' => reqs[j].tok \in open
      BY <1>2, <1>8
    <2> QED BY <1>1, <1>5, <2>1, <2>2 DEF IInv, SignOutCloses, Replaces
  <1>15. DeadStays' /\ SignedOutNotHeld'
    BY <1>1, <1>2, <1>5, <1>6, <1>8 DEF IInv, DeadStays, Replaces,
       SignedOutNotHeld
  <1> QED BY <1>11, <1>12, <1>13, <1>14, <1>15 DEF IInv

\* What an answer changes in the cell of the handle that takes it: a sign-in
\* puts a token there that nobody else has seen, a confirmed sign-out takes a
\* token away that is closed.
LEMMA ReceiveKeeps ==
    ASSUME IInv, NEW h \in Handles, Receive(h)
    PROVE  IInv'
  <1> DEFINE w == waiting[h]
             c == tokenCell[h]
             r == reqs[w]
             ok == Outcome(r.answer) = "ok"
  <1>1. /\ w \in 1..Len(reqs) /\ c \in Cells /\ r \in RequestType
        /\ keyCell[h] \in Cells /\ reqs \in Seq(RequestType)
    BY ElementOfSeq DEF Receive, IInv, Shapes
  <1>2. /\ r.st = "answered" /\ reqs' = [reqs EXCEPT ![w].st = "taken"]
        /\ waiting' = [waiting EXCEPT ![h] = 0]
        /\ UNCHANGED <<keys, minted, open>>
    BY DEF Receive, routerVars
  <1>3. /\ keyCell' = keyCell /\ tokenCell' = tokenCell
        /\ key' \in [Cells -> Nat]
        /\ \/ UNCHANGED <<token, outed>>
           \/ /\ ok /\ r.op = "sign_in" /\ outed' = outed
              /\ token' = [token EXCEPT ![c] = r.answer.mints]
           \/ /\ ok /\ r.op = "sign_out"
              /\ token' = [token EXCEPT ![c] = 0]
              /\ outed' = [outed EXCEPT ![c] = @ \cup {r.tok}]
    <2>1. CASE ok /\ r.op = "bootstrap"
      <3>1. /\ key' = [key EXCEPT ![keyCell[h]] = r.answer.mints]
            /\ UNCHANGED <<keyCell, tokenCell, token, outed>>
        BY <2>1 DEF Receive, TakeBootstrap, StreamOps
      <3>2. r.answer.mints \in Nat
        BY <1>1 DEF RequestType, AnswerType
      <3> QED BY <1>1, <3>1, <3>2 DEF IInv, Shapes
    <2>2. CASE ok /\ r.op = "sign_in"
      <3>1. /\ token' = [token EXCEPT ![c] = r.answer.mints]
            /\ UNCHANGED <<keyCell, tokenCell, key, outed>>
        BY <2>2 DEF Receive, TakeSignIn, StreamOps
      <3> QED BY <2>2, <3>1 DEF IInv, Shapes
    <2>3. CASE ok /\ r.op = "sign_out"
      <3>1. /\ token' = [token EXCEPT ![c] = 0]
            /\ outed' = [outed EXCEPT ![c] = @ \cup {r.tok}]
            /\ UNCHANGED <<keyCell, tokenCell, key>>
        BY <2>3 DEF Receive, TakeSignOut, StreamOps
      <3> QED BY <2>3, <3>1 DEF IInv, Shapes
    <2>4. CASE ~(ok /\ r.op \in {"bootstrap", "sign_in", "sign_out"})
      <3>1. OpenStream \/ UNCHANGED <<clientVars, readVars>>
        BY <2>4 DEF Receive
      <3> QED BY <3>1 DEF OpenStream, clientVars, IInv, Shapes
    <2> QED BY <2>1, <2>2, <2>3, <2>4
  <1>4. PICK v \in RequestType :
           /\ Replaces(w, v) /\ v.st = "taken"
           /\ v.answer = r.answer /\ v.served = r.served
    BY <1>1, <1>2, StateChanges
  <1>5. \A j \in 1..Len(reqs) :
           /\ Carries(j)' = Carries(j) /\ reqs'[j].tok = reqs[j].tok
           /\ Carries(j) \in Nat
           /\ reqs'[j].st = "answered" => j # w /\ reqs'[j] = reqs[j]
    <2>1. \A j \in 1..Len(reqs) : reqs[j] \in RequestType
      BY <1>1, ElementOfSeq
    <2>2. \A j \in 1..Len(reqs) : Carries(j) \in Nat
      BY <2>1 DEF Carries, RequestType, AnswerType
    <2>3. \A j \in 1..Len(reqs) : j # w => reqs'[j] = reqs[j]
      BY <1>4 DEF Replaces
    <2>4. /\ reqs'[w].st = "taken" /\ reqs'[w].answer = reqs[w].answer
          /\ reqs'[w].op = reqs[w].op /\ reqs'[w].tok = reqs[w].tok
      BY <1>1, <1>4 DEF Replaces
    <2>5. \A j \in 1..Len(reqs) : Carries(j)' = Carries(j)
      BY <2>3, <2>4 DEF Carries
    <2> QED BY <2>2, <2>3, <2>4, <2>5
  <1>6. r.op = "sign_in" => Carries(w) = r.answer.mints
    BY DEF Carries
  <1>7. ok /\ r.op = "sign_out" =>
           /\ r.tok # 0 /\ r.tok \in 1..minted /\ r.tok \notin open
    BY <1>1, <1>2, SMTT(30) DEF IInv, SignOutCloses, MintedOnce, Shapes, RequestType
  <1> HIDE DEF w, c, r, ok
  <1>8. \A d \in Cells : token'[d] \in {token[d], 0, Carries(w)}
                         /\ (token'[d] = Carries(w) => token[d] = Carries(w)
                                \/ r.op = "sign_in" \/ Carries(w) = 0)
    BY <1>1, <1>3, <1>6, SMTT(30) DEF IInv, Shapes
  <1>9. \A d \in Cells : outed'[d] = outed[d]
           \/ (ok /\ r.op = "sign_out" /\ outed'[d] = outed[d] \cup {r.tok})
    BY <1>1, <1>3 DEF IInv, Shapes
  <1>10. Shapes'
    <2>1. token' \in [Cells -> Nat]
      BY <1>1, <1>3, <1>5, <1>6, SMTT(30) DEF IInv, Shapes
    <2>2. outed' \in [Cells -> SUBSET Nat]
      <3>1. r.tok \in Nat
        BY <1>1 DEF RequestType
      <3> QED BY <1>1, <1>3, <3>1, SMTT(30) DEF IInv, Shapes
    <2>3. waiting' \in [Handles -> Nat]
          /\ \A g \in Handles : waiting'[g] =< Len(reqs)
      BY <1>1, <1>2 DEF IInv, Shapes
    <2> QED BY <1>2, <1>3, <1>4, <2>1, <2>2, <2>3 DEF IInv, Shapes, Replaces
  <1>11. MintedOnce'
    <2>1. \A d \in Cells :
             token'[d] =< minted' /\ outed'[d] \subseteq 1..minted'
      <3>1. \A d \in Cells : token'[d] =< minted
        <4>1. Carries(w) =< minted /\ minted \in Nat
          BY <1>1 DEF IInv, MintedOnce, Shapes
        <4>2. \A d \in Cells : token[d] =< minted
          BY DEF IInv, MintedOnce
        <4> QED BY <1>8, <4>1, <4>2
      <3>2. \A d \in Cells : outed'[d] \subseteq 1..minted
        BY <1>7, <1>9 DEF IInv, MintedOnce
      <3> QED BY <1>2, <3>1, <3>2
    <2>2. \A j \in 1..Len(reqs) :
             reqs'[j].tok =< minted' /\ Carries(j)' =< minted'
      BY <1>2, <1>5 DEF IInv, MintedOnce
    <2>3. \A j, k \in 1..Len(reqs) :
             Carries(j)' = Carries(k)' /\ Carries(j)' # 0 => j = k
      BY <1>5 DEF IInv, MintedOnce
    <2> QED BY <1>4, <2>1, <2>2, <2>3 DEF MintedOnce, Replaces
  <1>12. Undelivered'
    <2>1. \A j \in 1..Len(reqs) :
             reqs'[j].st \notin {"answered", "taken"}
               => reqs'[j].answer.mints = 0
      BY <1>4 DEF IInv, Undelivered, Replaces
    <2>2. ASSUME NEW j \in 1..Len(reqs),
                 reqs'[j].st = "answered", Carries(j)' # 0
          PROVE  /\ \A d \in Cells : token'[d] # Carries(j)'
                                     /\ Carries(j)' \notin outed'[d]
                 /\ \A k \in 1..Len(reqs) : reqs'[k].tok # Carries(j)'
      <3>1. /\ j # w /\ reqs[j].st = "answered" /\ Carries(j)' = Carries(j)
            /\ Carries(j) # 0 /\ Carries(j) # Carries(w)
        BY <1>1, <1>5, <2>2 DEF IInv, MintedOnce
      <3>2. \A k \in 1..Len(reqs) : reqs[k].tok # Carries(j)
        BY <3>1 DEF IInv, Undelivered
      <3>3. \A d \in Cells : token'[d] # Carries(j)
        BY <1>8, <3>1 DEF IInv, Undelivered
      <3>4. \A d \in Cells : Carries(j) \notin outed'[d]
        BY <1>1, <1>9, <3>1, <3>2 DEF IInv, Undelivered, r
      <3> QED BY <1>5, <3>1, <3>2, <3>3, <3>4
    <2> QED BY <1>4, <2>1, <2>2 DEF Undelivered, Replaces
  <1>13. SignOutCloses'
    <2>1. \A d \in Cells : outed'[d] \cap open' = {}
      BY <1>2, <1>7, <1>9 DEF IInv, SignOutCloses
    <2> QED BY <1>2, <1>4, <2>1 DEF IInv, SignOutCloses, Replaces
  <1>14. DeadStays'
    BY <1>1, <1>2, <1>4 DEF IInv, DeadStays, Replaces, r
  <1>15. SignedOutNotHeld'
    <2>1. \A d \in Cells : 0 \notin outed'[d]
      BY <1>7, <1>9 DEF IInv, MintedOnce
    <2>2. r.op = "sign_in" /\ Carries(w) # 0
            => \A d \in Cells : Carries(w) \notin outed[d]
      BY <1>1, <1>2 DEF IInv, Undelivered, r
    <2>3. CASE UNCHANGED <<token, outed>>
      BY <2>3 DEF IInv, SignedOutNotHeld
    <2>4. CASE /\ r.op = "sign_in" /\ outed' = outed
               /\ token' = [token EXCEPT ![c] = r.answer.mints]
      <3>1. \A d \in Cells : token'[d] = token[d] \/ token'[d] = Carries(w)
        BY <1>6, <2>4 DEF IInv, Shapes
      <3> QED BY <2>1, <2>2, <2>4, <3>1 DEF IInv, SignedOutNotHeld
    <2>5. CASE /\ token' = [token EXCEPT ![c] = 0]
               /\ outed' = [outed EXCEPT ![c] = @ \cup {r.tok}]
      <3>1. \A d \in Cells :
               token'[d] = 0 \/ (token'[d] = token[d] /\ outed'[d] = outed[d])
        <4>1. token \in [Cells -> Nat] /\ outed \in [Cells -> SUBSET Nat]
          BY DEF IInv, Shapes
        <4>2. \A d \in Cells : token'[d] = IF d = c THEN 0 ELSE token[d]
          BY <2>5, <4>1
        <4>3. \A d \in Cells : d # c => outed'[d] = outed[d]
          BY <2>5, <4>1
        <4> QED BY <4>2, <4>3
      <3> QED BY <2>1, <3>1 DEF IInv, SignedOutNotHeld
    <2> QED BY <1>3, <2>3, <2>4, <2>5
  <1> QED BY <1>10, <1>11, <1>12, <1>13, <1>14, <1>15 DEF IInv

-----------------------------------------------------------------------------
(* The theorems *)

LEMMA InitHolds == WireInit => IInv
  BY OpsAssumption, AnswersTyped DEF WireInit, IInv, Shapes, MintedOnce,
     Undelivered, SignOutCloses, DeadStays, SignedOutNotHeld, Cells

\* A token that some client was given stands in no answer left to take.
LEMMA KnownTaken ==
    ASSUME IInv, NEW t \in Known
    PROVE  /\ t \in Nat /\ t =< minted
           /\ \A i \in 1..Len(reqs) :
                 reqs[i].st = "answered" /\ Carries(i) # 0 => Carries(i) # t
  <1>1. PICK k \in 1..Len(reqs) :
           reqs[k].st = "taken" /\ Carries(k) = t /\ t # 0
    BY DEF Known, Carries
  <1>2. reqs[k] \in RequestType
    BY ElementOfSeq DEF IInv, Shapes
  <1>3. t \in Nat /\ t =< minted
    BY <1>1, <1>2 DEF Carries, RequestType, AnswerType, IInv, MintedOnce
  <1> QED BY <1>1, <1>3 DEF IInv, MintedOnce

\* What a client does.
LEMMA ClientKeeps ==
    ASSUME IInv, Client
    PROVE  IInv'
  <1>1. ASSUME NEW h \in Handles, WithApiKey(h, 1)
        PROVE  IInv'
    <2>1. SeededCell(h, keyCell) \in Cells
      BY DEF SeededCell, Cells, IInv, Shapes
    <2>2. /\ keyCell' \in [Handles -> Cells] /\ key' \in [Cells -> Nat]
      BY <1>1, <2>1 DEF WithApiKey, IInv, Shapes
    <2>3. UNCHANGED <<tokenCell, token, outed, reqs, minted, open, waiting,
                      keys>>
      BY <1>1 DEF WithApiKey, callVars, routerVars
    <2>4. /\ waiting' \in [Handles -> Nat] /\ keys' \in Nat
          /\ \A g \in Handles : waiting'[g] =< Len(reqs)
      BY <2>3 DEF IInv, Shapes
    <2> QED BY <2>2, <2>3, <2>4, Untouched
  <1>2. ASSUME NEW h \in Handles, NEW op \in Ops, Call(h, op)
        PROVE  IInv'
    <2> DEFINE t == IF op \in PublicOps THEN 0 ELSE SessionToken(h)
               k == IF op = "sign_in" THEN key[keyCell[h]] ELSE 0
               b == op \notin PublicOps
    <2>1. /\ tokenCell[h] \in Cells /\ keyCell[h] \in Cells
          /\ token[tokenCell[h]] \in Nat /\ key[keyCell[h]] \in Nat
      BY DEF IInv, Shapes
    <2>2. /\ t \in Nat /\ k \in Nat /\ t =< minted
      BY <2>1 DEF SessionToken, IInv, Shapes, MintedOnce
    <2>3. \A i \in 1..Len(reqs) :
             reqs[i].st = "answered" /\ Carries(i) # 0 => Carries(i) # t
      BY <2>1 DEF SessionToken, IInv, Undelivered
    <2>4. /\ op \in PublicOps => t = 0
          /\ op = "sign_out" => t # 0
      BY <1>2 DEF Call, Authorized, PublicOps
    <2>5. op \in Methods /\ b \in BOOLEAN
      BY OpsAssumption
    <2>6. /\ reqs' = Append(reqs, Request(op, b, t, k, FALSE))
          /\ waiting' = [waiting EXCEPT ![h] = Len(reqs) + 1]
          /\ UNCHANGED <<clientVars, routerVars>>
      BY <1>2 DEF Call
    <2>7. /\ waiting' \in [Handles -> Nat]
          /\ \A g \in Handles : waiting'[g] =< Len(reqs) + 1
      BY <2>6 DEF IInv, Shapes
    <2> HIDE DEF t, k, b
    <2> QED BY <2>2, <2>3, <2>4, <2>5, <2>6, <2>7, SendKeeps
  <1>3. ASSUME NEW b \in BOOLEAN, NEW q \in BOOLEAN, NEW t \in Known \cup {0},
               CallRaw(b, t, q)
        PROVE  IInv'
    <2>1. /\ t \in Nat /\ t =< minted /\ "me" \in Methods
          /\ "me" \notin PublicOps
          /\ \A i \in 1..Len(reqs) :
                reqs[i].st = "answered" /\ Carries(i) # 0 => Carries(i) # t
      <3>1. "me" \in Methods /\ "me" \notin PublicOps
        BY DEF Methods, AccountOps, PublicOps
      <3> QED BY <3>1, KnownTaken DEF IInv, Shapes
    <2>2. /\ reqs' = Append(reqs, Request("me", b, t, 0, q))
          /\ waiting' = waiting
          /\ UNCHANGED <<clientVars, routerVars>>
      BY <1>3 DEF CallRaw
    <2>3. /\ waiting' \in [Handles -> Nat]
          /\ \A g \in Handles : waiting'[g] =< Len(reqs) + 1
      BY <2>2 DEF IInv, Shapes
    <2> QED BY <2>1, <2>2, <2>3, SendKeeps
  <1>4. ASSUME NEW h \in Handles, GiveUp(h)
        PROVE  IInv'
    <2>1. /\ waiting' \in [Handles -> Nat] /\ keys' \in Nat
          /\ \A g \in Handles : waiting'[g] =< Len(reqs)
          /\ keyCell' \in [Handles -> Cells] /\ key' \in [Cells -> Nat]
      BY <1>4 DEF GiveUp, clientVars, routerVars, IInv, Shapes
    <2>2. UNCHANGED <<tokenCell, token, outed, reqs, minted, open>>
      BY <1>4 DEF GiveUp, clientVars, routerVars
    <2> QED BY <2>1, <2>2, Untouched
  <1> QED BY <1>1, <1>2, <1>3, <1>4, SeedKeeps, ReceiveKeeps DEF Client

\* Every step.
LEMMA NextKeeps ==
    ASSUME IInv, [WireNext]_wireVars
    PROVE  IInv'
  <1>1. ASSUME UNCHANGED <<clientVars, callVars, keys, minted, open>>
        PROVE  IInv'
    <2>1. UNCHANGED <<tokenCell, token, outed, reqs, minted, open, keyCell,
                      key, waiting, keys>>
      BY <1>1 DEF clientVars, callVars
    <2>2. /\ waiting' \in [Handles -> Nat] /\ keys' \in Nat
          /\ \A g \in Handles : waiting'[g] =< Len(reqs)
          /\ keyCell' \in [Handles -> Cells] /\ key' \in [Cells -> Nat]
      BY <2>1 DEF IInv, Shapes
    <2> QED BY <2>1, <2>2, Untouched
  <1>2. CASE Client
    BY <1>2, ClientKeeps
  <1>3. CASE Layers
    <2>1. PICK i \in 1..Len(reqs) :
             \/ RejectQueryCredentials(i) \/ RateLimit(i) \/ Authenticate(i)
             \/ HandleBootstrap(i) \/ HandleSignIn(i) \/ HandleSignOut(i)
             \/ HandleOther(i)
      BY <1>3 DEF Layers
    <2>2. UNCHANGED clientVars
      BY <1>3 DEF Layers
    <2> QED BY <2>1, <2>2, LayersKeep, HandlersKeep, SignInKeeps
  <1>4. CASE Replenish
    BY <1>1, <1>4 DEF Replenish
  <1>5. CASE Streamed
    <2>1. CASE \E i \in 1..Len(reqs) : HandleStream(i) /\ UNCHANGED clientVars
      BY <2>1, HandlersKeep
    <2>2. CASE ~\E i \in 1..Len(reqs) : HandleStream(i) /\ UNCHANGED clientVars
      BY <1>1, <1>5, <2>2 DEF Streamed, EmitLive, FinishTurn, AbortTurn,
         RenderFrame, CutLink, routerVars
    <2> QED BY <2>1, <2>2
  <1>6. CASE Reader
    BY <1>1, <1>6 DEF Reader, ReadChunk, ReadFails, ReadCloses, YieldItem,
       EndStream, routerVars
  <1>7. CASE UNCHANGED wireVars
    BY <1>1, <1>7 DEF wireVars, routerVars
  <1> QED BY <1>2, <1>3, <1>4, <1>5, <1>6, <1>7 DEF WireNext

LEMMA Invariance == WireSpec => []IInv
  BY InitHolds, NextKeeps, PTL DEF WireSpec

\* A client never holds a token whose sign-out it was told succeeded, for any
\* number of handles, clones, calls under way and seeded tokens, on each of
\* the three backends (sign_in, sign_out, with_session_token and the locks
\* the clones share).
THEOREM SignedOutForGood == WireSpec => []SignedOutNotHeld
  <1>1. IInv => SignedOutNotHeld
    BY DEF IInv
  <1> QED BY <1>1, Invariance, PTL

\* No handler behind `authenticate` ever serves a request that was sent with
\* a token whose sign-out had been confirmed to some client.
THEOREM ClosedTokenNotServed == WireSpec => []RevokedNotServed
  <1>1. IInv => RevokedNotServed
    BY DEF IInv, DeadStays, RevokedNotServed
  <1> QED BY <1>1, Invariance, PTL

-----------------------------------------------------------------------------
(* The streamed turn: its body, split into records *)

LiveEvents == {"text_delta", "foreign"}
Events == LiveEvents \cup {"usage", "turn_end", "tool_call_started", "tool_call_requested"}

\* The body after its first a bytes, up to its n-th.
Slice(a, n) == [k \in 1..n - a |-> Byte(a + k)]

\* What the record of the i-th event is parsed to.
Item(i) == IF sent[i] = "foreign" THEN ErrItem ELSE i

\* What has been split off the bytes from the end of record q up to byte a.
SplitUpTo(q, a) ==
    [rest |-> Slice(4 * (a \div 4), a),
     items |-> [j \in 1..(a \div 4) - q |-> Item(q + j)]]

\* What one byte does to the records split so far.
Fed(split, b) ==
    IF b = NL /\ split.rest # <<>> /\ Last(split.rest) = NL
    THEN [rest |-> <<>>, items |-> split.items \o ParseRecord(Front(split.rest))]
    ELSE [split EXCEPT !.rest = Append(@, b)]

StreamTypes ==
    /\ sent \in Seq(Events) /\ turn \in {"none", "running", "done", "aborted"}
    /\ framed \in 0..Len(sent) /\ arrived \in 0..4 * framed
    /\ queue \in Seq(Nat) /\ got \in Seq(Nat) /\ finished \in BOOLEAN

\* A turn ends once, and last.
TurnEndsLast ==
    /\ \A j \in 1..Len(sent) : sent[j] = "turn_end" => turn = "done" /\ j = Len(sent)
    /\ turn = "done" => Len(sent) > 0 /\ sent[Len(sent)] = "turn_end"

\* While the client reads, it has parsed the records that arrived whole, and
\* holds back the bytes of the next one.
Buffered ==
    ~finished => /\ buffer = Slice(4 * (arrived \div 4), arrived)
                 /\ Len(got) + Len(queue) = arrived \div 4

\* The items are those of the events, in order, up to a failure.
InOrder ==
    /\ \A j \in 1..Len(got) :
          \/ j =< Len(sent) /\ got[j] = Item(j)
          \/ finished /\ queue = <<>> /\ j = Len(got) /\ got[j] = ErrItem
    /\ \A j \in 1..Len(queue) :
          \/ Len(got) + j =< Len(sent) /\ queue[j] = Item(Len(got) + j)
          \/ finished /\ Len(queue) = 1 /\ queue[j] = ErrItem

\* Nothing is read after the end of the turn.
EndsOnce ==
    \A j \in 1..Len(got) :
       j =< Len(sent) /\ sent[j] = "turn_end"
          => finished /\ queue = <<>> /\ j = Len(got)

\* What makes a stream close.
Closing ==
    finished => \/ turn = "aborted"
                \/ queue = <<ErrItem>>
                \/ /\ queue = <<>> /\ got # <<>>
                   /\ \/ Last(got) = ErrItem
                      \/ Last(got) \in 1..Len(sent) /\ sent[Last(got)] = "turn_end"

Ended == reader = "ended" => finished /\ queue = <<>>

StreamInv ==
    /\ StreamTypes /\ TurnEndsLast /\ Buffered /\ InOrder /\ EndsOnce
    /\ Closing /\ Ended

\* A sequence with one element more.
LEMMA OneMore ==
    ASSUME NEW S, NEW s \in Seq(S), NEW x \in S, NEW n \in Nat, Len(s) = n
    PROVE  /\ Append(s, x) \in Seq(S) /\ Len(Append(s, x)) = n + 1
           /\ \A j \in 1..n + 1 : Append(s, x)[j] = IF j = n + 1 THEN x ELSE s[j]
  BY AppendProperties

LEMMA FourTimes ==
    ASSUME NEW m \in Nat, NEW n \in Nat, m =< n, NEW k \in 0..4 * m
    PROVE  k \in 0..4 * n
  OBVIOUS

\* Two sequences, one after the other.
LEMMA TwoParts ==
    ASSUME NEW S, NEW s \in Seq(S), NEW t \in Seq(S), NEW m \in Nat, NEW n \in Nat,
           Len(s) = m, Len(t) = n
    PROVE  /\ s \o t \in Seq(S) /\ Len(s \o t) = m + n
           /\ \A k \in 1..m + n : (s \o t)[k] = IF k =< m THEN s[k] ELSE t[k - m]
  BY ConcatProperties

LEMMA ByteFacts ==
    ASSUME NEW i \in Nat
    PROVE  /\ Byte(4 * i + 1) = <<i + 1, 1>> /\ Byte(4 * i + 2) = <<i + 1, 2>>
           /\ Byte(4 * i + 3) = NL /\ Byte(4 * i + 4) = NL
  <1>1. /\ (4 * i + 1 - 1) \div 4 = i /\ ((4 * i + 1) - 1) % 4 = 0
        /\ (4 * i + 2 - 1) \div 4 = i /\ (4 * i + 2 - 1) % 4 = 1
        /\ (4 * i + 3 - 1) \div 4 = i /\ (4 * i + 3 - 1) % 4 = 2
        /\ (4 * i + 4 - 1) \div 4 = i /\ (4 * i + 4 - 1) % 4 = 3
    OBVIOUS
  <1> QED BY <1>1 DEF Byte, Frame, NL

\* The record a byte count stands in, and how far into it.
LEMMA InRecord ==
    ASSUME NEW a \in Nat
    PROVE  \E i \in Nat, p \in 0..3 : /\ a = 4 * i + p /\ a \div 4 = i
                                      /\ (a + 1) \div 4 = IF p = 3 THEN i + 1 ELSE i
  <1>1. /\ a \div 4 \in Nat /\ a % 4 \in 0..3
        /\ a = 4 * (a \div 4) + (a % 4)
        /\ (a + 1) \div 4 = IF a % 4 = 3 THEN (a \div 4) + 1 ELSE a \div 4
    OBVIOUS
  <1> QED BY <1>1

LEMMA ByteTyped == \A b \in Nat \ {0} : Byte(b) \in Nat \X Nat
  <1>1. ASSUME NEW b \in Nat \ {0}
        PROVE  Byte(b) \in Nat \X Nat
    <2>1. b - 1 \in Nat
      OBVIOUS
    <2>2. PICK i \in Nat, p \in 0..3 : b - 1 = 4 * i + p
      BY <2>1, InRecord
    <2>3. \/ b = 4 * i + 1 \/ b = 4 * i + 2 \/ b = 4 * i + 3 \/ b = 4 * i + 4
      BY <2>2
    <2> QED BY <2>3, ByteFacts DEF NL
  <1> QED BY <1>1

LEMMA SliceTyped ==
    ASSUME NEW a \in Nat, NEW n \in Nat, a =< n
    PROVE  /\ Slice(a, n) \in Seq(Nat \X Nat) /\ Len(Slice(a, n)) = n - a
           /\ \A k \in 1..n - a : Slice(a, n)[k] = Byte(a + k)
  <1>1. \A k \in 1..n - a : Byte(a + k) \in Nat \X Nat
    <2>1. \A k \in 1..n - a : a + k \in Nat \ {0}
      OBVIOUS
    <2> QED BY <2>1, ByteTyped
  <1>2. n - a \in Nat
    OBVIOUS
  <1> QED BY <1>1, <1>2 DEF Slice

\* A byte of the record that follows what was split.
LEMMA NextByte ==
    ASSUME NEW q \in Nat, NEW a \in Nat, 4 * q =< a, a < 4 * Len(sent), sent \in Seq(Events)
    PROVE  Fed(SplitUpTo(q, a), Byte(a + 1)) = SplitUpTo(q, a + 1)
  <1>1. PICK i \in Nat, p \in 0..3 :
           /\ a = 4 * i + p /\ a \div 4 = i
           /\ (a + 1) \div 4 = IF p = 3 THEN i + 1 ELSE i
    BY InRecord
  <1> DEFINE from == 4 * i
             items == [j \in 1..i - q |-> Item(q + j)]
             rest == Slice(from, a)
  <1>2. SplitUpTo(q, a) = [rest |-> rest, items |-> items]
    BY <1>1 DEF SplitUpTo
  <1>3. /\ i >= q /\ i < Len(sent) /\ Len(sent) \in Nat
        /\ from \in Nat /\ a = from + p /\ p \in Nat /\ 4 * (i + 1) = from + 4
    BY <1>1
  <1>4. /\ Byte(from + 1) = <<i + 1, 1>> /\ Byte(from + 2) = <<i + 1, 2>>
        /\ Byte(from + 3) = NL /\ Byte(from + 4) = NL
    BY ByteFacts
  <1>5. SplitUpTo(q, a + 1) =
           IF p = 3 THEN [rest |-> Slice(from + 4, a + 1),
                          items |-> [j \in 1..(i + 1) - q |-> Item(q + j)]]
           ELSE [rest |-> Slice(from, a + 1), items |-> items]
    <2>1. CASE p = 3
      BY <1>1, <1>3, <2>1 DEF SplitUpTo
    <2>2. CASE p # 3
      BY <1>1, <2>2 DEF SplitUpTo
    <2> QED BY <2>1, <2>2
  <1> HIDE DEF from
  <1>6. /\ rest \in Seq(Nat \X Nat) /\ Len(rest) = p
        /\ \A k \in 1..p : rest[k] = Byte(from + k)
    <2>1. a - from = p /\ from =< a
      BY <1>3
    <2> QED BY <1>3, <2>1, SliceTyped
  <1>7. Last(rest) = rest[p]
    BY <1>6 DEF Last
  <1>8. /\ p >= 1 => rest[1] = <<i + 1, 1>>
        /\ p >= 2 => rest[2] = <<i + 1, 2>>
        /\ p >= 3 => rest[3] = NL
    BY <1>4, <1>6
  <1> HIDE DEF items, rest
  <1>9. CASE p # 3
    <2>1. ~(Byte(a + 1) = NL /\ rest # <<>> /\ Last(rest) = NL)
      <3>1. CASE p = 0
        BY <1>3, <1>4, <3>1 DEF NL
      <3>2. CASE p = 1
        <4>1. Byte(a + 1) = <<i + 1, 2>>
          BY <1>3, <1>4, <3>2
        <4> QED BY <4>1 DEF NL
      <3>3. CASE p = 2
        <4>1. Last(rest) = <<i + 1, 2>>
          BY <1>7, <1>8, <3>3
        <4> QED BY <4>1 DEF NL
      <3> QED BY <1>9, <3>1, <3>2, <3>3
    <2>2. Append(rest, Byte(a + 1)) = Slice(from, a + 1)
      <3>1. a + 1 \in Nat \ {0} /\ from =< a + 1 /\ (a + 1) - from = p + 1
        BY <1>3
      <3>2. Byte(a + 1) \in Nat \X Nat
        BY <3>1, ByteTyped
      <3>3. /\ Append(rest, Byte(a + 1)) \in Seq(Nat \X Nat)
            /\ Len(Append(rest, Byte(a + 1))) = p + 1
            /\ \A k \in 1..p + 1 : Append(rest, Byte(a + 1))[k]
                  = IF k = p + 1 THEN Byte(a + 1) ELSE rest[k]
        BY <1>6, <3>2
      <3>4. /\ Slice(from, a + 1) \in Seq(Nat \X Nat)
            /\ Len(Slice(from, a + 1)) = p + 1
            /\ \A k \in 1..p + 1 : Slice(from, a + 1)[k] = Byte(from + k)
        <4>1. PICK m : m = a + 1
          OBVIOUS
        <4>2. from \in Nat /\ m \in Nat /\ from =< m /\ m - from = p + 1
          BY <1>3, <3>1, <4>1
        <4>3. /\ Slice(from, m) \in Seq(Nat \X Nat) /\ Len(Slice(from, m)) = m - from
              /\ \A k \in 1..m - from : Slice(from, m)[k] = Byte(from + k)
          BY <4>2, SliceTyped
        <4> QED BY <4>1, <4>2, <4>3
      <3>5. \A k \in 1..p + 1 : k # p + 1 => k \in 1..p
        BY <1>3
      <3>6. a + 1 = from + (p + 1)
        BY <1>3
      <3>7. \A k \in 1..p + 1 : Append(rest, Byte(a + 1))[k] = Slice(from, a + 1)[k]
        BY <1>6, <3>3, <3>4, <3>5, <3>6
      <3> QED BY <3>3, <3>4, <3>7, SeqEqual
    <2>3. SplitUpTo(q, a + 1) = [rest |-> Slice(from, a + 1), items |-> items]
      BY <1>5, <1>9
    <2>4. Fed(SplitUpTo(q, a), Byte(a + 1))
             = [[rest |-> rest, items |-> items] EXCEPT !.rest = Append(@, Byte(a + 1))]
      BY <1>2, <2>1 DEF Fed
    <2> QED BY <2>2, <2>3, <2>4
  <1>10. CASE p = 3
    <2>1. Byte(a + 1) = NL /\ rest # <<>> /\ Last(rest) = NL
      BY <1>3, <1>4, <1>6, <1>7, <1>8, <1>10
    <2>2. Front(rest) = <<<<i + 1, 1>>, <<i + 1, 2>>>>
      <3>1. Front(rest) = SubSeq(rest, 1, 2)
        BY <1>6, <1>10 DEF Front
      <3>2. \A k \in 1..2 : rest[k] \in Nat \X Nat
        <4>1. rest[1] = <<i + 1, 1>> /\ rest[2] = <<i + 1, 2>>
          BY <1>8, <1>10
        <4>2. <<i + 1, 1>> \in Nat \X Nat /\ <<i + 1, 2>> \in Nat \X Nat
          OBVIOUS
        <4>3. \A k \in 1..2 : k = 1 \/ k = 2
          OBVIOUS
        <4> QED BY <4>1, <4>2, <4>3
      <3>3. /\ SubSeq(rest, 1, 2) \in Seq(Nat \X Nat) /\ Len(SubSeq(rest, 1, 2)) = 2
            /\ SubSeq(rest, 1, 2)[1] = rest[1] /\ SubSeq(rest, 1, 2)[2] = rest[2]
        BY <1>6, <1>10, <3>2, SubSeqProperties
      <3> DEFINE head == <<<<i + 1, 1>>, <<i + 1, 2>>>>
      <3>4. head \in Seq(Nat \X Nat) /\ Len(head) = 2
            /\ head[1] = <<i + 1, 1>> /\ head[2] = <<i + 1, 2>>
        BY <1>1
      <3> HIDE DEF head
      <3>5. \A k \in 1..2 : SubSeq(rest, 1, 2)[k] = head[k]
        <4>1. rest[1] = <<i + 1, 1>> /\ rest[2] = <<i + 1, 2>>
          BY <1>8, <1>10
        <4>2. \A k \in 1..2 : k = 1 \/ k = 2
          OBVIOUS
        <4> QED BY <3>3, <3>4, <4>1, <4>2
      <3>6. SubSeq(rest, 1, 2) = head
        BY <3>3, <3>4, <3>5, SeqEqual
      <3> QED BY <3>1, <3>6 DEF head
    <2>3. ParseRecord(Front(rest)) = <<Item(i + 1)>>
      <3>1. i + 1 \in 1..Len(sent)
        BY <1>3
      <3>2. Front(rest)[1][1] = i + 1 /\ Front(rest) # <<>>
        BY <2>2
      <3>3. \A k \in 1..Len(sent) : Front(rest) = <<<<k, 1>>, <<k, 2>>>> => k = i + 1
        BY <2>2
      <3>4. (\E k \in 1..Len(sent) : /\ Front(rest) = <<<<k, 1>>, <<k, 2>>>>
                                      /\ sent[k] # "foreign")
               <=> sent[i + 1] # "foreign"
        BY <2>2, <3>1, <3>3
      <3> QED BY <3>2, <3>4 DEF ParseRecord, Item
    <2>4. items \o <<Item(i + 1)>> = [j \in 1..(i + 1) - q |-> Item(q + j)]
      <3> DEFINE more == [j \in 1..(i + 1) - q |-> Item(q + j)]
      <3>1. Item(i + 1) \in Nat /\ \A j \in 1..(i + 1) - q : Item(q + j) \in Nat
        BY DEF Item, ErrItem
      <3>2. i - q \in Nat /\ (i + 1) - q = (i - q) + 1 /\ q + ((i - q) + 1) = i + 1
        BY <1>3
      <3>3. \A j \in 1..i - q : j \in 1..(i + 1) - q
        BY <3>2
      <3>4. items \in Seq(Nat) /\ Len(items) = i - q
            /\ \A j \in 1..i - q : items[j] = Item(q + j)
        <4>1. \A j \in 1..i - q : Item(q + j) \in Nat
          BY <3>1, <3>3
        <4> QED BY <3>2, <4>1 DEF items
      <3>5. more \in Seq(Nat) /\ Len(more) = (i - q) + 1
            /\ \A j \in 1..(i - q) + 1 : more[j] = Item(q + j)
        BY <3>1, <3>2
      <3> HIDE DEF more
      <3>6. \A j \in 1..(i - q) + 1 : j # (i - q) + 1 => j \in 1..i - q
        BY <3>2
      <3>7. /\ Append(items, Item(i + 1)) \in Seq(Nat)
            /\ Len(Append(items, Item(i + 1))) = (i - q) + 1
            /\ \A j \in 1..(i - q) + 1 : Append(items, Item(i + 1))[j]
                  = IF j = (i - q) + 1 THEN Item(i + 1) ELSE items[j]
        BY <3>1, <3>2, <3>4, OneMore
      <3>8. \A j \in 1..(i - q) + 1 : Append(items, Item(i + 1))[j] = more[j]
        BY <3>2, <3>4, <3>5, <3>6, <3>7
      <3>9. Append(items, Item(i + 1)) = more
        BY <3>5, <3>7, <3>8, SeqEqual
      <3>10. items \o <<Item(i + 1)>> = Append(items, Item(i + 1))
        BY <3>1, <3>4, AppendIsConcat
      <3> QED BY <3>9, <3>10 DEF more
    <2>5. Slice(from + 4, a + 1) = <<>>
      <3>1. (a + 1) - (from + 4) = 0
        BY <1>3, <1>10
      <3> QED BY <3>1 DEF Slice
    <2>6. SplitUpTo(q, a + 1) = [rest |-> <<>>, items |-> items \o <<Item(i + 1)>>]
      BY <1>5, <1>10, <2>4, <2>5
    <2>7. Fed(SplitUpTo(q, a), Byte(a + 1))
             = [rest |-> <<>>, items |-> items \o ParseRecord(Front(rest))]
      BY <1>2, <2>1 DEF Fed
    <2> QED BY <2>3, <2>6, <2>7
  <1> QED BY <1>9, <1>10


\* Splitting the bytes of a body from the end of a record on.
LEMMA Drained ==
    ASSUME NEW q \in Nat, NEW n \in Nat, 4 * q =< n, n =< 4 * Len(sent), sent \in Seq(Events)
    PROVE  DrainRecords(Slice(4 * q, n)) = SplitUpTo(q, n)
  <1> DEFINE from == 4 * q
             bytes == Slice(from, n)
             m == n - from
             V == [rest : Seq(Nat \X Nat), items : Seq(Nat)]
             base == [rest |-> <<>>, items |-> <<>>]
             step == [p \in (1..m) \X V |-> Fed(p[2], bytes[p[1]])]
             Table(c) == c = [t \in SUBSET (1..m) |->
                                IF t = {} THEN base
                                ELSE Fed(c[t \ {Max(t)}], bytes[Max(t)])]
             table == CHOOSE c : Table(c)
  <1>1. /\ from \in Nat /\ m \in Nat /\ from + m = n
        /\ bytes \in Seq(Nat \X Nat) /\ DOMAIN bytes = 1..m
        /\ \A k \in 1..m : bytes[k] = Byte(from + k) /\ bytes[k] \in Nat \X Nat
    <2>1. from \in Nat /\ m \in Nat /\ from + m = n /\ from =< n
      OBVIOUS
    <2>2. bytes \in Seq(Nat \X Nat) /\ Len(bytes) = m
          /\ \A k \in 1..m : bytes[k] = Byte(from + k)
      BY <2>1, SliceTyped
    <2> HIDE DEF from, bytes, m
    <2> QED BY <2>1, <2>2, LenProperties, ElementOfSeq
  <1>2. DrainRecords(bytes) = table[1..m]
    <2> HIDE DEF from, bytes, m
    <2> QED BY <1>1 DEF DrainRecords, FoldLeft, MapThenFoldSet, Fed
  <1>3. ASSUME NEW split \in V, NEW b \in Nat \X Nat
        PROVE  Fed(split, b) \in V
    <2>1. CASE b = NL /\ split.rest # <<>> /\ Last(split.rest) = NL
      <3>1. Front(split.rest) \in Seq(Nat \X Nat)
        <4>1. \A k \in 1..Len(split.rest) - 1 : split.rest[k] \in Nat \X Nat
          BY ElementOfSeq, LenProperties
        <4>2. Len(split.rest) \in Nat
          BY LenProperties
        <4> QED BY <4>1, <4>2, SubSeqProperties DEF Front
      <3>2. ParseRecord(Front(split.rest)) \in Seq(Nat)
        <4> DEFINE record == Front(split.rest)
        <4>1. record # <<>> => record[1][1] \in Nat
          BY <3>1, ElementOfSeq, EmptySeq, SMTT(30)
        <4>2. ErrItem \in Nat
          BY DEF ErrItem
        <4> HIDE DEF record
        <4>3. \/ ParseRecord(record) = <<>>
              \/ ParseRecord(record) = <<ErrItem>>
              \/ record # <<>> /\ ParseRecord(record) = <<record[1][1]>>
          <5>1. CASE record = <<>>
            BY <5>1 DEF ParseRecord
          <5>2. CASE /\ record # <<>>
                     /\ \E i \in 1..Len(sent) :
                           record = <<<<i, 1>>, <<i, 2>>>> /\ sent[i] # "foreign"
            BY <5>2 DEF ParseRecord
          <5>3. CASE /\ record # <<>>
                     /\ ~\E i \in 1..Len(sent) :
                           record = <<<<i, 1>>, <<i, 2>>>> /\ sent[i] # "foreign"
            BY <5>3 DEF ParseRecord
          <5> QED BY <5>1, <5>2, <5>3
        <4>4. ParseRecord(record) \in Seq(Nat)
          <5>1. <<>> \in Seq(Nat) /\ \A x \in Nat : <<x>> \in Seq(Nat)
            OBVIOUS
          <5> QED BY <4>1, <4>2, <4>3, <5>1
        <4> QED BY <4>4 DEF record
      <3>3. split.items \o ParseRecord(Front(split.rest)) \in Seq(Nat)
        BY <3>2, ConcatProperties
      <3>4. <<>> \in Seq(Nat \X Nat)
        OBVIOUS
      <3> HIDE DEF V
      <3>5. Fed(split, b) = [rest |-> <<>>, items |-> split.items \o ParseRecord(Front(split.rest))]
        BY <2>1 DEF Fed
      <3> QED BY <3>3, <3>4, <3>5 DEF V
    <2>2. CASE ~(b = NL /\ split.rest # <<>> /\ Last(split.rest) = NL)
      <3>1. Fed(split, b) = [split EXCEPT !.rest = Append(@, b)]
        BY <2>2 DEF Fed
      <3>2. Append(split.rest, b) \in Seq(Nat \X Nat)
        BY AppendProperties
      <3> QED BY <3>1, <3>2
    <2> QED BY <2>1, <2>2
  <1>4. base \in V
    OBVIOUS
  <1> HIDE DEF m, bytes, V, base, from
  <1>5. step \in Steps(m, V)
    BY <1>1, <1>3 DEF Steps
  <1>6. Table(table)
    <2> HIDE DEF step
    <2>1. PICK c : FoldsBy(c, m, V, base, step)
      BY <1>1, <1>4, <1>5, FoldTable
    <2>2. ASSUME NEW t \in SUBSET (1..m), t # {}
          PROVE  c[t] = Fed(c[t \ {Max(t)}], bytes[Max(t)])
      <3>1. Max(t) \in 1..m
        <4>1. t \subseteq 0..m
          BY <1>1
        <4> QED BY <1>1, <2>2, <4>1, Greatest
      <3>2. c[t \ {Max(t)}] \in V
        BY <2>1 DEF FoldsBy
      <3>3. step[<<Max(t), c[t \ {Max(t)}]>>] = Fed(c[t \ {Max(t)}], bytes[Max(t)])
        BY <3>1, <3>2 DEF step
      <3> QED BY <2>1, <2>2, <3>3 DEF FoldsBy
    <2>3. Table(c)
      BY <2>1, <2>2 DEF FoldsBy
    <2> HIDE DEF Table
    <2> QED BY <2>3
  <1> HIDE DEF table
  <1>7. Follows(table, m, V, base, step)
    <2>1. ASSUME NEW k \in 1..m, table[1..k - 1] \in V
          PROVE  table[1..k] = step[<<k, table[1..k - 1]>>]
      <3>1. k \in 1..k /\ 1..k \subseteq 1..m /\ k > 0 /\ k \in Nat
        BY <1>1
      <3>2. Max(1..k) = k /\ (1..k) \ {k} = 1..k - 1
        BY <3>1, MaxOfInterval
      <3>3. table[1..k] = Fed(table[1..k - 1], bytes[k])
        BY <1>6, <3>1, <3>2
      <3> QED BY <2>1, <3>3
    <2>2. table[{}] = base
      BY <1>6
    <2> HIDE DEF step
    <2> QED BY <2>1, <2>2 DEF Follows
  <1> HIDE DEF Table
  <1>8. PICK f : Results(f, m, V, base, step, table[1..m])
    <2> HIDE DEF step
    <2> QED BY <1>1, <1>4, <1>5, <1>7, FoldSoFar
  <1> DEFINE fine == {k \in 0..m : f[k] = SplitUpTo(q, from + k)}
  <1>9. 0 \in fine
    <2>1. SplitUpTo(q, from) = base
      <3>1. from \div 4 = q /\ from - from = 0 /\ q - q = 0 /\ 4 * q = from
        BY DEF from
      <3> QED BY <3>1 DEF SplitUpTo, Slice, base
    <2>2. from + 0 = from /\ 0 \in 0..m
      BY <1>1
    <2> QED BY <1>8, <2>1, <2>2 DEF Results
  <1>10. ASSUME NEW k \in 0..m - 1, k \in fine
         PROVE  k + 1 \in fine
    <2>1. /\ k + 1 \in 1..m /\ k + 1 \in 0..m /\ (k + 1) - 1 = k /\ k \in 0..m
          /\ from + k \in Nat /\ from + (k + 1) = (from + k) + 1
          /\ from =< from + k /\ from + k < n
      <3>1. from \in Nat /\ m \in Nat /\ from + m = n
        BY <1>1
      <3> QED BY <3>1
    <2>2. f[k] \in V /\ f[k + 1] = step[<<k + 1, f[k]>>]
      BY <1>8, <2>1 DEF Results
    <2>3. f[k + 1] = Fed(f[k], bytes[k + 1])
      BY <2>1, <2>2
    <2>4. bytes[k + 1] = Byte((from + k) + 1)
      BY <1>1, <2>1
    <2>5. Fed(SplitUpTo(q, from + k), Byte((from + k) + 1)) = SplitUpTo(q, (from + k) + 1)
      <3>1. 4 * q =< from + k /\ from + k < 4 * Len(sent)
        BY <2>1, LenProperties DEF from
      <3> QED BY <2>1, <3>1, NextByte
    <2> QED BY <1>10, <2>1, <2>3, <2>4, <2>5
  <1>11. m \in fine
    <2> HIDE DEF fine
    <2>1. 0..m \subseteq fine
      BY <1>1, <1>9, <1>10, UpTo
    <2> QED BY <1>1, <2>1
  <1>12. f[m] = SplitUpTo(q, n)
    BY <1>1, <1>11
  <1>13. f[m] = table[1..m]
    BY <1>8 DEF Results
  <1> QED BY <1>2, <1>12, <1>13 DEF bytes, from


\* Bytes of the body and those that follow.
LEMMA Joined ==
    ASSUME NEW from \in Nat, NEW a \in Nat, NEW n \in Nat, from =< a, a =< n,
           NEW chunk \in Seq(Nat \X Nat), Len(chunk) = n - a,
           \A k \in 1..n - a : chunk[k] = Byte(a + k)
    PROVE  Slice(from, a) \o chunk = Slice(from, n)
  <1> DEFINE bytes == Slice(from, a)
             m == a - from
             o == n - a
             l == n - from
             V == Nat \X Nat
  <1>1. /\ bytes \in Seq(V) /\ Len(bytes) = m
        /\ \A k \in 1..m : bytes[k] = Byte(from + k)
    BY SliceTyped
  <1>2. /\ Slice(from, n) \in Seq(V) /\ Len(Slice(from, n)) = l
        /\ \A k \in 1..l : Slice(from, n)[k] = Byte(from + k)
    <2>1. from =< n
      OBVIOUS
    <2> QED BY <2>1, SliceTyped
  <1>3. m \in Nat /\ o \in Nat /\ m + o = l /\ chunk \in Seq(V) /\ Len(chunk) = o
    OBVIOUS
  <1>4. ASSUME NEW k \in 1..l, k > m
        PROVE  k - m \in 1..o /\ a + (k - m) = from + k
    BY <1>4
  <1>5. \A k \in 1..l : k =< m \/ k > m
    OBVIOUS
  <1>6. \A k \in 1..l : k =< m => k \in 1..m
    OBVIOUS
  <1>7. \A k \in 1..o : chunk[k] = Byte(a + k)
    OBVIOUS
  <1>8. \A k \in 1..l : k > m => ~(k =< m)
    OBVIOUS
  <1> HIDE DEF bytes, V, m, o, l
  <1>9. /\ bytes \o chunk \in Seq(V) /\ Len(bytes \o chunk) = m + o
        /\ \A k \in 1..m + o : (bytes \o chunk)[k]
              = IF k =< m THEN bytes[k] ELSE chunk[k - m]
    BY <1>1, <1>3, TwoParts
  <1>10. ASSUME NEW k \in 1..l
         PROVE  (bytes \o chunk)[k] = Slice(from, n)[k]
    <2>1. CASE k =< m
      BY <1>1, <1>2, <1>3, <1>6, <1>9, <2>1
    <2>2. CASE k > m
      BY <1>2, <1>3, <1>4, <1>7, <1>8, <1>9, <2>2
    <2> QED BY <1>5, <2>1, <2>2
  <1>11. bytes \o chunk = Slice(from, n)
    BY <1>2, <1>3, <1>9, <1>10, SeqEqual
  <1> QED BY <1>11 DEF bytes

\* The bytes held back and a chunk that follows them.
LEMMA Rejoined ==
    ASSUME StreamTypes, Buffered, ~finished, NEW n \in arrived + 1..Len(Body)
    PROVE  LET q == arrived \div 4 IN
           /\ q \in Nat /\ 4 * q =< n /\ n =< 4 * framed /\ n \in Nat
           /\ q =< framed
           /\ buffer \o SubSeq(Body, arrived + 1, n) = Slice(4 * q, n)
  <1> DEFINE q == arrived \div 4
             from == 4 * q
             total == 4 * framed
             chunk == SubSeq(Body, arrived + 1, n)
  <1>1. /\ framed \in Nat /\ total \in Nat /\ arrived \in 0..total
    BY LenProperties DEF StreamTypes
  <1>2. q \in Nat /\ from =< arrived /\ from \in Nat /\ arrived \in Nat /\ q =< framed
    BY <1>1
  <1>3. Body \in Seq(Nat \X Nat) /\ Len(Body) = total
        /\ \A b \in 1..total : Body[b] = Byte(b)
    <2>1. \A b \in 1..total : Byte(b) \in Nat \X Nat
      BY <1>1, ByteTyped
    <2> QED BY <1>1, <2>1 DEF Body
  <1>4. n \in Nat /\ n > arrived /\ n =< total
    BY <1>1, <1>2, <1>3
  <1>5. buffer = Slice(from, arrived)
    BY DEF Buffered
  <1> HIDE DEF q, from, total
  <1>6. /\ chunk \in Seq(Nat \X Nat) /\ Len(chunk) = n - arrived
        /\ \A k \in 1..n - arrived : chunk[k] = Byte(arrived + k)
    <2>1. \A k \in arrived + 1..n : Body[k] \in Nat \X Nat
      BY <1>2, <1>3, <1>4, ElementOfSeq
    <2>2. arrived + 1 \in 1..Len(Body) + 1 /\ n \in arrived..Len(Body)
      BY <1>2, <1>3, <1>4
    <2>3. /\ chunk \in Seq(Nat \X Nat) /\ Len(chunk) = n - arrived
          /\ \A k \in 1..n - arrived : chunk[k] = Body[arrived + k]
      BY <1>2, <1>3, <1>4, <2>1, <2>2, SubSeqProperties
    <2>4. \A k \in 1..n - arrived : arrived + k \in 1..total
      BY <1>1, <1>2, <1>4
    <2> QED BY <1>3, <2>3, <2>4
  <1> HIDE DEF chunk
  <1>7. Slice(from, arrived) \o chunk = Slice(from, n)
    <2>1. arrived =< n
      BY <1>2, <1>4
    <2> QED BY <1>2, <1>4, <1>6, <2>1, Joined, ZenonT(40)
  <1>8. q \in Nat /\ from =< n /\ n =< total /\ n \in Nat /\ q =< framed
    BY <1>2, <1>4
  <1> QED BY <1>5, <1>7, <1>8 DEF chunk, from, q, total

\* The last item yielded, and those still queued.
LEMMA Yields ==
    ASSUME StreamTypes, queue # <<>>
    PROVE  /\ Len(queue) \in Nat \ {0} /\ Len(got) \in Nat
           /\ Head(queue) = queue[1] /\ queue[1] \in Nat
           /\ Tail(queue) \in Seq(Nat) /\ Len(Tail(queue)) = Len(queue) - 1
           /\ \A j \in 1..Len(queue) - 1 : Tail(queue)[j] = queue[j + 1]
           /\ Append(got, Head(queue)) \in Seq(Nat)
           /\ Len(Append(got, Head(queue))) = Len(got) + 1
           /\ \A j \in 1..Len(got) + 1 : Append(got, Head(queue))[j]
                 = IF j = Len(got) + 1 THEN queue[1] ELSE got[j]
           /\ Last(Append(got, Head(queue))) = queue[1]
  <1>1. queue \in Seq(Nat) /\ got \in Seq(Nat)
    BY DEF StreamTypes
  <1>2. Len(queue) \in Nat \ {0} /\ Len(got) \in Nat /\ Head(queue) = queue[1]
        /\ queue[1] \in Nat
    BY <1>1, EmptySeq, LenProperties, ElementOfSeq, HeadTailProperties
  <1>3. /\ Tail(queue) \in Seq(Nat) /\ Len(Tail(queue)) = Len(queue) - 1
        /\ \A j \in 1..Len(queue) - 1 : Tail(queue)[j] = queue[j + 1]
    BY <1>1, <1>2, HeadTailProperties
  <1>4. /\ Append(got, queue[1]) \in Seq(Nat) /\ Len(Append(got, queue[1])) = Len(got) + 1
        /\ \A j \in 1..Len(got) + 1 : Append(got, queue[1])[j]
              = IF j = Len(got) + 1 THEN queue[1] ELSE got[j]
    BY <1>1, <1>2, OneMore
  <1>5. Last(Append(got, queue[1])) = queue[1]
    BY <1>2, <1>4 DEF Last
  <1> QED BY <1>2, <1>3, <1>4, <1>5


\* The turn goes on: its events grow, an event is rendered or the task dies.
LEMMA TurnSteps ==
    ASSUME StreamInv,
           sent' \in Seq(Events), Len(sent') >= Len(sent),
           \A j \in 1..Len(sent) : sent'[j] = sent[j],
           \A j \in 1..Len(sent') : j > Len(sent) /\ sent'[j] = "turn_end"
              => turn' = "done" /\ j = Len(sent'),
           sent' # sent => turn \notin {"done", "aborted"},
           turn' \in {"none", "running", "done", "aborted"},
           turn \in {"done", "aborted"} => turn' = turn,
           turn' = "done" /\ turn # "done"
              => Len(sent') > 0 /\ sent'[Len(sent')] = "turn_end",
           framed' \in framed..Len(sent'),
           UNCHANGED <<arrived, buffer, queue, finished, got>>,
           reader' \in {reader, "open"}
    PROVE  StreamInv'
  <1>1. /\ sent \in Seq(Events) /\ Len(sent) \in Nat /\ framed \in 0..Len(sent)
        /\ arrived \in 0..4 * framed /\ framed \in Nat /\ Len(sent') \in Nat
        /\ got \in Seq(Nat) /\ queue \in Seq(Nat) /\ Len(got) \in Nat /\ Len(queue) \in Nat
    BY LenProperties DEF StreamInv, StreamTypes
  <1>2. StreamTypes'
    <2>1. framed' \in 0..Len(sent') /\ framed =< framed' /\ framed' \in Nat
      BY <1>1
    <2>2. arrived \in 0..4 * framed'
      BY <1>1, <2>1, FourTimes
    <2> QED BY <2>1, <2>2 DEF StreamInv, StreamTypes
  <1>3. TurnEndsLast'
    <2>1. ASSUME NEW j \in 1..Len(sent'), sent'[j] = "turn_end"
          PROVE  turn' = "done" /\ j = Len(sent')
      <3>1. CASE j > Len(sent)
        BY <2>1, <3>1
      <3>2. CASE ~(j > Len(sent))
        <4>1. j \in 1..Len(sent) /\ sent[j] = "turn_end"
          BY <1>1, <2>1, <3>2
        <4>2. turn = "done" /\ j = Len(sent)
          BY <4>1 DEF StreamInv, TurnEndsLast
        <4> QED BY <4>2
      <3> QED BY <3>1, <3>2
    <2>2. turn' = "done" => Len(sent') > 0 /\ sent'[Len(sent')] = "turn_end"
      BY DEF StreamInv, TurnEndsLast
    <2> QED BY <2>1, <2>2 DEF TurnEndsLast
  <1>4. Buffered'
    BY DEF StreamInv, Buffered, Slice, Byte, Frame, NL
  <1>5. \A i \in 1..Len(sent) : i =< Len(sent') /\ Item(i)' = Item(i)
    BY <1>1 DEF Item, ErrItem
  <1>6. InOrder'
    <2> DEFINE Yielded(j) == \/ j =< Len(sent) /\ got[j] = Item(j)
                             \/ finished /\ queue = <<>> /\ j = Len(got) /\ got[j] = ErrItem
               Queued(j) == \/ Len(got) + j =< Len(sent) /\ queue[j] = Item(Len(got) + j)
                            \/ finished /\ Len(queue) = 1 /\ queue[j] = ErrItem
    <2>1. ASSUME NEW j \in 1..Len(got)
          PROVE  Yielded(j)'
      <3>1. Yielded(j)
        BY DEF StreamInv, InOrder
      <3> QED BY <1>1, <1>5, <3>1 DEF ErrItem
    <2>2. ASSUME NEW j \in 1..Len(queue)
          PROVE  Queued(j)'
      <3>1. Queued(j)
        BY DEF StreamInv, InOrder
      <3>2. Len(got) + j =< Len(sent) => Len(got) + j \in 1..Len(sent)
        BY <1>1
      <3> QED BY <1>5, <3>1, <3>2 DEF ErrItem
    <2>3. (\A j \in 1..Len(got) : Yielded(j))' /\ (\A j \in 1..Len(queue) : Queued(j))'
      BY <2>1, <2>2
    <2> QED BY <2>3 DEF InOrder
  <1>7. EndsOnce'
    <2>1. ASSUME NEW j \in 1..Len(got), j =< Len(sent'), sent'[j] = "turn_end"
          PROVE  finished /\ queue = <<>> /\ j = Len(got)
      <3>1. CASE j =< Len(sent)
        <4>1. sent[j] = "turn_end"
          BY <1>1, <2>1, <3>1
        <4> QED BY <3>1, <4>1 DEF StreamInv, EndsOnce
      <3>2. CASE ~(j =< Len(sent))
        BY <3>2 DEF StreamInv, InOrder
      <3> QED BY <3>1, <3>2
    <2> QED BY <2>1 DEF EndsOnce
  <1>8. Closing'
    BY <1>1 DEF StreamInv, Closing, ErrItem
  <1>9. Ended'
    BY DEF StreamInv, Ended
  <1> QED BY <1>2, <1>3, <1>4, <1>6, <1>7, <1>8, <1>9 DEF StreamInv

\* The events that close a turn: "turn_end" is the last of them.
LEMMA LastEvents ==
    ASSUME NEW o \in {"completed", "awaiting_tool", "plan", "error"}
    PROVE  /\ TerminalEvents(o) \in Seq(Events) /\ Len(TerminalEvents(o)) \in 1..3
           /\ \A j \in 1..Len(TerminalEvents(o)) :
                 (TerminalEvents(o)[j] = "turn_end") <=> (j = Len(TerminalEvents(o)))
  <1>1. CASE o = "completed"
    <2>1. TerminalEvents(o) = <<"usage", "turn_end">>
      BY <1>1 DEF TerminalEvents
    <2> QED BY <2>1 DEF Events
  <1>2. CASE o = "awaiting_tool"
    <2>1. TerminalEvents(o) = <<"tool_call_started", "tool_call_requested", "turn_end">>
      BY <1>2 DEF TerminalEvents
    <2> QED BY <2>1 DEF Events
  <1>3. CASE o \in {"plan", "error"}
    <2>1. TerminalEvents(o) = <<"turn_end">>
      BY <1>3 DEF TerminalEvents
    <2> QED BY <2>1 DEF Events
  <1> QED BY <1>1, <1>2, <1>3

LEMMA StreamedKeeps ==
    ASSUME StreamInv, Streamed
    PROVE  StreamInv'
  <1>1. /\ sent \in Seq(Events) /\ Len(sent) \in Nat /\ framed \in 0..Len(sent)
        /\ turn \in {"none", "running", "done", "aborted"}
    BY LenProperties DEF StreamInv, StreamTypes
  <1>2. ASSUME NEW i \in 1..Len(reqs), HandleStream(i)
        PROVE  StreamInv'
    BY <1>1, <1>2, TurnSteps DEF HandleStream, readVars
  <1>3. ASSUME NEW e \in LiveEvents, EmitLive(e)
        PROVE  StreamInv'
    <2>1. e \in Events /\ e # "turn_end"
      BY DEF LiveEvents, Events
    <2>2. sent' = Append(sent, e) /\ turn = "running" /\ UNCHANGED <<turn, framed>>
          /\ UNCHANGED <<reader, arrived, buffer, queue, finished, got>>
      BY <1>3 DEF EmitLive, readVars
    <2>3. /\ sent' \in Seq(Events) /\ Len(sent') = Len(sent) + 1
          /\ \A j \in 1..Len(sent) + 1 : sent'[j] = IF j = Len(sent) + 1 THEN e ELSE sent[j]
      BY <1>1, <2>1, <2>2, OneMore
    <2>4. \A j \in 1..Len(sent) : sent'[j] = sent[j]
      BY <1>1, <2>3
    <2>5. \A j \in 1..Len(sent') : j > Len(sent) => sent'[j] # "turn_end"
      BY <1>1, <2>1, <2>3
    <2>6. Len(sent') >= Len(sent) /\ framed' \in framed..Len(sent')
      BY <1>1, <2>2, <2>3
    <2> QED BY <2>2, <2>3, <2>4, <2>5, <2>6, TurnSteps
  <1>4. ASSUME NEW o \in {"completed", "awaiting_tool", "plan", "error"}, FinishTurn(o)
        PROVE  StreamInv'
    <2> DEFINE last == TerminalEvents(o)
    <2>1. /\ last \in Seq(Events) /\ Len(last) \in 1..3
          /\ \A j \in 1..Len(last) : (last[j] = "turn_end") <=> (j = Len(last))
      BY LastEvents
    <2>2. sent' = sent \o last /\ turn = "running" /\ turn' = "done" /\ UNCHANGED framed
          /\ UNCHANGED <<reader, arrived, buffer, queue, finished, got>>
      BY <1>4 DEF FinishTurn, readVars
    <2> HIDE DEF last
    <2>3. /\ sent' \in Seq(Events) /\ Len(sent') = Len(sent) + Len(last)
          /\ \A j \in 1..Len(sent) + Len(last) : sent'[j] =
                IF j =< Len(sent) THEN sent[j] ELSE last[j - Len(sent)]
      BY <1>1, <2>1, <2>2, TwoParts
    <2>4. \A j \in 1..Len(sent) : sent'[j] = sent[j]
      BY <1>1, <2>1, <2>3
    <2>5. ASSUME NEW j \in 1..Len(sent'), j > Len(sent)
          PROVE  (sent'[j] = "turn_end") <=> (j = Len(sent'))
      <3>1. j - Len(sent) \in 1..Len(last) /\ sent'[j] = last[j - Len(sent)]
        BY <1>1, <2>1, <2>3, <2>5
      <3>2. (j - Len(sent) = Len(last)) <=> (j = Len(sent'))
        BY <1>1, <2>1, <2>3, <2>5
      <3> QED BY <2>1, <3>1, <3>2
    <2>6. /\ Len(sent') >= Len(sent) /\ framed' \in framed..Len(sent')
          /\ Len(sent') \in 1..Len(sent') /\ Len(sent') > Len(sent) /\ Len(sent') > 0
      BY <1>1, <2>1, <2>2, <2>3
    <2>7. sent'[Len(sent')] = "turn_end"
      BY <2>5, <2>6
    <2> QED BY <2>2, <2>3, <2>4, <2>5, <2>6, <2>7, TurnSteps
  <1>5. CASE AbortTurn
    BY <1>1, <1>5, TurnSteps DEF AbortTurn, readVars
  <1>6. CASE RenderFrame
    BY <1>1, <1>6, TurnSteps DEF RenderFrame, readVars
  <1>7. CASE CutLink
    BY <1>1, <1>7, TurnSteps DEF CutLink, turnVars
  <1> QED BY <1>2, <1>3, <1>4, <1>5, <1>6, <1>7 DEF Streamed, LiveEvents


\* A chunk of any length arrives.
LEMMA ChunkKeeps ==
    ASSUME StreamInv, ReadChunk
    PROVE  StreamInv'
  <1>1. /\ Reading /\ queue = <<>> /\ ~finished
        /\ UNCHANGED <<sent, turn, framed, link, reader, finished, got>>
    BY DEF ReadChunk, Reading, turnVars
  <1>2. PICK n \in arrived + 1..Len(Body) :
           /\ Absorb(SubSeq(Body, arrived + 1, n))
           /\ arrived' = n
    BY DEF ReadChunk
  <1> DEFINE q == arrived \div 4
             records == n \div 4
             items == [j \in 1..records - q |-> Item(q + j)]
  <1>3. /\ q \in Nat /\ 4 * q =< n /\ n =< 4 * framed /\ n \in Nat
        /\ q =< framed
        /\ buffer \o SubSeq(Body, arrived + 1, n) = Slice(4 * q, n)
    BY <1>1, Rejoined DEF StreamInv
  <1>4. /\ sent \in Seq(Events) /\ Len(sent) \in Nat /\ framed \in 0..Len(sent)
        /\ got \in Seq(Nat) /\ Len(got) \in Nat
    BY LenProperties DEF StreamInv, StreamTypes
  <1>5. Len(queue) = 0 /\ Len(got) = q
    BY <1>1, <1>4 DEF StreamInv, Buffered
  <1>6. records \in Nat /\ q =< records /\ records =< framed /\ records - q \in Nat
    BY <1>3, <1>4
  <1>7. DrainRecords(Slice(4 * q, n)) = SplitUpTo(q, n)
    <2>1. n =< 4 * Len(sent)
      BY <1>3, <1>4
    <2> HIDE DEF q
    <2> QED BY <1>3, <1>4, <2>1, Drained
  <1>8. buffer' = Slice(4 * records, n) /\ queue' = items
    <2>1. SplitUpTo(q, n) = [rest |-> Slice(4 * records, n), items |-> items]
      BY DEF SplitUpTo
    <2>2. /\ buffer' = DrainRecords(Slice(4 * q, n)).rest
          /\ queue' = DrainRecords(Slice(4 * q, n)).items
      BY <1>2, <1>3 DEF Absorb
    <2> HIDE DEF q, records, items
    <2> QED BY <1>7, <2>1, <2>2
  <1>9. /\ queue' \in Seq(Nat) /\ Len(queue') = records - q
        /\ \A j \in 1..records - q : queue'[j] = Item(q + j)
    <2>1. \A j \in 1..records - q : Item(q + j) \in Nat
      BY <1>3 DEF Item, ErrItem
    <2> HIDE DEF q, records
    <2> QED BY <1>6, <1>8, <2>1
  <1> HIDE DEF items, records, q
  <1>10. StreamTypes'
    <2>1. arrived' \in 0..4 * framed
      BY <1>2, <1>3, <1>4
    <2> QED BY <1>1, <1>9, <2>1 DEF StreamInv, StreamTypes
  <1>11. TurnEndsLast' /\ EndsOnce' /\ Closing' /\ Ended'
    <2>1. \A j \in 1..Len(got) : ~(j =< Len(sent) /\ sent[j] = "turn_end")
      BY <1>1 DEF StreamInv, EndsOnce
    <2>2. EndsOnce'
      BY <1>1, <2>1 DEF EndsOnce
    <2>3. Ended'
      BY <1>1 DEF Reading, Ended
    <2> QED BY <1>1, <2>2, <2>3 DEF StreamInv, TurnEndsLast, Closing
  <1>12. Buffered'
    <2>1. buffer' = Slice(4 * (arrived \div 4), arrived)'
      <3>1. Slice(4 * (arrived \div 4), arrived)' = Slice(4 * (n \div 4), n)
        BY <1>2 DEF Slice, Byte, Frame, NL
      <3> QED BY <1>8, <3>1 DEF records
    <2>2. Len(got') + Len(queue') = records
      BY <1>1, <1>3, <1>5, <1>6, <1>9
    <2>3. (arrived \div 4)' = records
      BY <1>2 DEF records
    <2> QED BY <2>1, <2>2, <2>3 DEF Buffered
  <1>13. InOrder'
    <2>1. ASSUME NEW j \in 1..Len(got)
          PROVE  j =< Len(sent) /\ got[j] = Item(j)
      BY <1>1 DEF StreamInv, InOrder
    <2>2. ASSUME NEW j \in 1..records - q
          PROVE  Len(got) + j =< Len(sent) /\ queue'[j] = Item(Len(got) + j)
      <3>1. q + j =< Len(sent)
        BY <1>3, <1>4, <1>6
      <3> QED BY <1>5, <1>9, <3>1
    <2>3. \A j : Item(j)' = Item(j)
      BY <1>1 DEF Item, ErrItem
    <2> QED BY <1>1, <1>9, <2>1, <2>2, <2>3 DEF InOrder
  <1> QED BY <1>10, <1>11, <1>12, <1>13 DEF StreamInv

\* A read fails.
LEMMA FailureKeeps ==
    ASSUME StreamInv, ReadFails
    PROVE  StreamInv'
  <1>1. /\ queue = <<>> /\ ~finished /\ reader = "open"
        /\ queue' = <<ErrItem>> /\ finished' = TRUE
        /\ UNCHANGED <<sent, turn, framed, reader, arrived, buffer, got>>
    BY DEF ReadFails, Reading, turnVars
  <1>2. StreamTypes'
    BY <1>1 DEF StreamInv, StreamTypes, ErrItem
  <1>3. Len(queue') = 1 /\ queue'[1] = ErrItem
    BY <1>1
  <1>4. InOrder'
    <2>1. \A j \in 1..Len(got) : j =< Len(sent) /\ got[j] = Item(j)
      BY <1>1 DEF StreamInv, InOrder
    <2>2. \A j \in 1..1 : queue'[j] = ErrItem
      BY <1>3
    <2>3. \A j : Item(j)' = Item(j)
      BY <1>1 DEF Item, ErrItem
    <2> QED BY <1>1, <1>3, <2>1, <2>2, <2>3 DEF InOrder, ErrItem
  <1>5. EndsOnce'
    <2>1. \A j \in 1..Len(got) : ~(j =< Len(sent) /\ sent[j] = "turn_end")
      BY <1>1 DEF StreamInv, EndsOnce
    <2> QED BY <1>1, <2>1 DEF EndsOnce
  <1>6. TurnEndsLast' /\ Buffered' /\ Closing' /\ Ended'
    BY <1>1 DEF StreamInv, TurnEndsLast, Buffered, Closing, Ended, ErrItem
  <1> QED BY <1>2, <1>4, <1>5, <1>6 DEF StreamInv

\* The body ends: nothing is held back, and every event was yielded, so only
\* a turn that died is closed by the end of its body.
LEMMA CloseKeeps ==
    ASSUME StreamInv, ReadCloses
    PROVE  StreamInv'
  <1>1. /\ queue = <<>> /\ ~finished /\ reader = "open"
        /\ turn \in {"done", "aborted"} /\ framed = Len(sent) /\ arrived = Len(Body)
        /\ queue' = ParseRecord(buffer) /\ finished' = TRUE
        /\ UNCHANGED <<sent, turn, framed, reader, arrived, got>>
    BY DEF ReadCloses, Reading, turnVars
  <1>2. /\ sent \in Seq(Events) /\ framed \in Nat /\ got \in Seq(Nat) /\ Len(got) \in Nat
    BY LenProperties DEF StreamInv, StreamTypes
  <1>3. arrived = 4 * framed
    <2>1. \A b \in 1..4 * framed : Byte(b) \in Nat \X Nat
      BY <1>2, ByteTyped
    <2>2. Len(Body) = 4 * framed
      BY <1>2, <2>1 DEF Body
    <2> QED BY <1>1, <2>2
  <1>4. arrived \div 4 = framed /\ 4 * (arrived \div 4) = arrived /\ arrived - arrived = 0
    BY <1>2, <1>3
  <1>5. buffer = <<>>
    <2>1. buffer = Slice(arrived, arrived)
      BY <1>1, <1>4 DEF StreamInv, Buffered
    <2> QED BY <1>4, <2>1 DEF Slice
  <1>6. queue' = <<>>
    BY <1>1, <1>5 DEF ParseRecord
  <1>7. Len(got) = Len(sent)
    BY <1>1, <1>2, <1>4 DEF StreamInv, Buffered
  <1>8. turn = "aborted"
    <2>1. ASSUME turn = "done"
          PROVE  FALSE
      <3>1. Len(sent) > 0 /\ sent[Len(sent)] = "turn_end"
        BY <2>1 DEF StreamInv, TurnEndsLast
      <3>2. Len(sent) \in 1..Len(got) /\ Len(sent) =< Len(sent)
        BY <1>2, <1>7, <3>1
      <3> QED BY <1>1, <3>1, <3>2 DEF StreamInv, EndsOnce
    <2> QED BY <1>1, <2>1
  <1>9. StreamTypes'
    BY <1>1, <1>6 DEF StreamInv, StreamTypes
  <1>10. InOrder'
    <2>1. \A j \in 1..Len(got) : j =< Len(sent) /\ got[j] = Item(j)
      BY <1>1 DEF StreamInv, InOrder
    <2>2. \A j : Item(j)' = Item(j)
      BY <1>1 DEF Item, ErrItem
    <2> QED BY <1>1, <1>6, <2>1, <2>2 DEF InOrder
  <1>11. EndsOnce'
    <2>1. \A j \in 1..Len(got) : ~(j =< Len(sent) /\ sent[j] = "turn_end")
      BY <1>1 DEF StreamInv, EndsOnce
    <2> QED BY <1>1, <2>1 DEF EndsOnce
  <1>12. TurnEndsLast' /\ Buffered' /\ Closing' /\ Ended'
    BY <1>1, <1>6, <1>8 DEF StreamInv, TurnEndsLast, Buffered, Closing, Ended
  <1> QED BY <1>9, <1>10, <1>11, <1>12 DEF StreamInv

\* The next item is yielded.
LEMMA YieldKeeps ==
    ASSUME StreamInv, YieldItem
    PROVE  StreamInv'
  <1> DEFINE head == queue[1]
             last == head # ErrItem /\ sent[head] = "turn_end"
             g == Len(got)
             n == Len(queue)
  <1>1. /\ queue # <<>> /\ reader = "open"
        /\ got' = Append(got, Head(queue)) /\ queue' = Tail(queue)
        /\ UNCHANGED <<sent, turn, framed, reader, arrived, buffer>>
    BY DEF YieldItem, turnVars
  <1>2. /\ n \in Nat \ {0} /\ g \in Nat /\ Head(queue) = head /\ head \in Nat
        /\ queue' \in Seq(Nat) /\ Len(queue') = n - 1
        /\ \A j \in 1..n - 1 : queue'[j] = queue[j + 1]
        /\ got' \in Seq(Nat) /\ Len(got') = g + 1
        /\ \A j \in 1..g + 1 : got'[j] = IF j = g + 1 THEN head ELSE got[j]
        /\ Last(got') = head
    BY <1>1, Yields DEF StreamInv
  <1>3. finished' = (finished \/ last)
    BY <1>2 DEF YieldItem
  <1>4. sent \in Seq(Events) /\ Len(sent) \in Nat
    BY LenProperties DEF StreamInv, StreamTypes
  <1>5. \/ g + 1 =< Len(sent) /\ head = Item(g + 1)
        \/ finished /\ n = 1 /\ head = ErrItem
    <2>1. 1 \in 1..n
      BY <1>2
    <2> QED BY <2>1 DEF StreamInv, InOrder
  <1>6. \A j \in 1..g : j =< Len(sent) /\ got[j] = Item(j)
    BY <1>1 DEF StreamInv, InOrder
  <1>7. \A j \in 1..g : sent[j] # "turn_end"
    BY <1>1, <1>6 DEF StreamInv, EndsOnce
  <1>8. \A j \in 1..n - 1 :
           /\ g + (j + 1) =< Len(sent) /\ queue[j + 1] = Item(g + (j + 1))
    <2>1. ASSUME NEW j \in 1..n - 1
          PROVE  g + (j + 1) =< Len(sent) /\ queue[j + 1] = Item(g + (j + 1))
      <3>1. j + 1 \in 1..n /\ n # 1
        <4>1. n \in Nat
          BY <1>2
        <4> HIDE DEF n
        <4> QED BY <4>1
      <3> QED BY <3>1 DEF StreamInv, InOrder
    <2> QED BY <2>1
  <1>9. last => /\ n = 1 /\ head = g + 1 /\ g + 1 \in 1..Len(sent)
                /\ sent[g + 1] = "turn_end"
    <2>1. ASSUME last
          PROVE  n = 1 /\ head = g + 1 /\ g + 1 \in 1..Len(sent) /\ sent[g + 1] = "turn_end"
      <3>1. g + 1 =< Len(sent) /\ head = g + 1 /\ g + 1 \in 1..Len(sent)
        BY <1>2, <1>4, <1>5, <2>1 DEF Item
      <3>2. sent[g + 1] = "turn_end"
        BY <2>1, <3>1
      <3>3. g + 1 = Len(sent)
        BY <3>1, <3>2 DEF StreamInv, TurnEndsLast
      <3>4. ~(n > 1)
        <4>1. n > 1 => 1 \in 1..n - 1
          BY <1>2
        <4>2. n > 1 => g + (1 + 1) =< Len(sent)
          BY <1>8, <4>1
        <4> QED BY <1>2, <3>3, <4>2
      <3> QED BY <1>2, <3>1, <3>2, <3>4
    <2> QED BY <2>1
  <1>10. n = 1 => queue' = <<>>
    BY <1>2
  <1>11. \A j : Item(j)' = Item(j)
    BY <1>1 DEF Item, ErrItem
  <1>12. ErrItem' = ErrItem
    BY DEF ErrItem
  <1> HIDE DEF head, g, n, last
  <1>13. StreamTypes'
    BY <1>1, <1>2, <1>3 DEF StreamInv, StreamTypes, last
  <1>14. TurnEndsLast'
    BY <1>1 DEF StreamInv, TurnEndsLast
  <1>15. Buffered'
    <2>1. ~finished' => ~finished
      BY <1>3
    <2>2. g + n = (g + 1) + (n - 1)
      BY <1>2
    <2>3. Slice(4 * (arrived \div 4), arrived)' = Slice(4 * (arrived \div 4), arrived)
      BY <1>1 DEF Slice, Byte, Frame, NL
    <2> QED BY <1>1, <1>2, <2>1, <2>2, <2>3 DEF StreamInv, Buffered, g, n
  <1>16. InOrder'
    <2>1. ASSUME NEW j \in 1..g + 1
          PROVE  \/ j =< Len(sent) /\ got'[j] = Item(j)
                 \/ finished' /\ queue' = <<>> /\ j = g + 1 /\ got'[j] = ErrItem
      <3>1. CASE j = g + 1
        BY <1>2, <1>3, <1>5, <1>10, <3>1
      <3>2. CASE j # g + 1
        <4>1. j \in 1..g
          BY <1>2, <3>2
        <4> QED BY <1>2, <1>6, <3>2, <4>1
      <3> QED BY <3>1, <3>2
    <2>2. ASSUME NEW j \in 1..n - 1
          PROVE  (g + 1) + j =< Len(sent) /\ queue'[j] = Item((g + 1) + j)
      <3>1. g + (j + 1) = (g + 1) + j
        BY <1>2
      <3> QED BY <1>2, <1>8, <3>1
    <2> QED BY <1>1, <1>2, <1>11, <1>12, <2>1, <2>2 DEF InOrder
  <1>17. EndsOnce'
    <2>1. ASSUME NEW j \in 1..g + 1, j =< Len(sent), sent[j] = "turn_end"
          PROVE  finished' /\ queue' = <<>> /\ j = g + 1
      <3>1. j = g + 1
        BY <1>2, <1>7, <2>1
      <3>2. CASE finished /\ n = 1 /\ head = ErrItem
        BY <1>3, <1>10, <3>1, <3>2
      <3>3. CASE head = Item(g + 1)
        <4>1. head = g + 1 /\ head # ErrItem /\ sent[head] = "turn_end"
          BY <1>2, <2>1, <3>1, <3>3 DEF Item, ErrItem
        <4>2. last
          BY <4>1 DEF last
        <4> QED BY <1>3, <1>9, <1>10, <3>1, <4>2
      <3> QED BY <1>5, <3>2, <3>3
    <2> QED BY <1>1, <1>2, <2>1 DEF EndsOnce
  <1>18. Closing'
    <2>1. ASSUME finished'
          PROVE  \/ turn = "aborted"
                 \/ /\ queue' = <<>> /\ got' # <<>>
                    /\ \/ Last(got') = ErrItem
                       \/ Last(got') \in 1..Len(sent) /\ sent[Last(got')] = "turn_end"
      <3>1. got' # <<>>
        BY <1>2
      <3>2. CASE last
        BY <1>2, <1>9, <1>10, <3>1, <3>2
      <3>3. CASE ~last
        <4>1. finished
          BY <1>3, <2>1, <3>3
        <4>2. turn = "aborted" \/ queue = <<ErrItem>>
          BY <1>1, <4>1 DEF StreamInv, Closing
        <4>3. queue = <<ErrItem>> => n = 1 /\ head = ErrItem
          BY DEF n, head
        <4> QED BY <1>2, <1>10, <3>1, <4>2, <4>3
      <3> QED BY <3>2, <3>3
    <2> QED BY <1>1, <1>12, <2>1 DEF Closing
  <1>19. Ended'
    BY <1>1 DEF Ended
  <1> QED BY <1>13, <1>14, <1>15, <1>16, <1>17, <1>18, <1>19 DEF StreamInv

LEMMA StreamInit == WireInit => StreamInv
  <1> SUFFICES ASSUME WireInit
               PROVE  StreamInv
    OBVIOUS
  <1>1. /\ sent = <<>> /\ turn = "none" /\ framed = 0 /\ reader = "none" /\ arrived = 0
        /\ buffer = <<>> /\ queue = <<>> /\ finished = FALSE /\ got = <<>>
    BY DEF WireInit
  <1>2. Slice(4 * (arrived \div 4), arrived) = <<>>
    BY <1>1 DEF Slice
  <1>3. StreamTypes
    <2>1. <<>> \in Seq(Events) /\ <<>> \in Seq(Nat) /\ Len(<<>>) = 0
      OBVIOUS
    <2>2. 0 \in 0..0 /\ 0 \in 0..4 * 0
      OBVIOUS
    <2> QED BY <1>1, <2>1, <2>2 DEF StreamTypes
  <1>4. Buffered
    BY <1>1, <1>2 DEF Buffered
  <1> QED BY <1>1, <1>3, <1>4 DEF StreamInv, TurnEndsLast, InOrder, EndsOnce,
             Closing, Ended

LEMMA StreamNext ==
    ASSUME StreamInv, [WireNext]_wireVars
    PROVE  StreamInv'
  <1>1. ASSUME UNCHANGED <<turnVars, arrived, buffer, queue, finished, got>>,
               reader' \in {reader, "open"}
        PROVE  StreamInv'
    <2>1. /\ sent \in Seq(Events) /\ Len(sent) \in Nat /\ framed \in 0..Len(sent)
          /\ turn \in {"none", "running", "done", "aborted"}
      BY LenProperties DEF StreamInv, StreamTypes
    <2> QED BY <1>1, <2>1, TurnSteps DEF turnVars
  <1>2. CASE Client
    <2>1. \/ UNCHANGED <<turnVars, readVars>>
          \/ \E h \in Handles : Receive(h)
      BY <1>2 DEF Client, WithApiKey, WithSessionToken, Call, CallRaw, GiveUp
    <2>2. ASSUME NEW h \in Handles, Receive(h)
          PROVE  UNCHANGED turnVars /\ (UNCHANGED readVars \/ OpenStream)
      <3>1. UNCHANGED turnVars
        BY <2>2 DEF Receive
      <3> DEFINE r == reqs[waiting[h]]
                 ok == Outcome(r.answer) = "ok"
      <3>2. CASE ok /\ r.op = "bootstrap"
        BY <2>2, <3>2 DEF Receive, TakeBootstrap
      <3>3. CASE ok /\ r.op = "sign_in"
        BY <2>2, <3>3 DEF Receive, TakeSignIn
      <3>4. CASE ok /\ r.op = "sign_out"
        BY <2>2, <3>4 DEF Receive, TakeSignOut
      <3>5. CASE ok /\ r.op \in StreamOps
        BY <2>2, <3>5 DEF Receive, StreamOps
      <3>6. CASE /\ ~(ok /\ r.op = "bootstrap") /\ ~(ok /\ r.op = "sign_in")
                 /\ ~(ok /\ r.op = "sign_out") /\ ~(ok /\ r.op \in StreamOps)
        BY <2>2, <3>6 DEF Receive
      <3> QED BY <3>1, <3>2, <3>3, <3>4, <3>5, <3>6
    <2> QED BY <1>1, <2>1, <2>2 DEF OpenStream, readVars
  <1>3. CASE Layers \/ Replenish \/ UNCHANGED wireVars
    <2>1. UNCHANGED <<turnVars, readVars>>
      BY <1>3 DEF Layers, Replenish, wireVars
    <2> QED BY <1>1, <2>1 DEF readVars
  <1>4. CASE Streamed
    BY <1>4, StreamedKeeps
  <1>5. CASE Reader
    <2>1. CASE EndStream
      <3>1. /\ queue = <<>> /\ finished
            /\ UNCHANGED <<sent, turn, framed, arrived, buffer, queue, finished, got>>
        BY <2>1 DEF EndStream, turnVars
      <3> QED BY <3>1 DEF StreamInv, StreamTypes, TurnEndsLast, Buffered, Slice, Byte,
              Frame, NL, InOrder, Item, EndsOnce, Closing, Ended, ErrItem
    <2> QED BY <1>5, <2>1, ChunkKeeps, FailureKeeps, CloseKeeps, YieldKeeps DEF Reader
  <1> QED BY <1>2, <1>3, <1>4, <1>5 DEF WireNext

\* However its body is cut into chunks, whatever read fails, and however long
\* the turn, the caller sees the events of a streamed turn in order, each once,
\* with an error only for an event it cannot decode or as the last item, and
\* nothing after turn_end; the stream of a turn that did not die ends with
\* turn_end or an error (drain_sse_records, parse_sse_record, sse_events,
\* terminal_events).
THEOREM StreamIsFaithful == WireSpec => []StreamFaithful
  <1>1. StreamInv => StreamFaithful
    <2> SUFFICES ASSUME StreamInv
                 PROVE  StreamFaithful
      OBVIOUS
    <2>1. got \in Seq(Nat) /\ Len(got) \in Nat /\ Len(sent) \in Nat
      BY LenProperties DEF StreamInv, StreamTypes
    <2>2. \A j \in 1..Len(got) :
             \/ got[j] = j
             \/ got[j] = ErrItem /\ (j = Len(got) \/ sent[j] = "foreign")
      BY DEF StreamInv, InOrder, Item
    <2>3. reader = "ended" /\ turn # "aborted" =>
             /\ got # <<>>
             /\ Last(got) = ErrItem \/ sent[Last(got)] = "turn_end"
      BY DEF StreamInv, Ended, Closing
    <2>4. \A j \in 1..Len(got) - 1 : sent[j] # "turn_end"
      <3>1. ASSUME NEW j \in 1..Len(got) - 1
            PROVE  sent[j] # "turn_end"
        <4>1. j \in 1..Len(got) /\ j # Len(got)
          BY <2>1
        <4> QED BY <4>1 DEF StreamInv, InOrder, EndsOnce
      <3> QED BY <3>1
    <2> QED BY <2>2, <2>3, <2>4 DEF StreamFaithful
  <1> QED BY <1>1, StreamInit, StreamNext, PTL DEF WireSpec

=============================================================================
