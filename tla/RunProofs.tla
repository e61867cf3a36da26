------------------------------ MODULE RunProofs ------------------------------
(***************************************************************************)
(* Theorems about what a run stores and what is recorded of it.            *)
(*                                                                         *)
(* RunContent: what an encrypted session stores, that pauses can be        *)
(* answered, and that plan mode and tool results survive a run.            *)
(*                                                                         *)
(* Ledger, from "The ledger" on: what a completed turn is charged, what a  *)
(* continuation records, what a paged reading shows, and that the usage    *)
(* report adds up, for any turns, models, prices and counts, any size of a *)
(* page and any bounds.                                                    *)
(***************************************************************************)
EXTENDS RunContent, Ledger, FoldFacts, SequenceTheorems, FiniteSetTheorems, TLAPS

-----------------------------------------------------------------------------
(* The content of a run: types *)

\* Once there was a run, its input is stored, and a turn is always of a run.
RunStored ==
    /\ phase # "none" => bundle.is # "none" /\ bundle.text \in Texts
    /\ turn # None => phase # "none"

Typing == TypeOK /\ RunStored

\* A message is a row of its own, stored clear or sealed.
LEMMA StoredTyped ==
    \A message \in Messages, sealed \in BOOLEAN : Stored(message, sealed) \in Rows
  BY DEF Stored, Messages, Rows

\* Flushing appends rows.
LEMMA FlushTyped ==
    ASSUME history \in Seq(Rows), pending \in Seq(Messages)
    PROVE  history \o [i \in 1..Len(pending) |-> Stored(pending[i], TRUE)]
             \in Seq(Rows)
  <1> DEFINE n == Len(pending)
             flushed == [i \in 1..n |-> Stored(pending[i], TRUE)]
  <1>1. n \in Nat
    OBVIOUS
  <1>2. ASSUME NEW i \in 1..n PROVE Stored(pending[i], TRUE) \in Rows
    <2>1. pending[i] \in Messages
      OBVIOUS
    <2> QED BY <2>1, StoredTyped
  <1>3. flushed \in [1..n -> Rows]
    BY <1>2
  <1>4. flushed \in Seq(Rows)
    BY <1>1, <1>3, SeqDef, ZenonT(40)
  <1> QED BY <1>4, ConcatProperties

\* Authoring a message keeps rows rows and deferred messages messages.
LEMMA AuthorTyped ==
    ASSUME history \in Seq(Rows), NEW t \in Turns,
           NEW role \in {"user", "assistant"}
    PROVE  /\ AuthorMessage(t, role).history \in Seq(Rows)
           /\ AuthorMessage(t, role).deferred \in Seq(Messages)
  <1> DEFINE message == [role |-> role, text |-> t.input]
  <1>1. message \in Messages /\ t.deferred \in Seq(Messages)
    BY DEF Turns, Messages
  <1>2. Stored(message, FALSE) \in Rows
    BY <1>1, StoredTyped
  <1>3. Append(t.deferred, message) \in Seq(Messages)
    BY <1>1
  <1>4. Append(history, Stored(message, FALSE)) \in Seq(Rows)
    BY <1>2, AppendProperties
  <1> QED BY <1>1, <1>3, <1>4 DEF AuthorMessage

\* The turn that a continuation starts is a turn.
LEMMA ResumeTyped ==
    ASSUME NEW step, NEW results \in BOOLEAN, NEW opened \in SUBSET Refs,
           NEW planning \in BOOLEAN, bundle.text \in Texts,
           Resume(step, results, opened, planning)
    PROVE  turn' \in Turns
  BY DEF Resume, Turns

\* So is the turn of a new run or of an injection.
LEMMA StartTyped ==
    ASSUME NEW text \in Texts, NEW seals \in BOOLEAN,
           NEW planning \in BOOLEAN, Start(text, seals, planning)
    PROVE  turn' \in Turns
  BY DEF Start, Turns

\* The empty offer is an offer.
LEMMA NoOfferTyped == NoOffer \in Offers
  BY DEF NoOffer, Offers

\* What the client opens are content references.
LEMMA OpenedTyped == ASSUME TypeOK PROVE Opened \in SUBSET Refs
  BY DEF TypeOK, Offers, Opened

\* Sealing the run input keeps its text.
LEMMA ResealTyped ==
    ASSUME Typing, NEW S, ResealRunInput(S)
    PROVE  /\ bundle' \in Bundles
           /\ bundle'.text = bundle.text
           /\ bundle.is # "none" => bundle'.is # "none"
           /\ bundle'.is = (IF "run_input" \in S THEN "sealed" ELSE bundle.is)
  BY DEF Typing, TypeOK, ResealRunInput, Bundles

\* Resealing rows stores them in one of the two ways.
LEMMA RowsResealed ==
    ASSUME NEW k, NEW S, NEW stored \in SUBSET Storage
    PROVE  Reseal(k, S, stored) \in SUBSET Storage
  BY DEF Reseal, Storage

\* Every handler and every step of a turn keeps the types.
LEMMA StepTyping == ASSUME Typing, Next PROVE Typing'
  <1> USE BoundsAssumption, NoOfferTyped DEF Typing, TypeOK, RunStored, PhaseKinds, rows,
          checkpoint, client, Storage
  <1>0. 0..MaxTexts = {0} \cup Texts
    BY DEF Texts
  <1>1. CASE Execute
    <2>1. texts' \in Texts
      BY <1>1 DEF Execute, Texts
    <2>2. PICK planning \in BOOLEAN : planActive' = planning
                                      /\ Start(texts', encrypted, planning)
      BY <1>1 DEF Execute
    <2>3. turn' \in Turns
      BY <2>1, <2>2, StartTyped
    <2>4. bundle' \in Bundles /\ bundle'.is # "none" /\ bundle'.text \in Texts
      BY <1>0, <1>1, <2>1 DEF Execute, PersistRunInput, Bundles
    <2>5. answer' \in Answers
      BY <1>0, <1>1, <2>1 DEF Execute, Answers
    <2>6. /\ phase' = "idle" /\ pending' = <<>> /\ offer' = NoOffer
          /\ UNCHANGED <<encrypted, history, memory, traces>>
      BY <1>1 DEF Execute
    <2>7. planActive' \in BOOLEAN /\ approved' \in BOOLEAN
      BY <1>1, <2>2 DEF Execute
    <2>8. texts' \in 0..MaxTexts
      BY <1>0, <2>1
    <2> QED BY <2>3, <2>4, <2>5, <2>6, <2>7, <2>8
  <1>2. CASE RejectSeals
    BY <1>2 DEF RejectSeals, vars
  <1>3. CASE ResumeToolResults
    <2>1. PICK S \in SUBSET Refs : ResumeToolResults!(S)
      BY <1>3 DEF ResumeToolResults
    <2>2. bundle.text \in Texts /\ bundle.is # "none" /\ phase' # "none"
      BY <2>1 DEF Accepts
    <2>3. turn' \in Turns
      BY <2>1, <2>2, ResumeTyped
    <2>4. history' \in Seq(Rows)
      BY <2>1, FlushTyped DEF FlushPendingMessages
    <2>5. answer' \in Answers
      BY <1>0, <2>1, <2>2 DEF Answers
    <2> QED BY <2>1, <2>2, <2>3, <2>4, <2>5, ResealTyped
  <1>4. CASE ApprovePlan
    <2>1. PICK S \in SUBSET Refs : ApprovePlan!(S)
      BY <1>4 DEF ApprovePlan
    <2>2. bundle.text \in Texts /\ bundle.is # "none" /\ phase' # "none"
      BY <2>1 DEF Accepts
    <2>3. turn' \in Turns
      BY <2>1, <2>2, ResumeTyped
    <2>4. history' \in Seq(Rows)
      BY <2>1, FlushTyped DEF FlushPendingMessages
    <2>5. answer' \in Answers
      BY <1>0, <2>1, <2>2 DEF Answers
    <2> QED BY <2>1, <2>2, <2>3, <2>4, <2>5, ResealTyped
  <1>5. CASE RejectPlan
    <2>1. PICK S \in SUBSET Refs : RejectPlan!(S)
      BY <1>5 DEF RejectPlan
    <2>2. bundle.text \in Texts /\ bundle.is # "none"
      BY <2>1 DEF Accepts
    <2>3. history' \in Seq(Rows)
      BY <2>1, FlushTyped DEF FlushPendingMessages
    <2> QED BY <2>1, <2>2, <2>3, ResealTyped DEF ToIdle
  <1>6. CASE ResumeDecrypted
    <2>1. PICK S \in SUBSET Refs : ResumeDecrypted!(S)
      BY <1>6 DEF ResumeDecrypted
    <2>2. bundle.text \in Texts /\ bundle.is # "none" /\ phase' # "none"
      BY <2>1 DEF Accepts
    <2>3. turn' \in Turns
      BY <2>1, <2>2, OpenedTyped, ResumeTyped
    <2> QED BY <2>1, <2>2, <2>3, ResealTyped
  <1>7. CASE ResumeSealed
    <2>1. PICK S \in SUBSET Refs : ResumeSealed!(S)
      BY <1>7 DEF ResumeSealed
    <2>2. bundle.text \in Texts /\ bundle.is # "none"
      BY <2>1 DEF Accepts
    <2>3. history' \in Seq(Rows)
      BY <2>1, FlushTyped DEF FlushPendingMessages
    <2>4. memory' \in SUBSET Storage /\ traces' \in SUBSET Storage
      BY <2>1, RowsResealed
    <2> QED BY <2>1, <2>2, <2>3, <2>4, ResealTyped DEF ToIdle
  <1>8. CASE ResumeInject
    <2>1. texts' \in Texts
      BY <1>8 DEF ResumeInject, Texts
    <2>2. turn' \in Turns
      BY <1>8, <2>1, StartTyped DEF ResumeInject
    <2>3. answer' \in Answers
      BY <1>0, <1>8, <2>1 DEF ResumeInject, Answers
    <2> QED BY <1>0, <1>8, <2>1, <2>2, <2>3 DEF ResumeInject
  <1>9. CASE ResumeBreak
    BY <1>9 DEF ResumeBreak, ToIdle
  <1>10. CASE PauseForDecrypt
    BY <1>10 DEF PauseForDecrypt, Recalling, SealedByRun, SealedNeeds,
                 Offers, Refs
  <1>11. CASE BuildPrompt
    <2>1. turn \in Turns
      BY <1>11 DEF BuildPrompt, Recalling
    <2> DEFINE authored == AuthorMessage(turn, "user")
    <2>2. authored.history \in Seq(Rows) /\ authored.deferred \in Seq(Messages)
      BY <2>1, AuthorTyped
    <2>3. history' \in {history, authored.history}
      BY <1>11 DEF BuildPrompt
    <2>4. turn' \in Turns
      <3> HIDE DEF authored
      <3>1. \/ turn' = [turn EXCEPT !.at = "invoke"]
            \/ turn' = [turn EXCEPT !.at = "invoke", !.recorded = TRUE,
                                    !.deferred = authored.deferred]
        BY <1>11 DEF BuildPrompt, authored
      <3> QED BY <2>1, <2>2, <3>1, ZenonT(40) DEF Turns
    <2> QED BY <1>11, <2>1, <2>2, <2>3, <2>4, NoneAssumption
            DEF BuildPrompt, Recalling
  <1>12. CASE AllDenied
    BY <1>12 DEF AllDenied, Invoking, MemoryTool, Turns
  <1>13. CASE PauseForTools
    <2>1. turn \in Turns
      BY <1>13 DEF PauseForTools, Invoking
    <2>2. history' \in Seq(Rows) /\ pending' \in Seq(Messages)
      BY <1>13, <2>1, AuthorTyped DEF PauseForTools
    <2>3. memory' \in SUBSET Storage
      BY <1>13 DEF PauseForTools, MemoryTool
    <2>4. offer' \in Offers
      BY <1>13 DEF PauseForTools, SealedByRun, Offers, Refs
    <2> QED BY <1>13, <2>2, <2>3, <2>4 DEF PauseForTools, Invoking
  <1>14. CASE PauseForApproval
    <2>1. turn.deferred \in Seq(Messages)
      BY <1>14 DEF PauseForApproval, Invoking, Turns
    <2>2. memory' \in SUBSET Storage
      BY <1>14 DEF PauseForApproval, MemoryTool
    <2>3. offer' \in Offers
      BY <1>14 DEF PauseForApproval, SealedByRun, Offers, Refs
    <2> QED BY <1>14, <2>1, <2>2, <2>3 DEF PauseForApproval, Invoking
  <1>15. CASE FinishCompleted
    <2>1. turn \in Turns
      BY <1>15 DEF FinishCompleted, Invoking
    <2>2. history' \in Seq(Rows) /\ pending' \in Seq(Messages)
      BY <1>15, <2>1, AuthorTyped DEF FinishCompleted
    <2>3. memory' \in SUBSET Storage
      BY <1>15 DEF FinishCompleted, MemoryTool
    <2>4. offer' \in Offers
      BY <1>15 DEF FinishCompleted, SealedByRun, LeftInClear,
                   Offers, Refs
    <2> QED BY <1>15, <2>2, <2>3, <2>4 DEF FinishCompleted, Invoking
  <1>16. CASE TurnFails
    BY <1>16 DEF TurnFails, ToIdle
  <1> QED BY <1>1, <1>2, <1>3, <1>4, <1>5, <1>6, <1>7, <1>8, <1>9, <1>10,
             <1>11, <1>12, <1>13, <1>14, <1>15, <1>16 DEF Next

\* Typing is inductive, so it holds throughout.
LEMMA TypingInvariant == Spec => []Typing
  <1>1. Init => Typing
    <2> SUFFICES ASSUME Init PROVE Typing
      OBVIOUS
    <2>1. encrypted \in BOOLEAN
      BY EncryptionAssumption, Zenon DEF Init
    <2>2. bundle \in Bundles /\ answer \in Answers
      BY BoundsAssumption DEF Init, Bundles, Answers
    <2>3. /\ phase = "none" /\ pending = <<>> /\ offer = NoOffer
          /\ history = <<>> /\ memory = {} /\ traces = {}
          /\ turn = None /\ texts = 0
      BY DEF Init
    <2>4. planActive \in BOOLEAN /\ approved \in BOOLEAN
      BY DEF Init
    <2> QED BY <2>1, <2>2, <2>3, <2>4, BoundsAssumption, NoOfferTyped
            DEF Typing, TypeOK, RunStored, PhaseKinds
  <1>2. Typing /\ [Next]_vars => Typing'
    <2>1. ASSUME Typing, UNCHANGED vars PROVE Typing'
      BY <2>1 DEF vars, rows, checkpoint, client, Typing, TypeOK, RunStored
    <2> QED BY <2>1, StepTyping
  <1> QED BY <1>1, <1>2, PTL DEF Spec

\* Building the prompt and feeding refusals back go on with the same turn.
LEMMA SameTurn ==
    ASSUME Typing, BuildPrompt \/ AllDenied
    PROVE  /\ turn \in Turns /\ turn # None
           /\ turn' \in Turns /\ turn' # None
           /\ turn'.stored = turn.stored
           /\ turn'.seals = turn.seals
           /\ turn'.planning = turn.planning
           /\ turn'.results = turn.results
           /\ turn'.input = turn.input
           /\ UNCHANGED <<encrypted, bundle, planActive, approved, checkpoint,
                          client>>
  <1>1. turn \in Turns /\ turn # None
    BY DEF BuildPrompt, AllDenied, Recalling, Invoking, Typing, TypeOK
  <1>2. turn' \in Turns \cup {None}
    <2>1. Typing'
      BY StepTyping DEF Next
    <2> QED BY <2>1 DEF Typing, TypeOK
  <1>3. \/ turn' = [turn EXCEPT !.at = "invoke"]
        \/ \E d : turn' = [turn EXCEPT !.at = "invoke", !.recorded = TRUE,
                                       !.deferred = d]
        \/ turn' = [turn EXCEPT !.at = "recall"]
    BY DEF BuildPrompt, AllDenied
  <1>4. turn' # None
    <2>1. turn'.deferred \in Seq(Messages)
      <3>1. CASE AllDenied
        BY <1>1, <3>1 DEF AllDenied, Turns
      <3>2. CASE BuildPrompt
        BY <1>1, <3>2, AuthorTyped DEF BuildPrompt, Turns, Typing, TypeOK
      <3> QED BY <3>1, <3>2
    <2>2. turn' \in Turns
      BY <1>1, <1>3, <2>1 DEF Turns
    <2> QED BY <2>2, NoneAssumption
  <1>5. /\ turn'.stored = turn.stored /\ turn'.seals = turn.seals
        /\ turn'.planning = turn.planning /\ turn'.results = turn.results
        /\ turn'.input = turn.input
    BY <1>1, <1>3 DEF Turns
  <1>6. UNCHANGED <<encrypted, bundle, planActive, approved, checkpoint, client>>
    BY DEF BuildPrompt, AllDenied
  <1> QED BY <1>1, <1>2, <1>4, <1>5, <1>6

\* RunContent is type correct: every handler of orchestrator.rs and every step
\* of run_turn_inner leaves rows, checkpoint and turn well-formed.
THEOREM ContentTypeCorrect == Spec => []TypeOK
  <1>1. Typing => TypeOK
    BY DEF Typing
  <1> QED BY <1>1, TypingInvariant, PTL

-----------------------------------------------------------------------------
(* An encrypted session stores no readable message or request *)

\* Flushed rows are sealed.
LEMMA FlushSealed ==
    ASSUME Typing, StoredSealed, encrypted, FlushPendingMessages
    PROVE  \A i \in 1..Len(history') : history'[i].sealed
  <1> DEFINE n == Len(pending)
             flushed == [i \in 1..n |-> Stored(pending[i], TRUE)]
  <1>1. history \in Seq(Rows) /\ pending \in Seq(Messages) /\ n \in Nat
    BY DEF Typing, TypeOK
  <1>2. \A i \in 1..n : flushed[i].sealed = TRUE /\ flushed[i] \in Rows
    <2> TAKE i \in 1..n
    <2>1. pending[i] \in Messages
      BY <1>1
    <2> QED BY <2>1, StoredTyped DEF Stored
  <1>3. flushed \in Seq(Rows) /\ Len(flushed) = n
    <2>1. flushed \in [1..n -> Rows]
      BY <1>2
    <2>2. flushed \in Seq(Rows)
      BY <1>1, <2>1, SeqDef, ZenonT(40)
    <2>3. 1..Len(flushed) = 1..n /\ Len(flushed) \in Nat
      BY <2>1, <2>2, LenProperties
    <2>4. Len(flushed) = n
      <3> HIDE DEF flushed, n
      <3> QED BY <1>1, <2>3
    <2> QED BY <2>2, <2>4
  <1>4. history' = history \o flushed
    BY DEF FlushPendingMessages
  <1> HIDE DEF flushed, n
  <1>5. Len(history') = Len(history) + Len(flushed)
    BY <1>1, <1>3, <1>4, ConcatProperties
  <1> SUFFICES ASSUME NEW i \in 1..Len(history') PROVE history'[i].sealed
    OBVIOUS
  <1>6. history'[i] = IF i <= Len(history) THEN history[i]
                                           ELSE flushed[i - Len(history)]
    BY <1>1, <1>3, <1>4, <1>5, ConcatProperties
  <1>7. CASE i <= Len(history)
    <2>1. i \in 1..Len(history)
      BY <1>1, <1>7
    <2> QED BY <1>6, <1>7, <2>1 DEF StoredSealed
  <1>8. CASE ~(i <= Len(history))
    <2>1. i - Len(history) \in 1..n
      BY <1>1, <1>3, <1>5, <1>8
    <2> QED BY <1>2, <1>6, <1>8, <2>1
  <1> QED BY <1>7, <1>8

\* No step stores a readable row in an encrypted session.
LEMMA SealedStep ==
    ASSUME Typing, StoredSealed, Next
    PROVE  StoredSealed'
  <1> SUFFICES ASSUME encrypted'
               PROVE  /\ \A i \in 1..Len(history') : history'[i].sealed
                      /\ bundle'.is # "clear"
    BY DEF StoredSealed
  <1>0. encrypted /\ bundle.is # "clear"
    BY DEF StoredSealed, Next, Execute, RejectSeals, ResumeToolResults,
           ApprovePlan, RejectPlan, ResumeDecrypted, ResumeSealed,
           ResumeInject, ResumeBreak, PauseForDecrypt, BuildPrompt, AllDenied,
           PauseForTools, PauseForApproval, FinishCompleted, TurnFails,
           vars, rows
  <1>1. CASE \E S \in SUBSET Refs : FlushPendingMessages /\ ResealRunInput(S)
    <2>1. PICK S \in SUBSET Refs : FlushPendingMessages /\ ResealRunInput(S)
      BY <1>1
    <2> QED BY <1>0, <2>1, FlushSealed, ResealTyped
  <1>2. CASE ResumeToolResults \/ ApprovePlan \/ RejectPlan \/ ResumeSealed
    BY <1>1, <1>2 DEF ResumeToolResults, ApprovePlan, RejectPlan, ResumeSealed
  <1>3. CASE Execute
    BY <1>0, <1>3 DEF Execute, PersistRunInput, StoredSealed
  <1>4. CASE ResumeDecrypted
    BY <1>0, <1>4, ResealTyped DEF ResumeDecrypted, StoredSealed
  <1>5. CASE RejectSeals \/ ResumeInject \/ ResumeBreak \/ PauseForDecrypt
             \/ AllDenied \/ PauseForApproval \/ TurnFails
    BY <1>0, <1>5 DEF RejectSeals, ResumeInject, ResumeBreak, PauseForDecrypt,
          AllDenied, PauseForApproval, TurnFails, vars, rows, StoredSealed
  <1>6. CASE BuildPrompt \/ PauseForTools \/ FinishCompleted
    BY <1>0, <1>6 DEF BuildPrompt, PauseForTools, FinishCompleted,
          AuthorMessage, StoredSealed
  <1> QED BY <1>2, <1>3, <1>4, <1>5, <1>6 DEF Next

\* In an encrypted session the router never holds a readable message or request
\* row, whatever clients send and whatever they forget to seal.
THEOREM OnlySealedIsStored == Spec => []StoredSealed
  <1>1. Init => StoredSealed
    BY DEF Init, StoredSealed
  <1>2. Typing /\ StoredSealed /\ [Next]_vars => StoredSealed'
    <2>1. ASSUME StoredSealed, UNCHANGED vars PROVE StoredSealed'
      BY <2>1 DEF vars, rows, StoredSealed
    <2> QED BY <2>1, SealedStep
  <1> QED BY <1>1, <1>2, TypingInvariant, PTL DEF Spec

-----------------------------------------------------------------------------
(* No turn parses the placeholder of the run input *)

\* Only an encrypted session has a placeholder.
PlaceholderIsEncrypted == bundle.is = "placeholder" => encrypted

\* Whenever a turn reads the stored bundle, the continuation that started it
\* had to seal it.
LEMMA PlaceholderStep ==
    ASSUME Typing, PlaceholderNeverParsed, PlaceholderIsEncrypted, Next
    PROVE  PlaceholderNeverParsed' /\ PlaceholderIsEncrypted'
  <1> USE DEF PlaceholderNeverParsed, PlaceholderIsEncrypted
  <1>1. ASSUME NEW k, NEW S \in SUBSET Refs, Accepts(k, S), ResealRunInput(S)
        PROVE  bundle'.is # "placeholder"
    BY <1>1, ResealTyped DEF Accepts, RequiredSeals
  <1>2. CASE ResumeToolResults \/ ApprovePlan \/ RejectPlan \/ ResumeSealed
             \/ ResumeDecrypted
    BY <1>1, <1>2 DEF ResumeToolResults, ApprovePlan, RejectPlan, ResumeSealed,
                      ResumeDecrypted
  <1>3. CASE Execute
    <2>1. turn'.stored = FALSE
      BY <1>3 DEF Execute, Start
    <2>2. encrypted' = encrypted
          /\ bundle'.is = IF encrypted THEN "placeholder" ELSE "clear"
      BY <1>3 DEF Execute, PersistRunInput
    <2> QED BY <2>1, <2>2
  <1>4. CASE ResumeInject
    BY <1>4 DEF ResumeInject, Start, rows
  <1>5. CASE RejectSeals \/ ResumeBreak \/ PauseForDecrypt \/ PauseForTools
             \/ PauseForApproval \/ FinishCompleted \/ TurnFails
    BY <1>5 DEF RejectSeals, ResumeBreak, PauseForDecrypt, PauseForTools,
          PauseForApproval, FinishCompleted, TurnFails, ToIdle, vars, rows
  <1>6. CASE BuildPrompt \/ AllDenied
    BY <1>6, SameTurn
  <1> QED BY <1>2, <1>3, <1>4, <1>5, <1>6 DEF Next

\* A turn never has to parse the placeholder of a run input that was not sealed
\* yet, whatever seals clients forget.
THEOREM PlaceholderIsReplaced == Spec => []PlaceholderNeverParsed
  <1>1. Init => PlaceholderNeverParsed /\ PlaceholderIsEncrypted
    BY DEF Init, PlaceholderNeverParsed, PlaceholderIsEncrypted
  <1>2. Typing /\ PlaceholderNeverParsed /\ PlaceholderIsEncrypted /\ [Next]_vars
          => PlaceholderNeverParsed' /\ PlaceholderIsEncrypted'
    <2>1. ASSUME PlaceholderNeverParsed, PlaceholderIsEncrypted, UNCHANGED vars
          PROVE  PlaceholderNeverParsed' /\ PlaceholderIsEncrypted'
      BY <2>1 DEF vars, rows, PlaceholderNeverParsed, PlaceholderIsEncrypted
    <2> QED BY <2>1, PlaceholderStep
  <1> QED BY <1>1, <1>2, TypingInvariant, PTL DEF Spec

-----------------------------------------------------------------------------
(* An approved plan ends plan mode *)

\* After the approval neither the stored run input nor a turn is in plan mode.
PlanModeLeft ==
    approved => ~planActive /\ (turn # None => ~turn.planning)

\* No step brings plan mode back after the approval.
LEMMA PlanStep ==
    ASSUME Typing, PlanModeLeft, NoPlanAfterApproval, Next
    PROVE  PlanModeLeft' /\ NoPlanAfterApproval'
  <1> USE DEF PlanModeLeft, NoPlanAfterApproval
  <1>1. CASE Execute
    BY <1>1 DEF Execute
  <1>2. CASE ResumeToolResults \/ ResumeDecrypted
    <2>1. PICK results, opened : Resume("next_turn", results, opened, planActive)
                              \/ Resume("build_prompt", results, opened, planActive)
      BY <1>2 DEF ResumeToolResults, ResumeDecrypted
    <2>2. turn'.planning = planActive
      BY <2>1 DEF Resume
    <2>3. UNCHANGED <<approved, planActive, phase>> /\ phase # "awaiting_approval"
      BY <1>2 DEF ResumeToolResults, ResumeDecrypted, Accepts, checkpoint
    <2> QED BY <2>2, <2>3
  <1>3. CASE ApprovePlan
    <2>1. PICK S \in SUBSET Refs : ApprovePlan!(S)
      BY <1>3 DEF ApprovePlan
    <2>2. turn' \in Turns
      BY <2>1, ResumeTyped DEF Accepts, Typing, RunStored
    <2>3. turn'.planning = FALSE /\ planActive' = FALSE
      BY <2>1 DEF Resume
    <2> QED BY <2>2, <2>3, NoneAssumption
  <1>4. CASE RejectPlan \/ ResumeSealed \/ ResumeBreak \/ TurnFails
    BY <1>4 DEF RejectPlan, ResumeSealed, ResumeBreak, TurnFails, ToIdle, rows
  <1>5. CASE ResumeInject
    <2>1. turn'.planning = planActive
      BY <1>5 DEF ResumeInject, Start
    <2>2. UNCHANGED <<approved, planActive, phase>> /\ turn = None
      BY <1>5 DEF ResumeInject, rows, checkpoint
    <2>3. approved => phase # "awaiting_approval"
      BY <2>2
    <2> QED BY <2>1, <2>2, <2>3
  <1>6. CASE PauseForApproval
    BY <1>6 DEF PauseForApproval, Invoking
  <1>7. CASE PauseForDecrypt \/ PauseForTools \/ FinishCompleted
    BY <1>7 DEF PauseForDecrypt, PauseForTools, FinishCompleted, rows
  <1>8. CASE BuildPrompt \/ AllDenied
    BY <1>8, SameTurn DEF checkpoint
  <1>9. CASE RejectSeals
    BY <1>9 DEF RejectSeals, vars, rows, checkpoint
  <1> QED BY <1>1, <1>2, <1>3, <1>4, <1>5, <1>6, <1>7, <1>8, <1>9 DEF Next

\* Once its plan was approved a run drafts no further plan: not after tool
\* results, a decrypt pause or an injection (clear_plan_active).
THEOREM ApprovalLeavesPlanMode == Spec => []NoPlanAfterApproval
  <1>1. Init => PlanModeLeft /\ NoPlanAfterApproval
    BY DEF Init, PlanModeLeft, NoPlanAfterApproval
  <1>2. Typing /\ PlanModeLeft /\ NoPlanAfterApproval /\ [Next]_vars
          => PlanModeLeft' /\ NoPlanAfterApproval'
    <2>1. ASSUME PlanModeLeft, NoPlanAfterApproval, UNCHANGED vars
          PROVE  PlanModeLeft' /\ NoPlanAfterApproval'
      BY <2>1 DEF vars, rows, checkpoint, PlanModeLeft, NoPlanAfterApproval
    <2> QED BY <2>1, PlanStep
  <1> QED BY <1>1, <1>2, TypingInvariant, PTL DEF Spec

-----------------------------------------------------------------------------
(* Every pause can be answered *)

\* As long as the run input is the placeholder, the turn being served is the one
\* whose pause carries it out.
PlaceholderRides ==
    encrypted /\ turn # None /\ bundle.is = "placeholder" => turn.seals

\* A step without injections keeps the placeholder with the turn that pauses
\* for it, so the pause asks for its seal.
LEMMA AnswerableStep ==
    ASSUME ~Injects, Typing, PlaceholderIsEncrypted, PlaceholderRides,
           PauseAnswerable, Next
    PROVE  PlaceholderRides' /\ PauseAnswerable'
  <1> USE DEF PlaceholderRides, PauseAnswerable
  <1>1. CASE Execute
    <2>1. turn'.seals = encrypted /\ encrypted' = encrypted
      BY <1>1 DEF Execute, Start
    <2>2. phase' = "idle"
      BY <1>1 DEF Execute
    <2> QED BY <2>1, <2>2
  <1>2. CASE ResumeToolResults \/ ApprovePlan \/ ResumeDecrypted
    <2>1. PICK k \in PhaseKinds, S \in SUBSET Refs : Accepts(k, S) /\ ResealRunInput(S)
      BY <1>2 DEF ResumeToolResults, ApprovePlan, ResumeDecrypted, PhaseKinds
    <2>2. bundle'.is # "placeholder"
      BY <2>1, ResealTyped DEF Accepts, RequiredSeals, PlaceholderIsEncrypted
    <2>3. turn' # None
      <3>1. bundle.text \in Texts
        BY <1>2 DEF ResumeToolResults, ApprovePlan, ResumeDecrypted, Accepts,
                    Typing, RunStored
      <3>2. planActive \in BOOLEAN
        BY DEF Typing, TypeOK
      <3>3. Opened \in SUBSET Refs
        BY OpenedTyped DEF Typing
      <3>4. PICK step \in {"next_turn", "build_prompt"}, results \in BOOLEAN,
                 opened \in SUBSET Refs, planning \in BOOLEAN :
                    Resume(step, results, opened, planning)
        BY <1>2, <3>2, <3>3 DEF ResumeToolResults, ApprovePlan, ResumeDecrypted
      <3>5. turn' \in Turns
        BY <3>1, <3>4, ResumeTyped
      <3> QED BY <3>5, NoneAssumption
    <2> QED BY <2>2, <2>3
  <1>3. CASE RejectPlan \/ ResumeSealed \/ ResumeBreak \/ TurnFails
    BY <1>3 DEF RejectPlan, ResumeSealed, ResumeBreak, TurnFails, ToIdle
  <1>4. CASE PauseForDecrypt \/ PauseForTools \/ PauseForApproval
             \/ FinishCompleted
    <2>1. turn' = None /\ turn # None /\ UNCHANGED <<encrypted, bundle>>
      BY <1>4 DEF PauseForDecrypt, PauseForTools, PauseForApproval,
                  FinishCompleted, Recalling, Invoking, rows
    <2>2. encrypted => SealedByRun \subseteq offer'.toEncrypt
      <3>1. CASE PauseForDecrypt
        BY <3>1 DEF PauseForDecrypt
      <3>2. CASE PauseForTools
        BY <3>2 DEF PauseForTools
      <3>3. CASE PauseForApproval
        BY <3>3 DEF PauseForApproval
      <3>4. CASE FinishCompleted
        BY <3>4 DEF FinishCompleted
      <3> QED BY <1>4, <3>1, <3>2, <3>3, <3>4
    <2>3. encrypted => PendingRefs' \subseteq offer'.toEncrypt \cup {"tool_call"}
      BY <1>4, <2>1 DEF PauseForDecrypt, PauseForTools, PauseForApproval,
                  FinishCompleted, PendingRefs
    <2> QED BY <2>1, <2>2, <2>3 DEF RequiredSeals, SealedByRun
  <1>5. CASE BuildPrompt \/ AllDenied
    BY <1>5, SameTurn
  <1>6. CASE RejectSeals
    BY <1>6 DEF RejectSeals, vars, rows, checkpoint, RequiredSeals, PendingRefs
  <1>7. CASE ResumeInject
    BY <1>7 DEF ResumeInject
  <1> QED BY <1>1, <1>2, <1>3, <1>4, <1>5, <1>6, <1>7 DEF Next

\* As long as nobody injects, the response of a pause asks for every seal that
\* validate_required_seals will demand of its answer.
THEOREM PausesCanBeAnswered ==
    ASSUME ~Injects
    PROVE  Spec => []PauseAnswerable
  <1> DEFINE Inv == PlaceholderNeverParsed /\ PlaceholderIsEncrypted
                    /\ PlaceholderRides /\ PauseAnswerable
  <1>1. Init => Inv
    BY DEF Init, PlaceholderNeverParsed, PlaceholderIsEncrypted,
           PlaceholderRides, PauseAnswerable
  <1>2. Typing /\ Inv /\ [Next]_vars => Inv'
    <2>1. ASSUME Inv, UNCHANGED vars PROVE Inv'
      BY <2>1 DEF vars, rows, checkpoint, PlaceholderNeverParsed,
             PlaceholderIsEncrypted, PlaceholderRides, PauseAnswerable,
             RequiredSeals, PendingRefs
    <2> QED BY <2>1, PlaceholderStep, AnswerableStep
  <1>3. Inv => PauseAnswerable
    OBVIOUS
  <1> HIDE DEF Inv
  <1> QED BY <1>1, <1>2, <1>3, TypingInvariant, PTL DEF Spec

-----------------------------------------------------------------------------
(* In a plaintext session inputs and results reach the model *)

\* A plaintext run defers nothing, seals nothing and never waits for a key.
PlainRun ==
    /\ ~encrypted
    /\ pending = <<>> /\ offer.toEncrypt = {}
    /\ bundle.is # "sealed" /\ "sealed" \notin memory
    /\ \A i \in 1..Len(history) : ~history[i].sealed
    /\ phase \notin {"awaiting_decrypt", "awaiting_encrypt"}
    /\ turn # None => turn.deferred = <<>>

\* The turn being served was started from what the client last contributed.
TurnServesAnswer ==
    turn # None =>
        /\ answer.kind = "results" => turn.results
        /\ answer.kind = "input" => turn.input = answer.text

\* A continuation of a plaintext run leaves the rows it finds.
LEMMA PlainHandler ==
    ASSUME Typing, PlainRun, NEW k, NEW S \in SUBSET Refs, Accepts(k, S)
    PROVE  /\ FlushPendingMessages => history' = history
           /\ ResealRunInput(S) => bundle' = bundle
           /\ k \notin {"awaiting_decrypt", "awaiting_encrypt"}
  <1>1. S = {}
    BY DEF Accepts, Seals, PlainRun
  <1>2. ASSUME FlushPendingMessages PROVE history' = history
    <2> DEFINE flushed == [i \in 1..Len(pending) |-> Stored(pending[i], TRUE)]
    <2>1. history \in Seq(Rows)
      BY DEF Typing, TypeOK
    <2>2. Len(pending) = 0
      BY DEF PlainRun
    <2>3. flushed = <<>>
      BY <2>2
    <2>4. history' = history \o <<>>
      BY <1>2, <2>3 DEF FlushPendingMessages
    <2> QED BY <2>1, <2>4, ConcatEmptySeq
  <1>3. ResealRunInput(S) => bundle' = bundle
    BY <1>1 DEF ResealRunInput
  <1> QED BY <1>2, <1>3 DEF Accepts, PlainRun

\* Clear rows do not have to be opened.
LEMMA PlainNeedsNothing == ASSUME PlainRun, turn # None PROVE SealedNeeds(turn) = {}
  BY DEF PlainRun, SealedNeeds

\* A message authored in a plaintext run is stored at once, and in clear.
LEMMA PlainAuthor ==
    ASSUME Typing, PlainRun, turn # None, NEW role \in {"user", "assistant"}
    PROVE  /\ AuthorMessage(turn, role).deferred = <<>>
           /\ \A i \in 1..Len(AuthorMessage(turn, role).history) :
                 ~AuthorMessage(turn, role).history[i].sealed
  <1> DEFINE stored == Stored([role |-> role, text |-> turn.input], FALSE)
             longer == Append(history, stored)
  <1>1. /\ AuthorMessage(turn, role).deferred = turn.deferred
        /\ AuthorMessage(turn, role).history = longer
    BY DEF AuthorMessage, PlainRun
  <1>2. turn \in Turns /\ history \in Seq(Rows)
    BY DEF Typing, TypeOK
  <1>3. stored \in Rows /\ ~stored.sealed
    BY <1>2, StoredTyped DEF Turns, Messages, Stored
  <1> HIDE DEF stored
  <1>4. /\ Len(longer) = Len(history) + 1 /\ Len(history) \in Nat
        /\ \A i \in 1..Len(history) : longer[i] = history[i]
        /\ longer[Len(history) + 1] = stored
    BY <1>2, <1>3, AppendProperties, LenProperties
  <1> HIDE DEF longer
  <1>5. ASSUME NEW i \in 1..Len(longer) PROVE ~longer[i].sealed
    <2>1. i \in 1..Len(history) \/ i = Len(history) + 1
      BY <1>4
    <2> QED BY <1>3, <1>4, <2>1 DEF PlainRun
  <1> QED BY <1>1, <1>5 DEF PlainRun

\* Every step of a plaintext run stores in clear, and starts a turn only for
\* the answer it serves.
LEMMA PlainStep ==
    ASSUME Typing, PlainRun, TurnServesAnswer, Next
    PROVE  PlainRun' /\ TurnServesAnswer'
  <1>1. CASE Execute
    <2>1. PICK planning \in BOOLEAN : Start(texts', encrypted, planning)
      BY <1>1 DEF Execute
    <2>2. turn'.deferred = <<>> /\ turn'.input = texts'
      BY <2>1 DEF Start
    <2>3. answer'.kind = "input" /\ answer'.text = texts'
      BY <1>1 DEF Execute
    <2>4. bundle'.is = "clear"
      BY <1>1 DEF Execute, PersistRunInput, PlainRun
    <2>5. /\ phase' = "idle" /\ pending' = <<>> /\ offer'.toEncrypt = {}
          /\ UNCHANGED <<encrypted, history, memory, traces>>
      BY <1>1 DEF Execute, NoOffer
    <2> QED BY <2>2, <2>3, <2>4, <2>5 DEF PlainRun, TurnServesAnswer
  <1>2. CASE ResumeToolResults
    <2>1. PICK S \in SUBSET Refs : ResumeToolResults!(S)
      BY <1>2 DEF ResumeToolResults
    <2>2. turn'.results = TRUE /\ turn'.deferred = <<>>
      BY <2>1 DEF Resume
    <2>3. history' = history /\ bundle' = bundle
      BY <2>1, PlainHandler
    <2>4. answer'.kind = "results"
      BY <2>1
    <2> QED BY <2>1, <2>2, <2>3, <2>4 DEF PlainRun, TurnServesAnswer, checkpoint
  <1>3. CASE ApprovePlan
    <2>1. PICK S \in SUBSET Refs : ApprovePlan!(S)
      BY <1>3 DEF ApprovePlan
    <2>2. turn'.deferred = <<>>
      BY <2>1 DEF Resume
    <2>3. history' = history /\ bundle' = bundle
      BY <2>1, PlainHandler
    <2>4. answer'.kind = "approval"
      BY <2>1
    <2> QED BY <2>1, <2>2, <2>3, <2>4 DEF PlainRun, TurnServesAnswer, checkpoint
  <1>4. CASE RejectPlan
    <2>1. PICK S \in SUBSET Refs : RejectPlan!(S)
      BY <1>4 DEF RejectPlan
    <2>2. history' = history /\ bundle' = bundle
      BY <2>1, PlainHandler
    <2> QED BY <2>1, <2>2 DEF PlainRun, TurnServesAnswer, ToIdle, NoOffer
  <1>5. CASE ResumeDecrypted \/ ResumeSealed
    BY <1>5, PlainHandler DEF ResumeDecrypted, ResumeSealed
  <1>6. CASE ResumeInject
    <2>1. turn'.deferred = <<>> /\ turn'.input = texts'
      BY <1>6 DEF ResumeInject, Start
    <2>2. answer'.kind = "input" /\ answer'.text = texts'
      BY <1>6 DEF ResumeInject
    <2>3. UNCHANGED <<rows, checkpoint>>
      BY <1>6 DEF ResumeInject
    <2> QED BY <2>1, <2>2, <2>3 DEF PlainRun, TurnServesAnswer, rows, checkpoint
  <1>7. CASE ResumeBreak \/ TurnFails
    BY <1>7 DEF ResumeBreak, TurnFails, ToIdle, NoOffer, PlainRun,
                TurnServesAnswer, rows
  <1>8. CASE PauseForDecrypt
    BY <1>8, PlainNeedsNothing DEF PauseForDecrypt, Recalling
  <1>9. CASE BuildPrompt \/ AllDenied
    <2> DEFINE authored == AuthorMessage(turn, "user")
    <2>1. turn # None /\ turn \in Turns
      BY <1>9, SameTurn
    <2>2. /\ authored.deferred = <<>>
          /\ \A i \in 1..Len(authored.history) : ~authored.history[i].sealed
      BY <2>1, PlainAuthor
    <2>3. history' = history \/ history' = authored.history
      BY <1>9 DEF BuildPrompt, AllDenied
    <2>4. turn'.deferred = <<>>
      BY <1>9, <2>1, <2>2 DEF BuildPrompt, AllDenied, PlainRun, Turns
    <2>5. "sealed" \notin memory'
      BY <1>9 DEF BuildPrompt, AllDenied, MemoryTool, PlainRun
    <2> HIDE DEF authored
    <2>6. PlainRun'
      BY <1>9, <2>2, <2>3, <2>4, <2>5, SameTurn DEF PlainRun, checkpoint
    <2>7. TurnServesAnswer'
      BY <1>9, SameTurn DEF TurnServesAnswer, client
    <2> QED BY <2>6, <2>7
  <1>10. CASE PauseForTools \/ FinishCompleted
    <2> DEFINE authored == AuthorMessage(turn, "assistant")
    <2>1. turn # None
      BY <1>10 DEF PauseForTools, FinishCompleted, Invoking
    <2>2. /\ authored.deferred = <<>>
          /\ \A i \in 1..Len(authored.history) : ~authored.history[i].sealed
      BY <2>1, PlainAuthor
    <2>3. history' = authored.history /\ pending' = authored.deferred
          /\ turn' = None /\ UNCHANGED <<encrypted, bundle>>
      BY <1>10 DEF PauseForTools, FinishCompleted
    <2>4. /\ "sealed" \notin memory' /\ offer'.toEncrypt = {}
          /\ phase' \notin {"awaiting_decrypt", "awaiting_encrypt"}
      BY <1>10 DEF PauseForTools, FinishCompleted, MemoryTool, PlainRun
    <2> HIDE DEF authored
    <2> QED BY <2>2, <2>3, <2>4 DEF PlainRun, TurnServesAnswer
  <1>11. CASE PauseForApproval
    BY <1>11 DEF PauseForApproval, Invoking, MemoryTool, PlainRun,
                 TurnServesAnswer
  <1>12. CASE RejectSeals
    BY <1>12 DEF RejectSeals, PlainRun
  <1> QED BY <1>1, <1>2, <1>3, <1>4, <1>5, <1>6, <1>7, <1>8, <1>9, <1>10,
             <1>11, <1>12 DEF Next

\* No step changes the key of a session.
LEMMA EncryptionFixed ==
    ASSUME Next
    PROVE  encrypted' = encrypted
  <1>1. CASE Execute \/ RejectSeals \/ ResumeInject \/ ResumeBreak \/ TurnFails
    BY <1>1 DEF Execute, RejectSeals, ResumeInject, ResumeBreak, TurnFails, rows,
                checkpoint, vars
  <1>2. CASE ResumeToolResults \/ ApprovePlan \/ RejectPlan
    BY <1>2 DEF ResumeToolResults, ApprovePlan, RejectPlan
  <1>3. CASE ResumeDecrypted \/ ResumeSealed
    BY <1>3 DEF ResumeDecrypted, ResumeSealed
  <1>4. CASE PauseForDecrypt \/ PauseForTools \/ PauseForApproval \/ FinishCompleted
    BY <1>4 DEF PauseForDecrypt, PauseForTools, PauseForApproval, FinishCompleted, rows
  <1>5. CASE BuildPrompt \/ AllDenied
    BY <1>5, Zenon DEF BuildPrompt, AllDenied, rows, checkpoint
  <1> QED BY <1>1, <1>2, <1>3, <1>4, <1>5 DEF Next

\* What holds of plaintext sessions holds throughout.
LEMMA PlainInvariant == Spec => [](encrypted \/ (PlainRun /\ TurnServesAnswer))
  <1> DEFINE Plain == encrypted \/ (PlainRun /\ TurnServesAnswer)
  <1>1. Init => Plain
    BY DEF Init, PlainRun, TurnServesAnswer, NoOffer
  <1>2. Typing /\ Plain /\ [Next]_vars => Plain'
    <2>1. ASSUME Plain, UNCHANGED vars PROVE Plain'
      BY <2>1 DEF vars, rows, checkpoint, client, PlainRun, TurnServesAnswer
    <2>2. ASSUME encrypted, Next PROVE Plain'
      BY <2>2, EncryptionFixed
    <2>3. ASSUME Typing, PlainRun /\ TurnServesAnswer, Next PROVE Plain'
      BY <2>3, PlainStep
    <2> QED BY <2>1, <2>2, <2>3
  <1> QED BY <1>1, <1>2, TypingInvariant, PTL DEF Spec

\* In plaintext sessions the tool results a client returned are in the prompt
\* of the turn they started (the followups of resume_tool_results).
THEOREM ResultsReachTheModel == Spec => []ModelSeesResults
  <1>1. encrypted \/ (PlainRun /\ TurnServesAnswer) => ModelSeesResults
    BY DEF TurnServesAnswer, ModelSeesResults, ResultsAlwaysSeen, Invoking
  <1> QED BY <1>1, PlainInvariant, PTL

\* In plaintext sessions the text of an execute or an inject is the input of
\* the prompt that follows it.
THEOREM InputReachesTheModel == Spec => []ModelSeesInput
  <1>1. encrypted \/ (PlainRun /\ TurnServesAnswer) => ModelSeesInput
    BY DEF TurnServesAnswer, ModelSeesInput, Invoking
  <1> QED BY <1>1, PlainInvariant, PTL

\* The user rows of a plaintext run are of texts that were sent, each recorded
\* once, and a turn that is still to record its input is about a new one.
RecordedOnce ==
    /\ UserMessageOnce
    /\ \A i \in 1..Len(history) :
          history[i].role = "user" => history[i].text <= texts
    /\ turn # None /\ ~turn.recorded =>
          /\ turn.input <= texts
          /\ \A i \in 1..Len(history) :
                history[i].role = "user" => history[i].text # turn.input

\* Storing a reply, or a text that is not among the user rows, keeps them
\* distinct.
LEMMA AuthorOnce ==
    ASSUME Typing, PlainRun, RecordedOnce, turn # None,
           NEW role \in {"user", "assistant"},
           role = "user" => ~turn.recorded,
           history' = AuthorMessage(turn, role).history, texts' = texts
    PROVE  /\ UserMessageOnce'
           /\ \A i \in 1..Len(history') :
                 history'[i].role = "user" => history'[i].text <= texts'
  <1> DEFINE stored == Stored([role |-> role, text |-> turn.input], FALSE)
             n == Len(history)
  <1>1. history' = Append(history, stored)
    BY DEF AuthorMessage, PlainRun
  <1>2. turn \in Turns /\ history \in Seq(Rows)
    BY DEF Typing, TypeOK
  <1>3. stored \in Rows /\ stored.role = role /\ stored.text = turn.input
    BY <1>2, StoredTyped DEF Turns, Messages, Stored
  <1> HIDE DEF stored
  <1>4. /\ Len(history') = n + 1 /\ n \in Nat
        /\ \A i \in 1..n : history'[i] = history[i]
        /\ history'[n + 1] = stored
    BY <1>1, <1>2, <1>3, AppendProperties, LenProperties
  <1> HIDE DEF n
  <1>5. \A i \in 1..Len(history') : i \in 1..n \/ i = n + 1
    BY <1>4
  <1>6. ASSUME NEW i \in 1..n, history[i].role = "user", role = "user"
        PROVE  history[i].text # turn.input
    BY <1>6 DEF RecordedOnce, n
  <1>7. role = "user" => turn.input <= texts
    BY DEF RecordedOnce
  <1>8. UserMessageOnce'
    <2> SUFFICES ASSUME NEW i \in 1..Len(history'), NEW j \in 1..Len(history'),
                        history'[i].role = "user", history'[j].role = "user",
                        history'[i].text = history'[j].text
                 PROVE  i = j
      BY DEF UserMessageOnce
    <2>1. CASE i \in 1..n /\ j \in 1..n
      <3>1. /\ history[i].role = "user" /\ history[j].role = "user"
            /\ history[i].text = history[j].text
        BY <1>4, <2>1
      <3> QED BY <2>1, <3>1 DEF RecordedOnce, UserMessageOnce, n
    <2>2. CASE i \in 1..n /\ j = n + 1
      BY <1>3, <1>4, <1>6, <2>2
    <2>3. CASE i = n + 1 /\ j \in 1..n
      BY <1>3, <1>4, <1>6, <2>3
    <2>4. CASE i = n + 1 /\ j = n + 1
      BY <2>4
    <2> QED BY <1>5, <2>1, <2>2, <2>3, <2>4
  <1>9. ASSUME NEW i \in 1..Len(history'), history'[i].role = "user"
        PROVE  history'[i].text <= texts'
    BY <1>3, <1>4, <1>5, <1>7, <1>9 DEF RecordedOnce, n
  <1> QED BY <1>8, <1>9

\* A new run or an injection is of a text that no row has yet.
LEMMA StartsFresh ==
    ASSUME Typing, RecordedOnce, UNCHANGED history, texts' = texts + 1,
           turn'.input = texts'
    PROVE  RecordedOnce'
  <1>1. texts \in Nat /\ history \in Seq(Rows)
    BY BoundsAssumption DEF Typing, TypeOK
  <1>2. ASSUME NEW i \in 1..Len(history) PROVE history[i].text \in Nat
    <2>1. history[i] \in Rows
      BY <1>1
    <2> QED BY <2>1, BoundsAssumption DEF Rows, Texts
  <1> QED BY <1>1, <1>2 DEF RecordedOnce, UserMessageOnce

\* Only the turn that is to record the user message records it.
LEMMA OnceStep ==
    ASSUME Typing, PlainRun, RecordedOnce, Next
    PROVE  RecordedOnce'
  <1>1. CASE Execute \/ ResumeInject
    <2>1. /\ texts' = texts + 1 /\ UNCHANGED history /\ turn'.input = texts'
      BY <1>1 DEF Execute, ResumeInject, Start, rows
    <2> QED BY <2>1, StartsFresh
  <1>2. CASE ResumeToolResults \/ ApprovePlan \/ RejectPlan
    <2>1. \E k \in PhaseKinds, S \in SUBSET Refs :
             /\ Accepts(k, S) /\ FlushPendingMessages
             /\ turn' = None \/ turn'.recorded
             /\ UNCHANGED texts
      <3> USE DEF PhaseKinds
      <3>1. CASE ResumeToolResults
        <4>1. PICK S \in SUBSET Refs : ResumeToolResults!(S)
          BY <3>1 DEF ResumeToolResults
        <4>2. turn'.recorded
          BY <4>1 DEF Resume
        <4> QED BY <4>1, <4>2
      <3>2. CASE ApprovePlan
        <4>1. PICK S \in SUBSET Refs : ApprovePlan!(S)
          BY <3>2 DEF ApprovePlan
        <4>2. turn'.recorded
          BY <4>1 DEF Resume
        <4> QED BY <4>1, <4>2
      <3>3. CASE RejectPlan
        BY <3>3 DEF RejectPlan, ToIdle, client
      <3> QED BY <1>2, <3>1, <3>2, <3>3
    <2>2. history' = history /\ texts' = texts
          /\ (turn' = None \/ turn'.recorded)
      BY <2>1, PlainHandler
    <2> QED BY <2>2 DEF RecordedOnce, UserMessageOnce
  <1>3. CASE ResumeDecrypted \/ ResumeSealed
    BY <1>3, PlainHandler DEF ResumeDecrypted, ResumeSealed
  <1>4. CASE PauseForDecrypt
    BY <1>4, PlainNeedsNothing DEF PauseForDecrypt, Recalling
  <1>5. CASE \/ ResumeBreak \/ TurnFails \/ RejectSeals \/ PauseForApproval
             \/ AllDenied
    <2>1. UNCHANGED <<history, texts>>
      BY <1>5 DEF ResumeBreak, TurnFails, RejectSeals, PauseForApproval,
                  AllDenied, rows, client, vars
    <2>2. \/ turn' = None \/ turn' = turn
          \/ /\ turn # None /\ turn'.recorded = turn.recorded
             /\ turn'.input = turn.input
      <3>1. CASE AllDenied
        BY <3>1, SameTurn DEF AllDenied, Turns
      <3> QED BY <1>5, <3>1 DEF ResumeBreak, TurnFails, RejectSeals,
                  PauseForApproval, ToIdle, vars
    <2> QED BY <2>1, <2>2 DEF RecordedOnce, UserMessageOnce
  <1>6. CASE BuildPrompt
    <2>1. turn \in Turns /\ turn # None /\ UNCHANGED texts
      BY <1>6, SameTurn DEF client
    <2>2. turn'.recorded
      BY <1>6, <2>1 DEF BuildPrompt, Turns
    <2>3. CASE turn.recorded
      <3>1. UNCHANGED history
        BY <1>6, <2>3 DEF BuildPrompt
      <3> QED BY <2>1, <2>2, <3>1 DEF RecordedOnce, UserMessageOnce
    <2>4. CASE ~turn.recorded
      <3>1. history' = AuthorMessage(turn, "user").history
        BY <1>6, <2>4 DEF BuildPrompt
      <3> QED BY <2>1, <2>2, <2>4, <3>1, AuthorOnce DEF RecordedOnce
    <2> QED BY <2>3, <2>4
  <1>7. CASE PauseForTools \/ FinishCompleted
    <2>1. /\ turn # None /\ turn' = None /\ texts' = texts
          /\ history' = AuthorMessage(turn, "assistant").history
      BY <1>7 DEF PauseForTools, FinishCompleted, Invoking, client
    <2> QED BY <2>1, AuthorOnce DEF RecordedOnce
  <1> QED BY <1>1, <1>2, <1>3, <1>4, <1>5, <1>6, <1>7 DEF Next

\* In a plaintext session a user message is recorded once, however often its
\* turn pauses, fails or is interrupted (run_turn_inner records only when it
\* resumes at BuildPrompt; the continuations that answer a pause do not).
THEOREM PlainUserMessageOnce == Spec => [](encrypted \/ UserMessageOnce)
  <1> DEFINE Once == encrypted \/ RecordedOnce
             Plain == encrypted \/ (PlainRun /\ TurnServesAnswer)
  <1>1. Init => Once
    BY DEF Init, RecordedOnce, UserMessageOnce
  <1>2. Typing /\ Plain /\ Once /\ [Next]_vars => Once'
    <2>1. ASSUME Once, UNCHANGED vars PROVE Once'
      BY <2>1 DEF vars, rows, client, RecordedOnce, UserMessageOnce
    <2> QED BY <2>1, OnceStep, EncryptionFixed
  <1>3. Once => encrypted \/ UserMessageOnce
    BY DEF RecordedOnce
  <1>4. Spec => []Plain
    BY PlainInvariant
  <1> HIDE DEF Once, Plain
  <1> QED BY <1>1, <1>2, <1>3, <1>4, TypingInvariant, PTL DEF Spec

-----------------------------------------------------------------------------
(* Sealing a completed run leaves nothing readable *)

\* The pause of a completed run asks for every row that is stored in clear.
ClearIsOffered ==
    phase = "awaiting_encrypt" =>
        /\ encrypted
        /\ turn = None /\ "clear" \in memory => "memory" \in offer.toEncrypt
        /\ turn = None /\ "clear" \in traces => "trace" \in offer.toEncrypt

\* Only a completed run comes to rest there, and nothing is written until the
\* pause is answered or left.
LEMMA ClearIsOfferedStep ==
    ASSUME Typing, ClearIsOffered, [Next]_vars
    PROVE  ClearIsOffered'
  <1> USE DEF ClearIsOffered
  <1>1. CASE Execute \/ ResumeBreak \/ RejectPlan \/ ResumeSealed \/ TurnFails
             \/ PauseForDecrypt \/ PauseForTools \/ PauseForApproval
    BY <1>1 DEF Execute, ResumeBreak, RejectPlan, ResumeSealed, TurnFails,
       PauseForDecrypt, PauseForTools, PauseForApproval, ToIdle
  <1>2. CASE ResumeToolResults \/ ApprovePlan \/ ResumeDecrypted
    BY <1>2 DEF ResumeToolResults, ApprovePlan, ResumeDecrypted, Accepts,
       checkpoint
  <1>3. CASE ResumeInject
    <2>1. turn' # None
      <3>1. Typing'
        BY <1>3, StepTyping DEF Next
      <3>2. turn'.at = "recall" /\ texts' \in Texts
        BY <1>3, BoundsAssumption DEF ResumeInject, Start, Texts, Typing,
           TypeOK
      <3> QED BY <1>3, <3>2, StartTyped, NoneAssumption DEF ResumeInject,
         Typing, TypeOK
    <2> QED BY <1>3, <2>1 DEF ResumeInject, checkpoint, rows
  <1>4. CASE BuildPrompt \/ AllDenied
    BY <1>4, SameTurn DEF checkpoint
  <1>5. CASE FinishCompleted
    <2>1. phase' = "awaiting_encrypt" => encrypted
      BY <1>5 DEF FinishCompleted
    <2>2. encrypted => LeftInClear \subseteq offer'.toEncrypt
      BY <1>5 DEF FinishCompleted
    <2> QED BY <1>5, <2>1, <2>2 DEF FinishCompleted, LeftInClear
  <1>6. CASE RejectSeals \/ UNCHANGED vars
    BY <1>6 DEF RejectSeals, vars, rows, checkpoint
  <1> QED BY <1>1, <1>2, <1>3, <1>4, <1>5, <1>6 DEF Next

\* A client that forgets neither memory nor traces returns all that is offered.
LEMMA OfferedIsSealed ==
    ASSUME Omissions \cap {"memory", "trace"} = {}, Typing, StoredSealed,
           ClearIsOffered, ResumeSealed
    PROVE  "clear" \notin memory' \cup traces' /\ bundle'.is = "sealed"
  <1>1. PICK S \in SUBSET Refs : ResumeSealed!(S)
    BY DEF ResumeSealed
  <1>2. encrypted /\ turn = None /\ phase = "awaiting_encrypt"
    BY <1>1 DEF Accepts, ClearIsOffered
  <1>3. \A k \in {"memory", "trace"} : k \in offer.toEncrypt => k \in S
    BY <1>1 DEF Accepts, Seals
  <1>4. "clear" \notin memory' /\ "clear" \notin traces'
    BY <1>1, <1>2, <1>3 DEF ClearIsOffered, Reseal
  <1>5. bundle.is \in {"sealed", "placeholder"}
    BY <1>2 DEF Typing, TypeOK, RunStored, Bundles, StoredSealed
  <1>6. bundle.is = "placeholder" => "run_input" \in S
    BY <1>1, <1>2 DEF Accepts, RequiredSeals
  <1>7. bundle'.is = "sealed"
    BY <1>1, <1>5, <1>6, ResealTyped
  <1> QED BY <1>4, <1>7

\* A session whose client forgets no memory and no trace holds no readable row
\* of them once a completed run was sealed, those of broken-off runs included
\* (finish_completed offers all of them, reseal_memory and reseal_traces write
\* what comes back).
THEOREM SealingIsComplete ==
    ASSUME Omissions \cap {"memory", "trace"} = {}
    PROVE  Spec => SealedLeavesNothingClear
  <1> DEFINE Complete ==
        phase = "awaiting_encrypt" /\ Len(history') > Len(history)
          => "clear" \notin memory' \cup traces' /\ bundle'.is = "sealed"
  <1>1. Init => ClearIsOffered
    BY DEF Init, ClearIsOffered
  <1>2. Typing /\ ClearIsOffered /\ [Next]_vars => ClearIsOffered'
    BY ClearIsOfferedStep
  <1>3. ASSUME Typing, StoredSealed, ClearIsOffered, [Next]_vars
        PROVE  [Complete]_vars
    <2>1. CASE ResumeSealed
      BY <1>3, <2>1, OfferedIsSealed
    <2>2. CASE ~(phase = "awaiting_encrypt")
      BY <2>2
    <2>3. CASE history' = history
      <3>1. Len(history) \in Nat
        BY <1>3 DEF Typing, TypeOK
      <3> QED BY <2>3, <3>1
    <2>4. CASE ResumeToolResults \/ ApprovePlan \/ RejectPlan
      BY <2>2, <2>4 DEF ResumeToolResults, ApprovePlan, RejectPlan, Accepts
    <2>5. CASE BuildPrompt \/ PauseForTools \/ FinishCompleted
      BY <1>3, <2>2, <2>3, <2>5 DEF BuildPrompt, PauseForTools,
         FinishCompleted, AuthorMessage, ClearIsOffered
    <2>6. CASE \/ Execute \/ RejectSeals \/ ResumeDecrypted \/ ResumeInject
               \/ ResumeBreak \/ PauseForDecrypt \/ AllDenied
               \/ PauseForApproval \/ TurnFails \/ UNCHANGED vars
      BY <2>3, <2>6 DEF Execute, RejectSeals, ResumeDecrypted, ResumeInject,
         ResumeBreak, PauseForDecrypt, AllDenied, PauseForApproval, TurnFails,
         vars, rows
    <2> QED BY <1>3, <2>1, <2>4, <2>5, <2>6 DEF Next
  <1>4. Typing /\ StoredSealed /\ ClearIsOffered /\ [Next]_vars
          => [Complete]_vars
    BY <1>3
  <1> QED BY <1>1, <1>2, <1>4, TypingInvariant, OnlySealedIsStored, PTL
          DEF Spec, SealedLeavesNothingClear

-----------------------------------------------------------------------------
(* The ledger: its invariant *)

Tasks == {r.task : r \in Routes}
Use == [input : Nat, output : Nat]
Charge == [input : Nat, output : Nat, cost : Nat \cup {Absent}]
Row == [id : Nat, clear : BOOLEAN, turn : TurnIds, kind : Kinds, task : Tasks,
        model : Models, payload : Charge \cup {Absent}]

\* A cost event says what is charged.
Draft == {e \in Row : e.kind = "cost" => e.payload \in Charge}

Decided == [turn : TurnIds, route : Routes]

\* What RouteCarried says of one event.
Interfered(t, ds) ==
    \E d \in DOMAIN ds : /\ ds[d].turn # t
                         /\ \E o \in DOMAIN ds : ds[o].turn = t /\ o < d

Carried(e, ds) ==
    (e.kind \in {"approval", "tool_call"} /\ ~Interfered(e.turn, ds))
      => \E d \in DOMAIN ds : /\ ds[d].turn = e.turn
                              /\ ds[d].route = [task |-> e.task, model |-> e.model]

\* What a turn may have to write.
DueRows(t, ds) == {e \in Draft : e.turn = t /\ Carried(e, ds)}

Kept ==
    /\ events \in Seq(Draft) /\ next \in Nat
    /\ \A i \in DOMAIN events : events[i].id \in 1 .. next
    /\ \A i, j \in DOMAIN events : i < j => events[i].id < events[j].id

Queues ==
    /\ writing = [t \in TurnIds |-> writing[t]]
    /\ \A t \in TurnIds : writing[t] \in Seq(DueRows(t, decisions))

Controls ==
    /\ decisions \in Seq(Decided)
    /\ pc \in [TurnIds -> Stages]
    /\ route \in [TurnIds -> Routes \cup {NoRoute}]
    /\ said \in [TurnIds -> BOOLEAN] /\ plan \in [TurnIds -> BOOLEAN]
    /\ superseded \in [TurnIds -> BOOLEAN]
    /\ returned \in [TurnIds -> Answered \cup {NoAnswer}]
    /\ \A t \in TurnIds : pc[t] = "answered" => returned[t] \in Answered
    /\ sealing \in [TurnIds -> SUBSET (1 .. next)]

Counters ==
    /\ lost \subseteq TurnIds
    /\ fails \in Nat /\ purges \in Nat /\ fails + purges <= MaxExtras
    /\ reads \in 0 .. MaxReads

Shapes == Kept /\ Queues /\ Controls /\ Counters

\* The row under way has drawn its created_at, which no other row has.
Stamped ==
    \A t \in TurnIds : writing[t] # <<>> =>
      /\ writing[t][1].id \in 1 .. next
      /\ writing[t][1].id \notin Ids(events)
      /\ \A u \in TurnIds \ {t} : writing[u] # <<>> => writing[u][1].id # writing[t][1].id

\* A turn that has resolved has its route among the decisions.
Waiting == {"resolved", "invoke", "answered", "planned", "asked", "tools", "approval"}
Routed(t) ==
    pc[t] \in Waiting =>
      /\ route[t] \in Routes
      /\ \E d \in DOMAIN decisions : decisions[d] = [turn |-> t, route |-> route[t]]

\* A turn that completed has one cost event, written or still to write, that
\* says what its last call used; it writes it last.
Done == {"completed", "seal", "done", "ended"}
Queued(t) == {i \in DOMAIN writing[t] : writing[t][i].kind = "cost"}
Says(e, a) == e.payload.input = a.usage.input /\ e.payload.output = a.usage.output

Charged(t) ==
    /\ pc[t] \notin Done => Charges(t) = {} /\ Queued(t) = {}
    /\ pc[t] \in {"seal", "done"} => writing[t] = <<>>
    /\ \A i, j \in Charges(t) : i = j
    /\ Charges(t) # {} => Queued(t) = {}
    /\ \A i \in Charges(t) : Says(events[i], returned[t])
    /\ \A i \in Queued(t) : i = Len(writing[t]) /\ Says(writing[t][i], returned[t])
    /\ (pc[t] \in {"completed", "seal", "done"} /\ t \notin lost /\ purges = 0)
         => Charges(t) \cup Queued(t) # {}

\* Of the events that were there when the reading began, none has an offset
\* before that of the reading without having been read, until a sweep.
ReadSoFar ==
    /\ pages.offset \in Nat
    /\ purges = 0 =>
         /\ pages.seen \in Seq(Nat) /\ pages.begun \subseteq Ids(events)
         /\ pages.offset > 0 =>
              /\ pages.offset <= Len(events)
              /\ \A i \in 1 .. pages.offset :
                   events[i].id \in pages.begun => events[i].id \in Range(pages.seen)
         /\ pages.offset = 0 => pages.begun \subseteq Range(pages.seen)

Booked ==
    /\ Shapes /\ Stamped
    /\ \A t \in TurnIds : Routed(t) /\ Charged(t)
    /\ RouteCarried
    /\ ReadSoFar

-----------------------------------------------------------------------------
(* Rows that are staged *)

\* created_at is none of RouteCarried's business.
LEMMA CarriedAnyTime ==
    ASSUME NEW t \in TurnIds, NEW ds, NEW e \in DueRows(t, ds), NEW d \in Nat
    PROVE  /\ [e EXCEPT !.id = d] \in DueRows(t, ds)
           /\ [e EXCEPT !.id = d].id = d
           /\ [e EXCEPT !.id = d].kind = e.kind
           /\ [e EXCEPT !.id = d].payload = e.payload
  <1> DEFINE x == [e EXCEPT !.id = d]
  <1>1. e \in Row /\ e.turn = t /\ Carried(e, ds) /\ (e.kind = "cost" => e.payload \in Charge)
    BY DEF DueRows, Draft
  <1>2. /\ x \in Row /\ x.id = d /\ x.kind = e.kind /\ x.payload = e.payload
        /\ x.turn = e.turn /\ x.task = e.task /\ x.model = e.model
    BY <1>1 DEF Row
  <1> HIDE DEF x
  <1>3. Carried(x, ds)
    BY <1>1, <1>2 DEF Carried
  <1>4. x \in DueRows(t, ds)
    BY <1>1, <1>2, <1>3 DEF DueRows, Draft
  <1> QED BY <1>2, <1>4 DEF x

LEMMA Staged ==
    ASSUME Queues, next \in Nat, NEW t \in TurnIds, NEW ds, NEW due \in Seq(DueRows(t, ds)),
           Stage(t, due)
    PROVE  /\ next' \in Nat /\ next <= next'
           /\ writing' = [u \in TurnIds |-> writing'[u]]
           /\ writing'[t] \in Seq(DueRows(t, ds)) /\ Len(writing'[t]) = Len(due)
           /\ \A i \in 1 .. Len(due) : /\ writing'[t][i].kind = due[i].kind
                                       /\ writing'[t][i].payload = due[i].payload
           /\ \A u \in TurnIds \ {t} : writing'[u] = writing[u]
           /\ due # <<>> => next' = next + 1 /\ writing'[t][1].id = next'
  <1> DEFINE stamped == [due EXCEPT ![1].id = next + 1]
             w == IF due = <<>> THEN due ELSE stamped
  <1>1. /\ writing' = [writing EXCEPT ![t] = w]
        /\ next' = IF due = <<>> THEN next ELSE next + 1
    BY DEF Stage
  <1>2. /\ writing' = [u \in TurnIds |-> writing'[u]] /\ writing'[t] = w
        /\ \A u \in TurnIds \ {t} : writing'[u] = writing[u]
    <2> HIDE DEF w
    <2> QED BY <1>1 DEF Queues
  <1>3. /\ Len(due) \in Nat /\ DOMAIN due = 1 .. Len(due)
        /\ \A i \in 1 .. Len(due) : due[i] \in DueRows(t, ds)
    BY LenProperties, ElementOfSeq
  <1>4. CASE due = <<>>
    <2>1. Len(due) = 0 /\ w = due
      BY <1>4
    <2>2. next' = next
      BY <1>1, <1>4
    <2> HIDE DEF w
    <2>3. writing'[t] \in Seq(DueRows(t, ds)) /\ Len(writing'[t]) = Len(due)
      BY <1>2, <2>1
    <2>4. 1 .. Len(due) = {}
      BY <2>1
    <2> QED BY <1>2, <1>4, <2>2, <2>3, <2>4
  <1>5. CASE due # <<>>
    <2>1. 1 \in 1 .. Len(due)
      <3>1. Len(due) # 0
        BY <1>5, EmptySeq
      <3> QED BY <1>3, <3>1
    <2> DEFINE first == [due[1] EXCEPT !.id = next + 1]
    <2>2. /\ first \in DueRows(t, ds) /\ first.id = next + 1
          /\ first.kind = due[1].kind /\ first.payload = due[1].payload
      BY <1>3, <2>1, CarriedAnyTime
    <2> HIDE DEF first
    <2>3. w = [i \in 1 .. Len(due) |-> IF i = 1 THEN first ELSE due[i]]
      BY <1>3, <1>5, <2>1 DEF first
    <2> HIDE DEF w
    <2>4. \A i \in 1 .. Len(due) : w[i] \in DueRows(t, ds) /\ w[i] = IF i = 1 THEN first ELSE due[i]
      BY <1>3, <2>2, <2>3
    <2>5. w \in Seq(DueRows(t, ds)) /\ Len(w) = Len(due)
      BY <1>3, <2>2, <2>3
    <2>6. \A i \in 1 .. Len(due) : w[i].kind = due[i].kind /\ w[i].payload = due[i].payload
      BY <2>2, <2>4
    <2>7. w[1].id = next + 1
      BY <2>1, <2>2, <2>4
    <2> QED BY <1>1, <1>2, <1>5, <2>5, <2>6, <2>7
  <1> QED BY <1>4, <1>5

\* The next row's created_at is later than all, and the one under way may
\* have been written.
LEMMA StampedStep ==
    ASSUME Booked, NEW t \in TurnIds, NEW ds, NEW due \in Seq(DueRows(t, ds)), Stage(t, due),
           \A i \in Ids(events') : i \in Ids(events) \/ (writing[t] # <<>> /\ i = writing[t][1].id)
    PROVE  Stamped'
  <1>1. /\ next \in Nat /\ next' \in Nat /\ next <= next'
        /\ \A u \in TurnIds \ {t} : writing'[u] = writing[u]
        /\ due # <<>> => next' = next + 1 /\ writing'[t][1].id = next'
        /\ due = <<>> => writing'[t] = <<>>
    <2>1. Queues /\ next \in Nat
      BY DEF Booked, Shapes, Kept
    <2>2. due = <<>> => writing'[t] = <<>>
      BY <2>1 DEF Stage, Queues
    <2> QED BY <2>1, <2>2, Staged
  <1>2. Stamped /\ \A i \in Ids(events) : i \in 1 .. next
    BY DEF Booked, Shapes, Kept, Ids
  <1>3. \A i \in Ids(events') : i \in 1 .. next
    BY <1>2 DEF Stamped
  <1>4. ASSUME NEW u \in TurnIds, writing'[u] # <<>>
        PROVE  /\ writing'[u][1].id \in 1 .. next'
               /\ writing'[u][1].id \notin Ids(events')
               /\ \A v \in TurnIds \ {u} :
                    writing'[v] # <<>> => writing'[v][1].id # writing'[u][1].id
    <2>1. CASE u = t
      <3>1. next' = next + 1 /\ writing'[u][1].id = next'
        BY <1>1, <1>4, <2>1
      <3>2. \A v \in TurnIds \ {u} : writing'[v] # <<>> => writing'[v][1].id \in 1 .. next
        BY <1>1, <1>2, <2>1 DEF Stamped
      <3>3. writing'[u][1].id \in 1 .. next'
        BY <1>1, <3>1
      <3>4. writing'[u][1].id \notin Ids(events')
        BY <1>1, <1>3, <3>1
      <3>5. \A v \in TurnIds \ {u} :
                    writing'[v] # <<>> => writing'[v][1].id # writing'[u][1].id
        BY <1>1, <3>1, <3>2
      <3> QED BY <3>3, <3>4, <3>5
    <2>2. CASE u # t
      <3>1. writing'[u] = writing[u] /\ writing[u] # <<>> /\ writing[u][1].id \in 1 .. next
        BY <1>1, <1>2, <1>4, <2>2 DEF Stamped
      <3>2. writing'[u][1].id \in 1 .. next'
        BY <1>1, <3>1
      <3>3. writing'[u][1].id \notin Ids(events')
        BY <1>2, <2>2, <3>1 DEF Stamped
      <3>4. ASSUME NEW v \in TurnIds \ {u}, writing'[v] # <<>>
            PROVE  writing'[v][1].id # writing'[u][1].id
        <4>1. CASE v = t
          <5>1. writing'[v][1].id = next + 1
            BY <1>1, <3>4, <4>1
          <5> QED BY <1>1, <3>1, <5>1
        <4>2. CASE v # t
          BY <1>1, <1>2, <3>1, <3>4, <4>2 DEF Stamped
        <4> QED BY <4>1, <4>2
      <3> QED BY <3>2, <3>3, <3>4
    <2> QED BY <2>1, <2>2
  <1> QED BY <1>4 DEF Stamped

-----------------------------------------------------------------------------
(* What steps keep *)

\* Rows that come in between push the ones that were there back, not forward.
LEMMA ReadingKept ==
    ASSUME Booked, Kept', UNCHANGED <<pages, purges>>,
           Len(events) <= Len(events'),
           \A i \in 1 .. Len(events) :
             \/ events'[i].id = events[i].id
             \/ events'[i].id \notin Ids(events)
             \/ i > 1 /\ events'[i].id = events[i - 1].id,
           Ids(events) \subseteq Ids(events')
    PROVE  ReadSoFar'
  <1>1. /\ ReadSoFar /\ Len(events) \in Nat /\ Len(events') \in Nat
        /\ Ids(events)' = Ids(events')
    BY LenProperties DEF Booked, Shapes, Kept, Ids
  <1>2. CASE purges' = 0
    <2>1. /\ pages.offset \in Nat /\ pages.seen \in Seq(Nat) /\ pages.begun \subseteq Ids(events)
          /\ pages.offset = 0 => pages.begun \subseteq Range(pages.seen)
      BY <1>1, <1>2 DEF ReadSoFar
    <2>2. ASSUME pages.offset > 0
          PROVE  /\ pages.offset <= Len(events')
                 /\ \A i \in 1 .. pages.offset :
                      events'[i].id \in pages.begun => events'[i].id \in Range(pages.seen)
      <3>1. /\ pages.offset <= Len(events)
            /\ \A i \in 1 .. pages.offset :
                 events[i].id \in pages.begun => events[i].id \in Range(pages.seen)
        BY <1>1, <1>2, <2>2 DEF ReadSoFar
      <3>2. ASSUME NEW i \in 1 .. pages.offset, events'[i].id \in pages.begun
            PROVE  events'[i].id \in Range(pages.seen)
        <4>1. i \in 1 .. Len(events) /\ (i > 1 => i - 1 \in 1 .. pages.offset)
          BY <1>1, <2>1, <3>1
        <4>2. \/ events'[i].id = events[i].id
              \/ i > 1 /\ events'[i].id = events[i - 1].id
          BY <2>1, <3>2, <4>1
        <4> QED BY <3>1, <3>2, <4>1, <4>2
      <3> QED BY <1>1, <2>1, <3>1, <3>2
    <2> QED BY <1>1, <1>2, <2>1, <2>2 DEF ReadSoFar
  <1>3. CASE purges' # 0
    BY <1>1, <1>3 DEF ReadSoFar
  <1> QED BY <1>2, <1>3

LEMMA CarriedEach == RouteCarried <=> \A i \in DOMAIN events : Carried(events[i], decisions)
  BY DEF RouteCarried, Carried, Interfered

\* A later decision can only interfere.
LEMMA DecisionsGrow ==
    ASSUME NEW ds \in Seq(Decided), NEW x \in Decided, NEW e, Carried(e, ds)
    PROVE  Carried(e, Append(ds, x))
  <1> DEFINE longer == Append(ds, x)
  <1>1. /\ DOMAIN ds = 1 .. Len(ds) /\ DOMAIN longer = 1 .. Len(ds) + 1 /\ Len(ds) \in Nat
        /\ \A i \in 1 .. Len(ds) : longer[i] = ds[i]
    BY LenProperties, AppendProperties
  <1> HIDE DEF longer
  <1>2. Interfered(e.turn, ds) => Interfered(e.turn, longer)
    <2>1. DOMAIN ds \subseteq DOMAIN longer /\ \A i \in DOMAIN ds : longer[i] = ds[i]
      BY <1>1
    <2> QED BY <2>1 DEF Interfered
  <1>3. \A d \in DOMAIN ds : d \in DOMAIN longer /\ longer[d] = ds[d]
    BY <1>1
  <1> QED BY <1>2, <1>3 DEF Carried, longer

\* Events keep what RouteCarried looks at, or carry a route themselves.
LEMMA CarriedKept ==
    ASSUME RouteCarried,
           \A e : Carried(e, decisions) => Carried(e, decisions'),
           \A i \in DOMAIN events' :
             \/ Carried(events'[i], decisions')
             \/ \E j \in DOMAIN events :
                  /\ events'[i].kind = events[j].kind /\ events'[i].turn = events[j].turn
                  /\ events'[i].task = events[j].task /\ events'[i].model = events[j].model
    PROVE  RouteCarried'
  <1>1. ASSUME NEW i \in DOMAIN events'
        PROVE  Carried(events'[i], decisions')
    <2>1. CASE \E j \in DOMAIN events :
                 /\ events'[i].kind = events[j].kind /\ events'[i].turn = events[j].turn
                 /\ events'[i].task = events[j].task /\ events'[i].model = events[j].model
      <3>1. PICK j \in DOMAIN events :
                 /\ events'[i].kind = events[j].kind /\ events'[i].turn = events[j].turn
                 /\ events'[i].task = events[j].task /\ events'[i].model = events[j].model
        BY <2>1
      <3>2. Carried(events[j], decisions')
        BY CarriedEach
      <3> QED BY <3>1, <3>2 DEF Carried
    <2> QED BY <1>1, <2>1
  <1>2. RouteCarried' <=> \A i \in DOMAIN events' : Carried(events'[i], decisions')
    BY DEF RouteCarried, Carried, Interfered
  <1> QED BY <1>1, <1>2

\* A turn whose rows, answer and place stay as they are stays charged.
LEMMA ChargeKept ==
    ASSUME NEW u \in TurnIds, Charged(u), writing'[u] = writing[u],
           Charges(u)' = Charges(u), \A i \in Charges(u) : events'[i].payload = events[i].payload,
           returned'[u] = returned[u], pc'[u] = pc[u],
           u \in lost => u \in lost', purges' = 0 => purges = 0
    PROVE  Charged(u)'
  <1>1. Queued(u)' = Queued(u)
    BY DEF Queued
  <1> HIDE DEF Charges, Queued
  <1> QED BY <1>1 DEF Charged, Says

\* A turn without cost rows that gets none and does not complete.
LEMMA NoCharge ==
    ASSUME NEW u \in TurnIds, Charges(u)' = {}, Queued(u)' = {},
           pc'[u] \notin {"completed", "seal", "done"}
    PROVE  Charged(u)'
  <1> HIDE DEF Charges, Queued
  <1> QED BY DEF Charged

-----------------------------------------------------------------------------
(* What is drafted *)

LEMMA EventTyped ==
    ASSUME NEW t \in TurnIds, NEW kind \in Kinds \ {"cost"}, NEW r \in Routes
    PROVE  LET e == Event(t, kind, r, Absent)
           IN  /\ e \in {d \in Draft : d.turn = t}
               /\ e.kind = kind /\ e.task = r.task /\ e.model = r.model
  BY LedgerAssumption DEF Event, Draft, Row, Tasks, Charge

\* The counts that are recorded are those of the call, whatever it costs.
LEMMA CostTyped ==
    ASSUME NEW t \in TurnIds, route[t] \in Routes, NEW m \in Models, NEW u \in Usages[m]
    PROVE  LET e == CostEvent(t, Priced(ApiUsage(u, m), route[t].model))
           IN  /\ e \in {d \in Draft : d.turn = t}
               /\ e.kind = "cost" /\ u \in Use
               /\ e.payload.input = u.input /\ e.payload.output = u.output
  <1> DEFINE Known == [input : Nat \cup {Absent}, output : Nat \cup {Absent}]
             api == ApiUsage(u, m)
             usage == Priced(api, route[t].model)
             charge == [input |-> IF usage.input = Absent THEN 0 ELSE usage.input,
                        output |-> IF usage.output = Absent THEN 0 ELSE usage.output,
                        cost |-> usage.cost]
  <1>1. /\ u \in Use /\ Rates[m] \in Known /\ Absent \notin Nat
        /\ route[t].model \in Models /\ Rates[route[t].model] \in Known
    BY LedgerAssumption DEF Use
  <1>2. \A n \in Nat : /\ Reported(n) \in Nat \cup {Absent}
                       /\ (IF Reported(n) = Absent THEN 0 ELSE Reported(n)) = n
    BY <1>1 DEF Reported
  <1>3. \A a, b \in Nat \cup {Absent} : Side(a, b) \in Nat \cup {Absent}
    BY <1>1 DEF Side
  <1>4. \A a, b \in Nat \cup {Absent}, rates \in Known : ActualCost(a, b, rates) \in Nat \cup {Absent}
    <2>1. ASSUME NEW a \in Nat \cup {Absent}, NEW b \in Nat \cup {Absent}, NEW rates \in Known
          PROVE  ActualCost(a, b, rates) \in Nat \cup {Absent}
      <3>1. rates.input \in Nat \cup {Absent} /\ rates.output \in Nat \cup {Absent}
        OBVIOUS
      <3>2. Side(a, rates.input) \in Nat \cup {Absent} /\ Side(b, rates.output) \in Nat \cup {Absent}
        BY <1>3, <3>1
      <3> QED BY <1>1, <3>2 DEF ActualCost
    <2> QED BY <2>1
  <1>5. /\ api.input = Reported(u.input) /\ api.output = Reported(u.output)
        /\ api.cost \in Nat \cup {Absent}
        /\ api = [input |-> api.input, output |-> api.output, cost |-> api.cost]
    <2>1. u.input \in Nat /\ u.output \in Nat
      BY <1>1 DEF Use
    <2>2. Reported(u.input) \in Nat \cup {Absent} /\ Reported(u.output) \in Nat \cup {Absent}
      BY <1>2, <2>1
    <2>3. ActualCost(Reported(u.input), Reported(u.output), Rates[m]) \in Nat \cup {Absent}
      BY <1>1, <1>4, <2>2
    <2> QED BY <2>3 DEF ApiUsage
  <1> HIDE DEF api
  <1>6. /\ usage.input = api.input /\ usage.output = api.output
        /\ usage.cost \in Nat \cup {Absent}
    <2> DEFINE rates == Rates[route[t].model]
    <2>1. CASE Absent \in {rates.input, rates.output, api.input, api.output}
      BY <1>5, <2>1 DEF Priced
    <2>2. CASE Absent \notin {rates.input, rates.output, api.input, api.output}
      <3>1. /\ api.input \in Nat /\ api.output \in Nat
            /\ rates.input \in Nat /\ rates.output \in Nat
        BY <1>1, <1>2, <1>5, <2>2 DEF Use
      <3>2. api.input * rates.input + api.output * rates.output \in Nat
        BY <3>1
      <3>3. usage = [api EXCEPT !.cost = api.input * rates.input + api.output * rates.output]
        BY <2>2 DEF Priced
      <3> QED BY <1>5, <3>2, <3>3
    <2> QED BY <2>1, <2>2
  <1> HIDE DEF usage
  <1>7. charge \in Charge /\ charge.input = u.input /\ charge.output = u.output
    <2>1. u.input \in Nat /\ u.output \in Nat
      BY <1>1 DEF Use
    <2>2. /\ (IF usage.input = Absent THEN 0 ELSE usage.input) = u.input
          /\ (IF usage.output = Absent THEN 0 ELSE usage.output) = u.output
      BY <1>2, <1>5, <1>6, <2>1
    <2> QED BY <1>6, <2>1, <2>2 DEF Charge
  <1> HIDE DEF charge
  <1>8. CostEvent(t, usage) = Event(t, "cost", route[t], charge)
    BY DEF CostEvent, charge
  <1>9. /\ Event(t, "cost", route[t], charge) \in {d \in Draft : d.turn = t}
        /\ Event(t, "cost", route[t], charge).kind = "cost"
        /\ Event(t, "cost", route[t], charge).payload = charge
    BY <1>1, <1>7 DEF Event, Draft, Row, Tasks, Kinds
  <1> QED BY <1>1, <1>7, <1>8, <1>9 DEF usage, api

-----------------------------------------------------------------------------
(* The steps *)

\* A step that writes nothing to the trace.
LEMMA QuietStep ==
    ASSUME Booked, NEW t \in TurnIds, pc[t] \notin Done,
           NEW l \in Stages \ Done, pc' = [pc EXCEPT ![t] = l], l \in Waiting => pc[t] \in Waiting,
           Controls',
           UNCHANGED <<events, writing, next, fails, lost, decisions, route, pages, reads, purges>>,
           \A u \in TurnIds \ {t} : returned'[u] = returned[u]
    PROVE  Booked'
  <1>1. Shapes' /\ Stamped'
    BY DEF Booked, Shapes, Kept, Queues, DueRows, Counters, Stamped, Ids
  <1>2. ReadSoFar' /\ RouteCarried'
    BY DEF Booked, ReadSoFar, Ids, RouteCarried
  <1>3. pc \in [TurnIds -> Stages]
    BY DEF Booked, Shapes, Controls
  <1>4. ASSUME NEW u \in TurnIds
        PROVE  Routed(u)' /\ Charged(u)'
    <2>1. Routed(u) /\ Charged(u)
      BY DEF Booked
    <2>2. Charges(u)' = Charges(u) /\ Queued(u)' = Queued(u)
      BY DEF Charges, Queued
    <2>3. Routed(u)'
      BY <1>3, <2>1 DEF Routed
    <2>4. CASE u = t
      <3>1. Charges(u) = {} /\ Queued(u) = {}
        BY <2>1, <2>4 DEF Charged
      <3>2. pc'[u] \notin Done
        BY <1>3, <2>4
      <3> QED BY <2>2, <2>3, <3>1, <3>2, NoCharge DEF Done
    <2>5. CASE u # t
      <3>1. pc'[u] = pc[u] /\ returned'[u] = returned[u]
        BY <1>3, <2>5
      <3> QED BY <2>1, <2>2, <2>3, <3>1, ChargeKept
    <2> QED BY <2>4, <2>5
  <1> QED BY <1>1, <1>2, <1>4 DEF Booked, Shapes

\* A step of a turn that begins to write rows.
LEMMA StageStep ==
    ASSUME Booked, NEW t \in TurnIds, writing[t] = <<>>, pc[t] \notin Done,
           NEW due \in Seq(DueRows(t, decisions')), Stage(t, due),
           NEW l \in Stages, pc' = [pc EXCEPT ![t] = l],
           next' \in Nat => Controls',
           UNCHANGED <<events, fails, lost, pages, reads, purges, returned>>,
           \A e : Carried(e, decisions) => Carried(e, decisions'),
           \A u \in TurnIds : Routed(u)',
           \/ l \notin {"completed", "seal", "done"} /\ \A i \in 1 .. Len(due) : due[i].kind # "cost"
           \/ /\ l = "completed" /\ due # <<>>
              /\ \A i \in 1 .. Len(due) : due[i].kind = "cost" <=> i = Len(due)
              /\ \A i \in 1 .. Len(due) : due[i].kind = "cost" => Says(due[i], returned[t])
    PROVE  Booked'
  <1>1. /\ Kept /\ Queues /\ Counters /\ Stamped /\ pc \in [TurnIds -> Stages]
        /\ next \in Nat
    BY DEF Booked, Shapes, Kept, Controls
  <1>2. /\ next' \in Nat /\ next <= next'
        /\ writing' = [u \in TurnIds |-> writing'[u]]
        /\ writing'[t] \in Seq(DueRows(t, decisions')) /\ Len(writing'[t]) = Len(due)
        /\ \A i \in 1 .. Len(due) : /\ writing'[t][i].kind = due[i].kind
                                    /\ writing'[t][i].payload = due[i].payload
        /\ \A u \in TurnIds \ {t} : writing'[u] = writing[u]
    BY <1>1, Staged
  <1>3. Kept'
    BY <1>1, <1>2 DEF Kept
  <1>4. Queues'
    <2>1. ASSUME NEW u \in TurnIds \ {t}
          PROVE  writing'[u] \in Seq(DueRows(u, decisions'))
      <3>1. DueRows(u, decisions) \subseteq DueRows(u, decisions')
        BY DEF DueRows
      <3> QED BY <1>1, <1>2, <3>1, SeqMonotonic DEF Queues
    <2> QED BY <1>2, <2>1 DEF Queues
  <1>5. Stamped'
    <2>1. Ids(events') = Ids(events)
      BY DEF Ids
    <2> QED BY <2>1, StampedStep
  <1>6. Counters' /\ Controls'
    BY <1>1, <1>2 DEF Counters
  <1>7. RouteCarried'
    BY CarriedKept DEF Booked
  <1>8. ReadSoFar'
    BY DEF Booked, ReadSoFar, Ids
  <1>9. ASSUME NEW u \in TurnIds
        PROVE  Charged(u)'
    <2>1. Charged(u) /\ Charges(u)' = Charges(u)
      BY DEF Booked, Charges
    <2>2. CASE u # t
      BY <1>1, <1>2, <2>1, <2>2, ChargeKept
    <2>3. CASE u = t
      <3>1. Charges(u) = {} /\ pc'[u] = l /\ returned'[u] = returned[u]
        BY <1>1, <2>1, <2>3 DEF Charged
      <3>2. /\ DOMAIN writing'[u] = 1 .. Len(due) /\ Len(due) \in Nat
            /\ due # <<>> => Len(due) \in 1 .. Len(due)
        <4>1. Len(due) \in Nat /\ DOMAIN writing'[u] = 1 .. Len(writing'[u])
          BY <1>2, <2>3, LenProperties
        <4>2. due # <<>> => Len(due) # 0
          BY EmptySeq
        <4> QED BY <1>2, <2>3, <4>1, <4>2
      <3>3. Queued(u)' = {i \in 1 .. Len(due) : due[i].kind = "cost"}
        BY <1>2, <2>3, <3>2 DEF Queued
      <3>4. CASE l \notin {"completed", "seal", "done"} /\ \A i \in 1 .. Len(due) : due[i].kind # "cost"
        BY <2>1, <3>1, <3>3, <3>4, NoCharge
      <3>5. CASE /\ l = "completed" /\ due # <<>>
                 /\ \A i \in 1 .. Len(due) : due[i].kind = "cost" <=> i = Len(due)
                 /\ \A i \in 1 .. Len(due) : due[i].kind = "cost" => Says(due[i], returned[t])
        <4>1. Queued(u)' = {Len(due)}
          BY <3>2, <3>3, <3>5
        <4>2. Says(writing'[u][Len(due)], returned'[u])
          BY <1>2, <2>3, <3>1, <3>2, <3>5 DEF Says
        <4>3. \A i \in Queued(u)' : i = Len(writing'[u]) /\ Says(writing'[u][i], returned'[u])
          BY <1>2, <2>3, <4>1, <4>2
        <4>4. Charges(u)' = {} /\ pc'[u] = "completed"
          BY <2>1, <3>1, <3>5
        <4> HIDE DEF Charges, Queued
        <4> QED BY <4>1, <4>3, <4>4 DEF Charged, Done
      <3> QED BY <3>4, <3>5
    <2> QED BY <2>2, <2>3
  <1> QED BY <1>3, <1>4, <1>5, <1>6, <1>7, <1>8, <1>9 DEF Booked, Shapes

\* What is left of the rows when the first one has been tried.
LEMMA Remaining ==
    ASSUME Booked, NEW t \in TurnIds, writing[t] # <<>>, Stage(t, Tail(writing[t])),
           UNCHANGED <<decisions, pc, route, said, plan, superseded, returned, sealing>>
    PROVE  /\ writing[t][1] \in DueRows(t, decisions) /\ Head(writing[t]) = writing[t][1]
           /\ next' \in Nat /\ next <= next'
           /\ Tail(writing[t]) \in Seq(DueRows(t, decisions))
           /\ Queues' /\ Controls'
           /\ \A u \in TurnIds \ {t} : writing'[u] = writing[u]
           /\ pc[t] \notin {"seal", "done"}
           /\ Queued(t)' = {i \in 1 .. Len(writing[t]) - 1 : i + 1 \in Queued(t)}
           /\ Len(writing'[t]) = Len(writing[t]) - 1 /\ Len(writing[t]) \in Nat
           /\ \A i \in 1 .. Len(writing[t]) - 1 :
                /\ writing'[t][i].kind = writing[t][i + 1].kind
                /\ writing'[t][i].payload = writing[t][i + 1].payload
  <1> DEFINE w == writing[t]
             rest == Tail(w)
             n == Len(w)
  <1>1. /\ Queues /\ Controls /\ next \in Nat /\ w \in Seq(DueRows(t, decisions)) /\ n \in Nat
        /\ DOMAIN w = 1 .. n
    BY LenProperties DEF Booked, Shapes, Kept, Queues
  <1>2. n # 0
    BY <1>1, EmptySeq
  <1>3. /\ Head(w) = w[1] /\ w[1] \in DueRows(t, decisions)
        /\ rest \in Seq(DueRows(t, decisions)) /\ Len(rest) = n - 1
        /\ \A i \in 1 .. n - 1 : rest[i] = w[i + 1]
    BY <1>1, <1>2, HeadTailProperties, ElementOfSeq
  <1> HIDE DEF rest
  <1>3a. Stage(t, rest)
    BY DEF rest
  <1>4. /\ next' \in Nat /\ next <= next'
        /\ writing' = [u \in TurnIds |-> writing'[u]]
        /\ writing'[t] \in Seq(DueRows(t, decisions)) /\ Len(writing'[t]) = Len(rest)
        /\ \A i \in 1 .. Len(rest) : /\ writing'[t][i].kind = rest[i].kind
                                     /\ writing'[t][i].payload = rest[i].payload
        /\ \A u \in TurnIds \ {t} : writing'[u] = writing[u]
    BY <1>1, <1>3, <1>3a, Staged
  <1>5. Queues'
    BY <1>1, <1>4 DEF Queues
  <1>6. Controls'
    <2>1. sealing' \in [TurnIds -> SUBSET (1 .. next')]
      BY <1>1, <1>4 DEF Controls
    <2> QED BY <1>1, <2>1 DEF Controls
  <1>7. pc[t] \notin {"seal", "done"}
    BY DEF Booked, Charged
  <1>8. DOMAIN writing'[t] = 1 .. n - 1
    BY <1>1, <1>2, <1>3, <1>4, LenProperties
  <1>9. \A i \in 1 .. n - 1 : /\ writing'[t][i].kind = w[i + 1].kind
                              /\ writing'[t][i].payload = w[i + 1].payload
    BY <1>3, <1>4
  <1>10. Queued(t)' = {i \in 1 .. n - 1 : i + 1 \in Queued(t)}
    <2>1. \A i \in 1 .. n - 1 : i + 1 \in 1 .. n
      BY <1>1
    <2> QED BY <1>1, <1>8, <1>9, <2>1 DEF Queued
  <1> QED BY <1>1, <1>3, <1>4, <1>5, <1>6, <1>7, <1>9, <1>10 DEF rest

\* What is still to be written stays as it should be.
LEMMA QueueKept ==
    ASSUME Booked, NEW t \in TurnIds, writing[t] # <<>>, Stage(t, Tail(writing[t])),
           UNCHANGED <<decisions, pc, route, said, plan, superseded, returned, sealing>>
    PROVE  /\ \A i \in Queued(t)' : i = Len(writing'[t]) /\ Says(writing'[t][i], returned'[t])
           /\ 1 \in Queued(t) => Queued(t)' = {} /\ Len(writing[t]) = 1
           /\ (1 \notin Queued(t) /\ Queued(t) # {}) => Queued(t)' # {}
           /\ Queued(t) = {} => Queued(t)' = {}
  <1> DEFINE n == Len(writing[t])
  <1>1. /\ Queued(t)' = {i \in 1 .. n - 1 : i + 1 \in Queued(t)} /\ n \in Nat
        /\ Len(writing'[t]) = n - 1
        /\ \A i \in 1 .. n - 1 : /\ writing'[t][i].kind = writing[t][i + 1].kind
                                 /\ writing'[t][i].payload = writing[t][i + 1].payload
    BY Remaining
  <1>2. \A i \in Queued(t) : i = n /\ Says(writing[t][i], returned[t])
    BY DEF Booked, Charged
  <1>3. Queued(t) \subseteq 1 .. n
    BY LenProperties DEF Queued, Booked, Shapes, Queues
  <1> HIDE DEF n
  <1>4. ASSUME NEW i \in Queued(t)'
        PROVE  i = Len(writing'[t]) /\ Says(writing'[t][i], returned'[t])
    <2>1. i \in 1 .. n - 1 /\ i + 1 \in Queued(t)
      BY <1>1
    <2>2. i + 1 = n /\ Says(writing[t][i + 1], returned[t])
      BY <1>2, <2>1
    <2> QED BY <1>1, <2>1, <2>2 DEF Says
  <1>5. 1 \in Queued(t) => Queued(t)' = {} /\ n = 1
    BY <1>1, <1>2
  <1>6. (1 \notin Queued(t) /\ Queued(t) # {}) => Queued(t)' # {}
    <2>1. SUFFICES ASSUME 1 \notin Queued(t), NEW q \in Queued(t)
                   PROVE  Queued(t)' # {}
      OBVIOUS
    <2>2. q \in 1 .. n /\ q # 1
      BY <1>3, <2>1
    <2>3. q - 1 \in 1 .. n - 1 /\ (q - 1) + 1 = q
      BY <1>1, <2>2
    <2>4. q - 1 \in Queued(t)'
      BY <1>1, <2>1, <2>3
    <2> QED BY <2>4
  <1>7. Queued(t) = {} => Queued(t)' = {}
    BY <1>1
  <1> QED BY <1>4, <1>5, <1>6, <1>7 DEF n

LEMMA InsertFailsBooked ==
    ASSUME Booked, NEW t \in TurnIds, InsertFails(t)
    PROVE  Booked'
  <1>0. /\ writing[t] # <<>> /\ Extra /\ fails' = fails + 1
        /\ lost' = LostWith(t, <<Head(writing[t])>>) /\ Stage(t, Tail(writing[t]))
        /\ UNCHANGED <<events, decisions, pc, route, said, plan, superseded, returned, calls, sealing,
                       pages, reads, purges>>
    BY DEF InsertFails, turnVars, readVars
  <1>1. /\ Head(writing[t]) = writing[t][1] /\ next' \in Nat /\ next <= next'
        /\ Tail(writing[t]) \in Seq(DueRows(t, decisions))
        /\ Queues' /\ Controls' /\ pc[t] \notin {"seal", "done"}
        /\ \A u \in TurnIds \ {t} : writing'[u] = writing[u]
    BY <1>0, Remaining
  <1>2. Kept /\ Counters /\ ReadSoFar /\ RouteCarried
    BY DEF Booked, Shapes
  <1>3. lost' = IF writing[t][1].kind = "cost" THEN lost \cup {t} ELSE lost
    <2> DEFINE one == <<Head(writing[t])>>
    <2>1. DOMAIN one = {1} /\ one[1] = Head(writing[t])
      OBVIOUS
    <2>2. lost' = IF \E i \in DOMAIN one : one[i].kind = "cost" THEN lost \cup {t} ELSE lost
      BY <1>0 DEF LostWith
    <2> HIDE DEF one
    <2> QED BY <1>1, <2>1, <2>2
  <1>4. Kept' /\ Counters'
    <2>1. \A i \in DOMAIN events : events[i].id \in 1 .. next'
      BY <1>1, <1>2 DEF Kept
    <2>2. Kept'
      BY <1>0, <1>1, <1>2, <2>1 DEF Kept
    <2>3. fails' \in Nat /\ fails' + purges <= MaxExtras
      BY <1>0, <1>2, LedgerAssumption DEF Counters, Extra
    <2>4. Counters'
      BY <1>0, <1>2, <1>3, <2>3 DEF Counters
    <2> QED BY <2>2, <2>4
  <1>5. Stamped'
    <2>1. Ids(events') = Ids(events)
      BY <1>0 DEF Ids
    <2> QED BY <1>0, <1>1, <2>1, StampedStep
  <1>6. ReadSoFar' /\ RouteCarried'
    BY <1>0, <1>2 DEF ReadSoFar, RouteCarried, Ids
  <1>7. ASSUME NEW u \in TurnIds
        PROVE  Routed(u)' /\ Charged(u)'
    <2>1. Routed(u) /\ Charged(u) /\ Charges(u)' = Charges(u)
      BY <1>0 DEF Booked, Charges
    <2>2. Routed(u)'
      BY <1>0, <2>1 DEF Routed
    <2>3. CASE u # t
      <3>1. Charged(u)'
        BY <1>0, <1>1, <1>3, <2>1, <2>3, ChargeKept
      <3> QED BY <2>2, <3>1
    <2>4. CASE u = t
      <3>1. /\ \A i \in Queued(t)' : i = Len(writing'[t]) /\ Says(writing'[t][i], returned'[t])
            /\ 1 \in Queued(t) => Queued(t)' = {}
            /\ (1 \notin Queued(t) /\ Queued(t) # {}) => Queued(t)' # {}
            /\ Queued(t) = {} => Queued(t)' = {}
        BY <1>0, QueueKept
      <3>2. 1 \in Queued(t) => t \in lost'
        BY <1>3 DEF Queued
      <3>3. \A i \in Charges(t) : events'[i] = events[i]
        BY <1>0
      <3>4. pc'[t] = pc[t] /\ returned'[t] = returned[t] /\ purges' = purges /\ (t \in lost => t \in lost')
        BY <1>0, <1>3
      <3> HIDE DEF Charges, Queued
      <3>5. Charged(t)'
        BY <1>1, <2>1, <2>4, <3>1, <3>2, <3>3, <3>4 DEF Charged
      <3> QED BY <2>2, <2>4, <3>5
    <2> QED BY <2>3, <2>4
  <1> QED BY <1>1, <1>4, <1>5, <1>6, <1>7 DEF Booked, Shapes

\* A row that is inserted behind the k-th one.
LEMMA Inserted ==
    ASSUME Booked, NEW t \in TurnIds, NEW k \in 0 .. Len(events), Insert(t, k)
    PROVE  /\ Len(events) \in Nat /\ DOMAIN events = 1 .. Len(events)
           /\ events' \in Seq(Draft) /\ Len(events') = Len(events) + 1
           /\ DOMAIN events' = 1 .. Len(events) + 1
           /\ \A i \in 1 .. k : events'[i] = events[i] /\ events[i].id < writing[t][1].id
           /\ events'[k + 1] = writing[t][1]
           /\ \A i \in k + 1 .. Len(events) : /\ events'[i + 1] = events[i]
                                              /\ writing[t][1].id < events[i].id
  <1> DEFINE h == writing[t][1]
             n == Len(events)
             front == SubSeq(events, 1, k)
             back == SubSeq(events, k + 1, n)
  <1>1. /\ writing[t] # <<>> /\ Head(writing[t]) = h
        /\ \A i \in DOMAIN events : events[i].id < h.id <=> i <= k
        /\ events' = front \o <<h>> \o back
    <2>1. writing[t] # <<>> /\ Head(writing[t]) = h
      BY HeadTailProperties DEF Insert, Booked, Shapes, Queues
    <2> HIDE DEF h
    <2> QED BY <2>1 DEF Insert
  <1>2. /\ events \in Seq(Draft) /\ n \in Nat /\ DOMAIN events = 1 .. n
        /\ \A i \in 1 .. n : events[i] \in Draft /\ events[i].id \in Nat
    <2>1. \A i \in 1 .. Len(events) : events[i].id \in Nat
      BY LenProperties DEF Booked, Shapes, Kept
    <2> QED BY <2>1, LenProperties, ElementOfSeq DEF Booked, Shapes, Kept
  <1>3. /\ h \in Draft /\ h.id \in Nat /\ h.id \notin Ids(events)
    <2>1. writing[t] \in Seq(DueRows(t, decisions)) /\ Len(writing[t]) \in Nat /\ Len(writing[t]) # 0
      BY <1>1, LenProperties, EmptySeq DEF Booked, Shapes, Queues
    <2>2. h \in DueRows(t, decisions)
      BY <2>1, ElementOfSeq
    <2> QED BY <1>1, <2>2 DEF DueRows, Booked, Stamped
  <1>4. \A i \in k + 1 .. n : h.id < events[i].id
    <2>1. ASSUME NEW i \in k + 1 .. n
          PROVE  h.id < events[i].id
      <3>1. i \in 1 .. n /\ ~(i <= k)
        BY <1>2
      <3>2. events[i].id # h.id /\ ~(events[i].id < h.id)
        BY <1>1, <1>2, <1>3, <3>1 DEF Ids
      <3> QED BY <1>2, <1>3, <3>1, <3>2
    <2> QED BY <2>1
  <1>5. \A i \in 1 .. k : events[i].id < h.id
    BY <1>1, <1>2
  <1> HIDE DEF h, n
  <1>6. /\ front \in Seq(Draft) /\ Len(front) = k /\ \A i \in 1 .. k : front[i] = events[i]
    <2>1. \A i \in 1 .. k : events[i] \in Draft
      BY <1>2 DEF n
    <2>2. /\ front \in Seq(Draft)
          /\ Len(front) = IF 1 <= k THEN k - 1 + 1 ELSE 0
          /\ \A i \in 1 .. k - 1 + 1 : front[i] = events[1 + i - 1]
      BY <1>2, <2>1, SubSeqProperties DEF n
    <2> HIDE DEF front
    <2>3. k - 1 + 1 = k /\ Len(front) = k
      BY <2>2
    <2>4. \A i \in 1 .. k : front[i] = events[i]
      BY <2>2, <2>3
    <2> QED BY <2>2, <2>3, <2>4
  <1>7. /\ back \in Seq(Draft) /\ Len(back) = n - k /\ \A i \in 1 .. n - k : back[i] = events[k + i]
    <2>1. \A i \in k + 1 .. n : events[i] \in Draft
      BY <1>2 DEF n
    <2>2. /\ back \in Seq(Draft)
          /\ Len(back) = IF k + 1 <= n THEN n - (k + 1) + 1 ELSE 0
          /\ \A i \in 1 .. n - (k + 1) + 1 : back[i] = events[(k + 1) + i - 1]
      BY <1>2, <2>1, SubSeqProperties DEF n
    <2>3. k \in 0 .. n
      BY DEF n
    <2> HIDE DEF back
    <2>4. Len(back) = n - k
      BY <1>2, <2>2, <2>3
    <2>5. \A i \in 1 .. n - k : back[i] = events[k + i]
      BY <1>2, <2>2, <2>3
    <2> QED BY <2>2, <2>4, <2>5
  <1> HIDE DEF front, back
  <1> DEFINE fh == front \o <<h>>
             all == fh \o back
  <1>8. /\ fh \in Seq(Draft) /\ Len(fh) = k + 1 /\ fh[k + 1] = h /\ \A i \in 1 .. k : fh[i] = events[i]
    <2>1. /\ <<h>> \in Seq(Draft) /\ Len(<<h>>) = 1 /\ <<h>>[1] = h
      BY <1>3
    <2>2. fh \in Seq(Draft) /\ Len(fh) = Len(front) + 1
          /\ \A i \in 1 .. Len(front) + 1 :
               fh[i] = IF i <= Len(front) THEN front[i] ELSE <<h>>[i - Len(front)]
      BY <1>6, <2>1, ConcatProperties
    <2> HIDE DEF fh
    <2>3. k + 1 \in 1 .. k + 1 /\ ~(k + 1 <= k) /\ (k + 1) - k = 1
      OBVIOUS
    <2> QED BY <1>6, <2>1, <2>2, <2>3
  <1> HIDE DEF fh
  <1>9. k \in 0 .. n
    BY DEF n
  <1>10. /\ all \in Seq(Draft) /\ Len(all) = n + 1
         /\ \A i \in 1 .. k + 1 : all[i] = fh[i]
         /\ \A i \in k + 1 .. n : all[i + 1] = events[i]
    <2>1. all \in Seq(Draft) /\ Len(all) = (k + 1) + (n - k)
          /\ \A i \in 1 .. (k + 1) + (n - k) :
               all[i] = IF i <= k + 1 THEN fh[i] ELSE back[i - (k + 1)]
      <3>1. /\ fh \in Seq(Draft) /\ back \in Seq(Draft)
            /\ Len(fh) = k + 1 /\ Len(back) = n - k
        BY <1>7, <1>8
      <3>2. /\ all \in Seq(Draft) /\ Len(all) = Len(fh) + Len(back)
            /\ \A i \in 1 .. Len(fh) + Len(back) :
                 all[i] = IF i <= Len(fh) THEN fh[i] ELSE back[i - Len(fh)]
        BY <3>1, ConcatProperties
      <3> QED BY <3>1, <3>2
    <2> HIDE DEF all
    <2>2. (k + 1) + (n - k) = n + 1
      BY <1>2, <1>9
    <2>3. \A i \in 1 .. k + 1 : all[i] = fh[i]
      BY <1>2, <1>9, <2>1, <2>2
    <2>4. ASSUME NEW i \in k + 1 .. n
          PROVE  all[i + 1] = events[i]
      <3>1. /\ i + 1 \in 1 .. n + 1 /\ ~(i + 1 <= k + 1) /\ (i + 1) - (k + 1) = i - k
            /\ i - k \in 1 .. n - k /\ k + (i - k) = i
        BY <1>2, <1>9
      <3>2. all[i + 1] = back[i - k]
        BY <2>1, <2>2, <3>1
      <3> QED BY <1>7, <3>1, <3>2
    <2> QED BY <2>1, <2>2, <2>3, <2>4
  <1>11. events' = all
    BY <1>1 DEF fh
  <1>12. DOMAIN events' = 1 .. n + 1
    BY <1>10, <1>11, LenProperties
  <1> HIDE DEF all
  <1>13. \A i \in 1 .. k : i \in 1 .. k + 1
    OBVIOUS
  <1>14. k + 1 \in 1 .. k + 1
    OBVIOUS
  <1> QED BY <1>2, <1>4, <1>5, <1>8, <1>10, <1>11, <1>12, <1>13, <1>14 DEF h, n

LEMMA InsertBooked ==
    ASSUME Booked, NEW t \in TurnIds, NEW k \in 0 .. Len(events), Insert(t, k)
    PROVE  Booked'
  <1> DEFINE h == writing[t][1]
             n == Len(events)
  <1>0. /\ writing[t] # <<>> /\ Stage(t, Tail(writing[t]))
        /\ UNCHANGED <<decisions, pc, route, said, plan, superseded, returned, calls, sealing,
                       pages, reads, lost, fails, purges>>
    BY DEF Insert, turnVars, readVars
  <1>1. /\ Head(writing[t]) = h /\ h \in DueRows(t, decisions) /\ next' \in Nat /\ next <= next'
        /\ Tail(writing[t]) \in Seq(DueRows(t, decisions))
        /\ Queues' /\ Controls' /\ pc[t] \notin {"seal", "done"}
        /\ \A u \in TurnIds \ {t} : writing'[u] = writing[u]
    BY <1>0, Remaining
  <1>2. /\ n \in Nat /\ DOMAIN events = 1 .. n /\ k \in 0 .. n
        /\ events' \in Seq(Draft) /\ Len(events') = n + 1
        /\ DOMAIN events' = 1 .. n + 1
        /\ \A i \in 1 .. k : events'[i] = events[i] /\ events[i].id < h.id
        /\ events'[k + 1] = h
        /\ \A i \in k + 1 .. n : events'[i + 1] = events[i] /\ h.id < events[i].id
    BY Inserted
  <1>3. /\ Kept /\ Counters /\ ReadSoFar /\ RouteCarried /\ next \in Nat
        /\ h.id \in 1 .. next /\ h.id \notin Ids(events)
    BY <1>0 DEF Booked, Shapes, Kept, Stamped
  <1> HIDE DEF n, h
  \* A row comes from the same place, or from the one before, or is the new one.
  <1>4. ASSUME NEW i \in 1 .. n + 1
        PROVE  \/ i \in 1 .. k /\ i \in 1 .. n /\ events'[i] = events[i]
               \/ i = k + 1 /\ events'[i] = h
               \/ i - 1 \in k + 1 .. n /\ i - 1 \in 1 .. n /\ events'[i] = events[i - 1]
    <2>1. CASE i <= k
      BY <1>2, <2>1
    <2>2. CASE i = k + 1
      BY <1>2, <2>2
    <2>3. CASE i > k + 1
      <3>1. i - 1 \in k + 1 .. n /\ i - 1 \in 1 .. n /\ (i - 1) + 1 = i
        BY <1>2, <2>3
      <3> QED BY <1>2, <3>1
    <2> QED BY <1>2, <2>1, <2>2, <2>3
  <1>5. Kept'
    <2>1. \A i \in 1 .. n : events[i].id \in 1 .. next
      BY <1>2, <1>3 DEF Kept
    <2>2. \A i \in 1 .. n + 1 : events'[i].id \in 1 .. next
      BY <1>3, <1>4, <2>1
    <2>3. \A i \in 1 .. n + 1 : events'[i].id \in 1 .. next'
      BY <1>1, <1>3, <2>2
    <2>4. ASSUME NEW i \in 1 .. n + 1, NEW j \in 1 .. n + 1, i < j
          PROVE  events'[i].id < events'[j].id
      <3>1. \A x, y \in 1 .. n : x < y => events[x].id < events[y].id
        BY <1>2, <1>3 DEF Kept
      <3>2. CASE i \in 1 .. k
        <4>1. i \in 1 .. n /\ events'[i] = events[i] /\ events[i].id < h.id
          BY <1>2, <3>2
        <4>2. CASE j = k + 1
          BY <1>2, <4>1, <4>2
        <4>3. CASE j # k + 1
          BY <1>2, <1>4, <2>4, <3>1, <4>1, <4>3, SMTT(30)
        <4> QED BY <4>2, <4>3
      <3>3. CASE i = k + 1
        <4>1. j - 1 \in k + 1 .. n /\ events'[j] = events[j - 1]
          BY <1>2, <1>4, <2>4, <3>3
        <4> QED BY <1>2, <3>3, <4>1
      <3>4. CASE i > k + 1
        <4>1. /\ i - 1 \in 1 .. n /\ j - 1 \in 1 .. n /\ i - 1 < j - 1
              /\ events'[i] = events[i - 1] /\ events'[j] = events[j - 1]
          BY <1>2, <1>4, <2>4, <3>4
        <4> QED BY <3>1, <4>1
      <3> QED BY <1>2, <3>2, <3>3, <3>4
    <2> QED BY <1>1, <1>2, <2>3, <2>4 DEF Kept
  <1>6. /\ \A i \in Ids(events') : i \in Ids(events) \/ i = h.id
        /\ Ids(events) \subseteq Ids(events')
    <2>1. \A i \in 1 .. n + 1 : events'[i].id \in Ids(events) \cup {h.id}
      BY <1>2, <1>4 DEF Ids
    <2>2. ASSUME NEW i \in 1 .. n
          PROVE  \E j \in 1 .. n + 1 : events'[j] = events[i]
      <3>1. CASE i <= k
        BY <1>2, <3>1
      <3>2. CASE i > k
        <4>1. i \in k + 1 .. n /\ i + 1 \in 1 .. n + 1
          BY <1>2, <3>2
        <4> QED BY <1>2, <4>1
      <3> QED BY <1>2, <3>1, <3>2
    <2>3. Ids(events) \subseteq Ids(events')
      BY <1>2, <2>2 DEF Ids
    <2> QED BY <1>2, <2>1, <2>3 DEF Ids
  <1>7. Stamped'
    BY <1>0, <1>1, <1>6, StampedStep DEF h
  <1>8. Counters'
    BY <1>0, <1>3 DEF Counters
  <1>9. ReadSoFar'
    <2>1. ASSUME NEW i \in 1 .. n
          PROVE  \/ events'[i].id = events[i].id
                 \/ events'[i].id \notin Ids(events)
                 \/ i > 1 /\ events'[i].id = events[i - 1].id
      <3>1. i \in 1 .. n + 1
        BY <1>2
      <3> QED BY <1>2, <1>3, <1>4, <3>1
    <2>2. Len(events) <= Len(events')
      BY <1>2 DEF n
    <2> QED BY <1>0, <1>5, <1>6, <2>1, <2>2, ReadingKept DEF n
  <1>10. RouteCarried'
    <2>1. Carried(h, decisions')
      BY <1>0, <1>1 DEF DueRows
    <2>2. ASSUME NEW i \in DOMAIN events'
          PROVE  \/ Carried(events'[i], decisions')
                 \/ \E j \in DOMAIN events :
                      /\ events'[i].kind = events[j].kind /\ events'[i].turn = events[j].turn
                      /\ events'[i].task = events[j].task /\ events'[i].model = events[j].model
      BY <1>2, <1>4, <2>1
    <2>3. \A e : Carried(e, decisions) => Carried(e, decisions')
      BY <1>0
    <2> QED BY <1>3, <2>2, <2>3, CarriedKept
  <1>11. h.turn = t
    BY <1>1 DEF DueRows
  <1>12. ASSUME NEW u \in TurnIds
         PROVE  Routed(u)' /\ Charged(u)'
    <2>1. Routed(u) /\ Charged(u)
      BY DEF Booked
    <2>2. Routed(u)'
      BY <1>0, <2>1 DEF Routed
    \* The charges move with their rows.
    <2>3. \A i \in Charges(u)' :
            \/ i \in 1 .. k /\ i \in Charges(u) /\ events'[i] = events[i]
            \/ i = k + 1 /\ events'[i] = h /\ u = t /\ h.kind = "cost"
            \/ i - 1 \in k + 1 .. n /\ i - 1 \in Charges(u) /\ events'[i] = events[i - 1]
      <3>1. ASSUME NEW i \in Charges(u)'
            PROVE  \/ i \in 1 .. k /\ i \in Charges(u) /\ events'[i] = events[i]
                   \/ i = k + 1 /\ events'[i] = h /\ u = t /\ h.kind = "cost"
                   \/ i - 1 \in k + 1 .. n /\ i - 1 \in Charges(u) /\ events'[i] = events[i - 1]
        <4>1. i \in 1 .. n + 1 /\ events'[i].kind = "cost" /\ events'[i].turn = u
          BY <1>2 DEF Charges
        <4> QED BY <1>2, <1>4, <1>11, <4>1 DEF Charges
      <3> QED BY <3>1
    <2>4. \A i \in Charges(u) : i \in Charges(u)' \/ i + 1 \in Charges(u)'
      <3>1. ASSUME NEW i \in Charges(u)
            PROVE  i \in Charges(u)' \/ i + 1 \in Charges(u)'
        <4>1. i \in 1 .. n /\ events[i].kind = "cost" /\ events[i].turn = u
          BY <1>2 DEF Charges
        <4>2. CASE i <= k
          BY <1>2, <4>1, <4>2 DEF Charges
        <4>3. CASE i > k
          <5>1. i \in k + 1 .. n /\ i + 1 \in 1 .. n + 1
            BY <1>2, <4>1, <4>3
          <5> QED BY <1>2, <4>1, <5>1 DEF Charges
        <4> QED BY <1>2, <4>1, <4>2, <4>3
      <3> QED BY <3>1
    <2>5. (u = t /\ h.kind = "cost") => 1 \in Queued(t) /\ k + 1 \in Charges(t)'
      <3>1. SUFFICES ASSUME u = t, h.kind = "cost"
                     PROVE  1 \in Queued(t) /\ k + 1 \in Charges(t)'
        OBVIOUS
      <3>2. 1 \in DOMAIN writing[t]
        <4>1. Len(writing[t]) \in Nat /\ Len(writing[t]) # 0 /\ DOMAIN writing[t] = 1 .. Len(writing[t])
          BY <1>0, LenProperties, EmptySeq DEF Booked, Shapes, Queues
        <4> QED BY <4>1
      <3>3. k + 1 \in DOMAIN events'
        BY <1>2
      <3> QED BY <1>2, <1>11, <3>1, <3>2, <3>3 DEF Queued, Charges, h
    <2>6. /\ u = t => /\ \A i \in Queued(t)' : i = Len(writing'[t]) /\ Says(writing'[t][i], returned'[t])
                      /\ 1 \in Queued(t) => Queued(t)' = {}
                      /\ (1 \notin Queued(t) /\ Queued(t) # {}) => Queued(t)' # {}
                      /\ Queued(t) = {} => Queued(t)' = {}
          /\ u # t => Queued(u)' = Queued(u) /\ writing'[u] = writing[u]
      BY <1>0, <1>1, QueueKept DEF Queued
    <2>7. /\ pc'[u] = pc[u] /\ returned'[u] = returned[u] /\ purges' = purges /\ lost' = lost
          /\ u = t => pc[u] \notin {"seal", "done"}
      BY <1>0, <1>1
    <2>8. u = t /\ 1 \in Queued(t) => h.kind = "cost" /\ Says(h, returned[t])
      BY <2>1 DEF Charged, Queued, h
    <2> HIDE DEF Charges, Queued
    <2>9. ASSUME NEW i \in Charges(u)', NEW j \in Charges(u)'
          PROVE  i = j
      <3>1. CASE u = t /\ h.kind = "cost"
        <4>1. Charges(u) = {}
          BY <2>1, <2>5, <3>1 DEF Charged
        <4> QED BY <2>3, <4>1
      <3>2. CASE ~(u = t /\ h.kind = "cost")
        <4>1. \A x, y \in Charges(u) : x = y
          BY <2>1 DEF Charged
        <4>2. \/ i \in 1 .. k /\ i \in Charges(u)
              \/ i - 1 \in k + 1 .. n /\ i - 1 \in Charges(u)
          BY <2>3, <3>2
        <4>3. \/ j \in 1 .. k /\ j \in Charges(u)
              \/ j - 1 \in k + 1 .. n /\ j - 1 \in Charges(u)
          BY <2>3, <3>2
        <4>4. i \in Int /\ j \in Int
          <5>1. i \in 1 .. n + 1 /\ j \in 1 .. n + 1
            BY <1>2 DEF Charges
          <5> QED BY <1>2, <5>1
        <4>5. CASE i \in 1 .. k /\ j \in 1 .. k
          BY <4>1, <4>2, <4>3, <4>5, <1>2
        <4>6. CASE i - 1 \in k + 1 .. n /\ j - 1 \in k + 1 .. n
          <5>1. i - 1 \in Charges(u) /\ j - 1 \in Charges(u)
            BY <1>2, <4>2, <4>3, <4>4, <4>6
          <5> QED BY <4>1, <4>4, <5>1
        <4>7. CASE i \in 1 .. k /\ j - 1 \in k + 1 .. n
          <5>1. i \in Charges(u) /\ j - 1 \in Charges(u)
            BY <1>2, <4>2, <4>3, <4>4, <4>7
          <5> QED BY <1>2, <4>1, <4>7, <5>1
        <4>8. CASE i - 1 \in k + 1 .. n /\ j \in 1 .. k
          <5>1. i - 1 \in Charges(u) /\ j \in Charges(u)
            BY <1>2, <4>2, <4>3, <4>4, <4>8
          <5> QED BY <1>2, <4>1, <4>8, <5>1
        <4> QED BY <4>2, <4>3, <4>5, <4>6, <4>7, <4>8
      <3> QED BY <3>1, <3>2
    <2>10. \A i \in Charges(u)' : Says(events'[i], returned'[u])
      <3>1. \A i \in Charges(u) : Says(events[i], returned[u])
        BY <2>1 DEF Charged
      <3> QED BY <2>3, <2>5, <2>7, <2>8, <3>1
    <2>11. pc'[u] \notin Done => Charges(u)' = {} /\ Queued(u)' = {}
      <3>1. SUFFICES ASSUME pc[u] \notin Done
                     PROVE  Charges(u)' = {} /\ Queued(u)' = {}
        BY <2>7
      <3>2. Charges(u) = {} /\ Queued(u) = {}
        BY <2>1, <3>1 DEF Charged
      <3> QED BY <2>3, <2>5, <2>6, <3>2
    <2>12. pc'[u] \in {"seal", "done"} => writing'[u] = <<>>
      BY <2>1, <2>6, <2>7 DEF Charged
    <2>13. Charges(u)' # {} => Queued(u)' = {}
      <3>1. SUFFICES ASSUME NEW i \in Charges(u)'
                     PROVE  Queued(u)' = {}
        OBVIOUS
      <3>2. Charges(u) # {} \/ (u = t /\ h.kind = "cost")
        BY <2>3, <3>1
      <3> QED BY <2>1, <2>5, <2>6, <3>2 DEF Charged
    <2>14. \A i \in Queued(u)' : i = Len(writing'[u]) /\ Says(writing'[u][i], returned'[u])
      BY <2>1, <2>6, <2>7 DEF Charged
    <2>15. (pc'[u] \in {"completed", "seal", "done"} /\ u \notin lost' /\ purges' = 0)
             => Charges(u)' \cup Queued(u)' # {}
      <3>1. SUFFICES ASSUME pc[u] \in {"completed", "seal", "done"}, u \notin lost, purges = 0
                     PROVE  Charges(u)' \cup Queued(u)' # {}
        BY <2>7
      <3>2. Charges(u) # {} \/ Queued(u) # {}
        BY <2>1, <3>1 DEF Charged
      <3> QED BY <2>4, <2>5, <2>6, <2>8, <3>2
    <2>16. Charged(u)'
      BY <2>9, <2>10, <2>11, <2>12, <2>13, <2>14, <2>15 DEF Charged
    <2> QED BY <2>2, <2>16
  <1> QED BY <1>1, <1>5, <1>7, <1>8, <1>9, <1>10, <1>12 DEF Booked, Shapes

LEMMA QuietTurnBooked ==
    ASSUME Booked, NEW t \in TurnIds,
           \/ Begin(t) \/ PlanReady(t)
           \/ \E m \in Models : \E u \in Usages[m] : \E l \in Stages : Returns(t, m, u, l)
    PROVE  Booked'
  <1>0. Controls /\ pc \in [TurnIds -> Stages]
    BY DEF Booked, Shapes, Controls
  <1>1. CASE Begin(t)
    <2>1. /\ pc[t] = "new" /\ pc' = [pc EXCEPT ![t] = "resolve"]
          /\ superseded' = [u \in TurnIds |-> superseded[u] \/ pc[u] \notin {"new", "done", "ended"}]
          /\ UNCHANGED <<events, writing, next, fails, lost, decisions, route, said, plan, returned,
                         calls, sealing, pages, reads, purges>>
      BY <1>1 DEF Begin, Goto, NoRecord, unwritten, readVars
    <2>2. "resolve" \in Stages \ Done /\ "resolve" \notin Waiting /\ "new" \notin Done
      BY DEF Stages, Served, Done, Waiting
    <2>3. superseded' \in [TurnIds -> BOOLEAN]
      BY <1>0, <2>1 DEF Controls
    <2>4. Controls'
      BY <1>0, <2>1, <2>2, <2>3 DEF Controls
    <2> QED BY <2>1, <2>2, <2>4, QuietStep
  <1>2. CASE PlanReady(t)
    <2>1. /\ pc[t] = "planned" /\ pc' = [pc EXCEPT ![t] = "approval"]
          /\ UNCHANGED <<events, writing, next, fails, lost, decisions, route, said, plan, superseded,
                         returned, calls, sealing, pages, reads, purges>>
      BY <1>2 DEF PlanReady, At, Goto, NoRecord, unwritten, readVars
    <2>2. "approval" \in Stages \ Done /\ "planned" \in Waiting /\ "planned" \notin Done
      BY DEF Stages, Served, Done, Waiting
    <2>3. Controls'
      BY <1>0, <2>1, <2>2 DEF Controls
    <2> QED BY <2>1, <2>2, <2>3, QuietStep
  <1>3. ASSUME NEW m \in Models, NEW u \in Usages[m], NEW l \in Stages, Returns(t, m, u, l)
        PROVE  Booked'
    <2>1. /\ pc[t] = "invoke" /\ pc' = [pc EXCEPT ![t] = l]
          /\ l \in {"planned", "answered", "asked", "resolve"}
          /\ returned' = [returned EXCEPT ![t] = [model |-> m, usage |-> u]]
          /\ UNCHANGED <<events, writing, next, fails, lost, decisions, route, said, plan, superseded,
                         sealing, pages, reads, purges>>
      BY <1>3 DEF Returns, Outcomes, At, Goto, NoRecord, unwritten, readVars
    <2>2. l \in Stages \ Done /\ "invoke" \in Waiting /\ "invoke" \notin Done
      BY <2>1 DEF Done, Waiting
    <2>3. returned' \in [TurnIds -> Answered \cup {NoAnswer}] /\ returned'[t] \in Answered
      <3>1. [model |-> m, usage |-> u] \in Answered
        BY DEF Answered
      <3> QED BY <1>0, <2>1, <3>1 DEF Controls
    <2>4. \A v \in TurnIds \ {t} : returned'[v] = returned[v]
      BY <1>0, <2>1 DEF Controls
    <2>5. Controls'
      BY <1>0, <2>1, <2>2, <2>3, <2>4 DEF Controls
    <2> QED BY <2>1, <2>2, <2>4, <2>5, QuietStep
  <1> QED BY <1>1, <1>2, <1>3

\* What a turn writes of its own, besides costs.
LEMMA NoteTyped ==
    ASSUME NEW t \in TurnIds, NEW kind \in Kinds \ {"cost"}, NEW r \in Routes, NEW ds,
           \/ kind \in {"resolution", "message"}
           \/ Interfered(t, ds)
           \/ \E d \in DOMAIN ds : ds[d] = [turn |-> t, route |-> r]
    PROVE  Event(t, kind, r, Absent) \in {e \in DueRows(t, ds) : e.kind # "cost"}
  <1> DEFINE e == Event(t, kind, r, Absent)
  <1>1. /\ e \in Draft /\ e.turn = t /\ e.kind = kind /\ e.task = r.task /\ e.model = r.model
        /\ r = [task |-> r.task, model |-> r.model]
    BY EventTyped, LedgerAssumption
  <1> HIDE DEF e
  <1>2. Carried(e, ds)
    BY <1>1 DEF Carried
  <1> QED BY <1>1, <1>2 DEF DueRows, e

\* The latest decision of the session, for a turn that has one.
LEMMA Continued ==
    ASSUME Booked, NEW t \in TurnIds, pc[t] \in Waiting
    PROVE  /\ ContinuationContext \in Routes
           /\ \/ Interfered(t, decisions)
              \/ \E d \in DOMAIN decisions :
                   decisions[d] = [turn |-> t, route |-> ContinuationContext]
  <1> DEFINE n == Len(decisions)
  <1>1. /\ decisions \in Seq(Decided) /\ n \in Nat /\ DOMAIN decisions = 1 .. n
    BY LenProperties DEF Booked, Shapes, Controls
  <1>2. PICK d \in DOMAIN decisions : decisions[d] = [turn |-> t, route |-> route[t]]
    BY DEF Booked, Routed, Waiting
  <1>3. n \in DOMAIN decisions /\ d <= n /\ decisions[n] \in Decided
    BY <1>1, ElementOfSeq
  <1>4. ContinuationContext = decisions[n].route
    BY DEF ContinuationContext, Last
  <1>5. ContinuationContext \in Routes
    BY <1>3, <1>4 DEF Decided
  <1>6. CASE decisions[n].turn = t
    <2>1. decisions[n] = [turn |-> t, route |-> ContinuationContext]
      BY <1>3, <1>4, <1>6 DEF Decided
    <2> QED BY <1>3, <1>5, <2>1
  <1>7. CASE decisions[n].turn # t
    <2>1. decisions[d].turn = t /\ d # n
      BY <1>2, <1>7
    <2>2. d < n
      BY <1>1, <1>3, <2>1
    <2>3. Interfered(t, decisions)
      BY <1>3, <1>7, <2>1, <2>2 DEF Interfered
    <2> QED BY <1>5, <2>3
  <1> QED BY <1>6, <1>7

\* A turn that writes notes and goes on, waits or ends.
LEMMA NotesBooked ==
    ASSUME Booked, NEW t \in TurnIds, writing[t] = <<>>,
           NEW due \in Seq({e \in DueRows(t, decisions) : e.kind # "cost"}), Stage(t, due),
           pc[t] \in Waiting, NEW l \in Stages \ {"answered", "completed", "seal", "done"},
           pc' = [pc EXCEPT ![t] = l],
           said' \in [TurnIds -> BOOLEAN], plan' \in [TurnIds -> BOOLEAN],
           UNCHANGED <<decisions, route, superseded, returned, sealing,
                       events, lost, fails, purges, pages, reads>>
    PROVE  Booked'
  <1> DEFINE Notes == {e \in DueRows(t, decisions) : e.kind # "cost"}
  <1>1. due \in Seq(DueRows(t, decisions')) /\ \A i \in 1 .. Len(due) : due[i].kind # "cost"
    <2>1. Notes \subseteq DueRows(t, decisions') /\ due \in Seq(Notes)
      OBVIOUS
    <2>2. \A e \in Notes : e.kind # "cost"
      OBVIOUS
    <2> HIDE DEF Notes
    <2> QED BY <2>1, <2>2, SeqMonotonic, ElementOfSeq
  <1>2. pc[t] \notin Done
    BY DEF Waiting, Done
  <1>3. Controls /\ next \in Nat /\ Queues
    BY DEF Booked, Shapes, Kept
  <1>4. next <= next'
    BY <1>1, <1>3, Staged
  <1>5. next' \in Nat => Controls'
    <2>1. SUFFICES ASSUME next' \in Nat
                   PROVE  Controls'
      OBVIOUS
    <2>2. sealing' \in [TurnIds -> SUBSET (1 .. next')]
      BY <1>3, <1>4, <2>1 DEF Controls
    <2> QED BY <1>3, <2>2 DEF Controls
  <1>6. \A u \in TurnIds : Routed(u)'
    <2>1. ASSUME NEW u \in TurnIds
          PROVE  Routed(u)'
      <3>1. pc'[u] \in Waiting => pc[u] \in Waiting
        BY <1>3 DEF Controls
      <3>2. Routed(u)
        BY DEF Booked
      <3> QED BY <3>1, <3>2 DEF Routed
    <2> QED BY <2>1
  <1> QED BY <1>1, <1>2, <1>5, <1>6, StageStep

LEMMA ResolveBooked ==
    ASSUME Booked, NEW t \in TurnIds, NEW r \in Routes, Resolve(t, r)
    PROVE  Booked'
  <1> DEFINE x == [turn |-> t, route |-> r]
             due == RecordResolution(t, r)
  <1>0. /\ pc[t] = "resolve" /\ writing[t] = <<>> /\ route' = [route EXCEPT ![t] = r]
        /\ decisions' = Append(decisions, x)
        /\ Stage(t, due) /\ pc' = [pc EXCEPT ![t] = "resolved"]
        /\ UNCHANGED <<said, plan, superseded, returned, sealing, events, lost, fails, purges,
                       pages, reads>>
    BY DEF Resolve, At, Goto, unwritten, readVars
  <1>1. /\ x \in Decided /\ decisions \in Seq(Decided)
        /\ Append(decisions, x) \in Seq(Decided)
        /\ Len(decisions) \in Nat /\ Len(decisions') = Len(decisions) + 1
        /\ DOMAIN decisions = 1 .. Len(decisions) /\ DOMAIN decisions' = 1 .. Len(decisions')
        /\ decisions'[Len(decisions) + 1] = x
        /\ \A i \in 1 .. Len(decisions) : decisions'[i] = decisions[i]
    BY <1>0, AppendProperties, LenProperties DEF Decided, Booked, Shapes, Controls
  <1> HIDE DEF x
  <1>2. /\ due \in Seq(DueRows(t, decisions')) /\ Len(due) = 1 /\ due[1].kind # "cost"
    <2> DEFINE e == Event(t, "resolution", r, Absent)
    <2>1. e \in DueRows(t, decisions') /\ e.kind # "cost"
      BY NoteTyped DEF Kinds
    <2>2. due = <<e>>
      BY DEF RecordResolution
    <2> HIDE DEF e
    <2> QED BY <2>1, <2>2
  <1> HIDE DEF due
  <1>3. \A e : Carried(e, decisions) => Carried(e, decisions')
    BY <1>0, <1>1, DecisionsGrow
  <1>4. Controls /\ next \in Nat /\ Queues
    BY DEF Booked, Shapes, Kept
  <1>5. \A u \in TurnIds : Routed(u)'
    <2>1. ASSUME NEW u \in TurnIds
          PROVE  Routed(u)'
      <3>1. CASE u = t
        <4>1. route'[u] = r
          BY <1>0, <1>4, <3>1 DEF Controls
        <4>2. Len(decisions) + 1 \in DOMAIN decisions'
          BY <1>1
        <4>3. decisions'[Len(decisions) + 1] = [turn |-> u, route |-> route'[u]]
          BY <1>1, <3>1, <4>1 DEF x
        <4> QED BY <4>1, <4>2, <4>3 DEF Routed
      <3>2. CASE u # t
        <4>1. pc'[u] = pc[u] /\ route'[u] = route[u]
          BY <1>0, <1>4, <3>2 DEF Controls
        <4>2. Routed(u)
          BY DEF Booked
        <4>3. \A d \in DOMAIN decisions : d \in DOMAIN decisions' /\ decisions'[d] = decisions[d]
          BY <1>1
        <4> QED BY <4>1, <4>2, <4>3 DEF Routed
      <3> QED BY <3>1, <3>2
    <2> QED BY <2>1
  <1>6. next <= next'
    BY <1>0, <1>2, <1>4, Staged
  <1>7. next' \in Nat => Controls'
    <2>1. SUFFICES ASSUME next' \in Nat
                   PROVE  Controls'
      OBVIOUS
    <2>2. sealing' \in [TurnIds -> SUBSET (1 .. next')]
      BY <1>0, <1>4, <1>6, <2>1 DEF Controls
    <2>3. /\ route' \in [TurnIds -> Routes \cup {NoRoute}] /\ pc' \in [TurnIds -> Stages]
          /\ \A u \in TurnIds : pc'[u] = "answered" => pc[u] = "answered"
          /\ decisions' \in Seq(Decided)
      BY <1>0, <1>1, <1>4 DEF Controls, Stages, Served
    <2> QED BY <1>0, <1>4, <2>2, <2>3 DEF Controls
  <1>8. pc[t] \notin Done /\ "resolved" \in Stages \ {"completed", "seal", "done"}
    BY <1>0 DEF Done, Stages, Served
  <1>9. \A i \in 1 .. Len(due) : due[i].kind # "cost"
    BY <1>2
  <1> QED BY <1>0, <1>2, <1>3, <1>5, <1>7, <1>8, <1>9, StageStep

LEMMA NotingBooked ==
    ASSUME Booked, NEW t \in TurnIds,
           \/ UserMessage(t) \/ AsksForTools(t)
           \/ \E b \in BOOLEAN : ToolResults(t, b) \/ Approval(t, b)
    PROVE  Booked'
  <1> DEFINE Notes == {e \in DueRows(t, decisions) : e.kind # "cost"}
  <1>0. said \in [TurnIds -> BOOLEAN] /\ plan \in [TurnIds -> BOOLEAN]
    BY DEF Booked, Shapes, Controls
  <1>1. CASE UserMessage(t)
    <2> DEFINE due == RecordUser(t)
    <2>1. /\ pc[t] = "resolved" /\ writing[t] = <<>> /\ Stage(t, due)
          /\ said' = [said EXCEPT ![t] = TRUE] /\ pc' = [pc EXCEPT ![t] = "invoke"]
          /\ UNCHANGED <<decisions, route, plan, superseded, returned, sealing, events, lost, fails,
                         purges, pages, reads>>
      BY <1>1 DEF UserMessage, At, Goto, unwritten, readVars
    <2>2. pc[t] \in Waiting /\ route[t] \in Routes
      BY <2>1 DEF Booked, Routed, Waiting
    <2>3. Event(t, "message", route[t], Absent) \in Notes
      BY <2>2, NoteTyped DEF Kinds
    <2> HIDE DEF Notes
    <2>4. due \in Seq(Notes)
      BY <2>3 DEF RecordUser
    <2>5. /\ said' \in [TurnIds -> BOOLEAN] /\ plan' \in [TurnIds -> BOOLEAN]
          /\ "invoke" \in Stages \ {"answered", "completed", "seal", "done"}
      BY <1>0, <2>1 DEF Stages, Served
    <2> HIDE DEF due
    <2> QED BY <2>1, <2>2, <2>4, <2>5, NotesBooked DEF Notes
  <1>2. CASE AsksForTools(t)
    <2> DEFINE due == RequestEvents(t)
    <2>1. /\ pc[t] = "asked" /\ writing[t] = <<>> /\ Stage(t, due)
          /\ pc' = [pc EXCEPT ![t] = "tools"]
          /\ UNCHANGED <<decisions, route, said, plan, superseded, returned, sealing, events, lost,
                         fails, purges, pages, reads>>
      BY <1>2 DEF AsksForTools, At, Goto, unwritten, readVars
    <2>2. /\ pc[t] \in Waiting /\ route[t] \in Routes
          /\ \E d \in DOMAIN decisions : decisions[d] = [turn |-> t, route |-> route[t]]
      BY <2>1 DEF Booked, Routed, Waiting
    <2>3. /\ Event(t, "message", route[t], Absent) \in Notes
          /\ Event(t, "tool_call", route[t], Absent) \in Notes
      BY <2>2, NoteTyped DEF Kinds
    <2> HIDE DEF Notes
    <2>4. due \in Seq(Notes)
      BY <2>3 DEF RequestEvents
    <2>5. /\ said' \in [TurnIds -> BOOLEAN] /\ plan' \in [TurnIds -> BOOLEAN]
          /\ "tools" \in Stages \ {"answered", "completed", "seal", "done"}
      BY <1>0, <2>1 DEF Stages
    <2> HIDE DEF due
    <2> QED BY <2>1, <2>2, <2>4, <2>5, NotesBooked DEF Notes
  <1>3. ASSUME NEW b \in BOOLEAN, ToolResults(t, b)
        PROVE  Booked'
    <2> DEFINE call == Event(t, "tool_call", ContinuationContext, Absent)
               approval == Event(t, "approval", ContinuationContext, Absent)
               due == <<call>> \o (IF b THEN <<approval>> ELSE <<>>)
    <2>1. /\ pc[t] = "tools" /\ writing[t] = <<>> /\ Stage(t, due)
          /\ pc' = [pc EXCEPT ![t] = "resolve"]
          /\ UNCHANGED <<decisions, route, said, plan, superseded, returned, sealing, events, lost,
                         fails, purges, pages, reads>>
      BY <1>3 DEF ToolResults, At, Goto, unwritten, readVars
    <2>2. pc[t] \in Waiting
      BY <2>1 DEF Waiting
    <2>3. call \in Notes /\ approval \in Notes
      BY <2>2, Continued, NoteTyped DEF Kinds
    <2> HIDE DEF call, approval, Notes
    <2>4. due \in Seq(Notes)
      <3>1. <<call>> \in Seq(Notes) /\ <<approval>> \in Seq(Notes) /\ <<>> \in Seq(Notes)
        BY <2>3
      <3> QED BY <3>1, ConcatProperties
    <2>5. /\ said' \in [TurnIds -> BOOLEAN] /\ plan' \in [TurnIds -> BOOLEAN]
          /\ "resolve" \in Stages \ {"answered", "completed", "seal", "done"}
      BY <1>0, <2>1 DEF Stages, Served
    <2> HIDE DEF due
    <2> QED BY <2>1, <2>2, <2>4, <2>5, NotesBooked DEF Notes
  <1>4. ASSUME NEW b \in BOOLEAN, Approval(t, b)
        PROVE  Booked'
    <2> DEFINE due == <<Event(t, "approval", ContinuationContext, Absent)>>
               l == IF b THEN "resolve" ELSE "ended"
    <2>1. /\ pc[t] = "approval" /\ writing[t] = <<>> /\ Stage(t, due)
          /\ pc' = [pc EXCEPT ![t] = l] /\ plan' = [plan EXCEPT ![t] = ~b]
          /\ UNCHANGED <<decisions, route, said, superseded, returned, sealing, events, lost,
                         fails, purges, pages, reads>>
      BY <1>4 DEF Approval, At, Goto, unwritten, readVars
    <2>2. pc[t] \in Waiting
      BY <2>1 DEF Waiting
    <2>3. Event(t, "approval", ContinuationContext, Absent) \in Notes
      BY <2>2, Continued, NoteTyped DEF Kinds
    <2> HIDE DEF Notes
    <2>4. due \in Seq(Notes)
      BY <2>3
    <2>5. /\ said' \in [TurnIds -> BOOLEAN] /\ plan' \in [TurnIds -> BOOLEAN]
          /\ l \in Stages \ {"answered", "completed", "seal", "done"}
      BY <1>0, <2>1 DEF Stages, Served
    <2> HIDE DEF due, l
    <2> QED BY <2>1, <2>2, <2>4, <2>5, NotesBooked DEF Notes
  <1> QED BY <1>1, <1>2, <1>3, <1>4

\* The turn completes: its one cost event is the last row it writes.
LEMMA CompletesBooked ==
    ASSUME Booked, NEW t \in TurnIds, Completes(t)
    PROVE  Booked'
  <1> DEFINE a == returned[t]
             cost == CostEvent(t, Priced(ApiUsage(a.usage, a.model), route[t].model))
             note == Event(t, "message", route[t], Absent)
             due == <<note, cost>>
  <1>0. /\ pc[t] = "answered" /\ writing[t] = <<>> /\ pc' = [pc EXCEPT ![t] = "completed"]
        /\ Stage(t, due)
        /\ UNCHANGED <<decisions, route, said, plan, superseded, returned, sealing, events, lost,
                       fails, purges, pages, reads>>
    BY DEF Completes, At, Goto, CompletedEvents, unwritten, readVars
  <1>1. route[t] \in Routes /\ pc[t] \notin Done
    BY <1>0 DEF Booked, Routed, Waiting, Done
  <1>2. Controls /\ next \in Nat /\ Queues
    BY DEF Booked, Shapes, Kept
  <1>3. PICK m \in Models : \E u \in Usages[m] : a = [model |-> m, usage |-> u]
    BY <1>0, <1>2 DEF Controls, Answered
  <1>4. PICK u \in Usages[m] : a.usage = u /\ a.model = m
    BY <1>3
  <1> HIDE DEF a
  <1>5. /\ cost \in {d \in Draft : d.turn = t} /\ cost.kind = "cost"
        /\ cost.payload.input = u.input /\ cost.payload.output = u.output
    BY <1>1, <1>4, CostTyped
  <1> HIDE DEF cost
  <1>6. cost \in DueRows(t, decisions) /\ Says(cost, a)
    BY <1>4, <1>5 DEF DueRows, Carried, Says
  <1>7. note \in DueRows(t, decisions) /\ note.kind # "cost"
    BY <1>1, NoteTyped DEF Kinds
  <1> HIDE DEF note
  <1>8. /\ due \in Seq(DueRows(t, decisions')) /\ due # <<>> /\ Len(due) = 2
        /\ due[1] = note /\ due[2] = cost
    BY <1>0, <1>6, <1>7
  <1> HIDE DEF due
  <1>9. /\ \A i \in 1 .. Len(due) : due[i].kind = "cost" <=> i = Len(due)
        /\ \A i \in 1 .. Len(due) : due[i].kind = "cost" => Says(due[i], returned[t])
    BY <1>5, <1>6, <1>7, <1>8 DEF a
  <1>10. next <= next'
    BY <1>0, <1>2, <1>8, Staged
  <1>11. next' \in Nat => Controls'
    <2>1. SUFFICES ASSUME next' \in Nat
                   PROVE  Controls'
      OBVIOUS
    <2>2. sealing' \in [TurnIds -> SUBSET (1 .. next')]
      BY <1>0, <1>2, <1>10, <2>1 DEF Controls
    <2>3. /\ pc' \in [TurnIds -> Stages]
          /\ \A v \in TurnIds : pc'[v] = "answered" => pc[v] = "answered"
      BY <1>0, <1>2 DEF Controls, Stages, Served
    <2> QED BY <1>0, <1>2, <2>2, <2>3 DEF Controls
  <1>12. \A v \in TurnIds : Routed(v)'
    <2>1. ASSUME NEW v \in TurnIds
          PROVE  Routed(v)'
      <3>1. pc'[v] \in Waiting => pc[v] \in Waiting
        BY <1>0, <1>2 DEF Controls, Waiting
      <3>2. Routed(v)
        BY DEF Booked
      <3> QED BY <1>0, <3>1, <3>2 DEF Routed
    <2> QED BY <2>1
  <1>13. "completed" \in Stages /\ \A e : Carried(e, decisions) => Carried(e, decisions')
    BY <1>0 DEF Stages, Served
  <1> QED BY <1>0, <1>1, <1>8, <1>9, <1>11, <1>12, <1>13, StageStep

LEMMA AsksToSealBooked ==
    ASSUME Booked, NEW t \in TurnIds, AsksToSeal(t)
    PROVE  Booked'
  <1> DEFINE l == IF Encrypted THEN "seal" ELSE "done"
             asked == {e.id : e \in {f \in Range(events) : f.clear}}
  <1>0. /\ pc[t] = "completed" /\ writing[t] = <<>> /\ pc' = [pc EXCEPT ![t] = l]
        /\ sealing' = [sealing EXCEPT ![t] = IF Encrypted THEN asked ELSE {}]
        /\ UNCHANGED <<events, writing, next, fails, lost, decisions, route, said, plan, superseded,
                       returned, calls, pages, reads, purges>>
    BY DEF AsksToSeal, At, Goto, NoRecord, unwritten, readVars
  <1>1. Shapes /\ l \in {"seal", "done"}
    BY DEF Booked
  <1>2. asked \subseteq 1 .. next
    BY <1>1 DEF Shapes, Kept, Range
  <1> HIDE DEF l, asked
  <1>3. Controls'
    <2>1. sealing' \in [TurnIds -> SUBSET (1 .. next')]
      BY <1>0, <1>1, <1>2 DEF Shapes, Controls
    <2>2. /\ pc' \in [TurnIds -> Stages]
          /\ \A v \in TurnIds : pc'[v] = "answered" => pc[v] = "answered"
      BY <1>0, <1>1 DEF Shapes, Controls, Stages
    <2> QED BY <1>0, <1>1, <2>1, <2>2 DEF Shapes, Controls
  <1>4. Shapes' /\ Stamped' /\ ReadSoFar' /\ RouteCarried'
    <2>1. Shapes'
      BY <1>0, <1>1, <1>3 DEF Shapes, Kept, Queues, DueRows, Counters
    <2>2. Stamped'
      BY <1>0 DEF Booked, Stamped, Ids
    <2>3. ReadSoFar' /\ RouteCarried'
      BY <1>0 DEF Booked, ReadSoFar, RouteCarried, Ids
    <2> QED BY <2>1, <2>2, <2>3
  <1>5. ASSUME NEW u \in TurnIds
        PROVE  Routed(u)' /\ Charged(u)'
    <2>1. Routed(u) /\ Charged(u) /\ Charges(u)' = Charges(u) /\ Queued(u)' = Queued(u)
      BY <1>0 DEF Booked, Charges, Queued
    <2>2. CASE u = t
      <3>1. pc'[u] = l
        BY <1>0, <1>1, <2>2 DEF Shapes, Controls
      <3>2. Routed(u)'
        BY <1>1, <3>1 DEF Routed, Waiting
      <3> HIDE DEF Charges, Queued
      <3>3. Charged(u)'
        BY <1>0, <1>1, <2>1, <2>2, <3>1 DEF Charged, Done
      <3> QED BY <3>2, <3>3
    <2>3. CASE u # t
      <3>1. pc'[u] = pc[u]
        BY <1>0, <1>1, <2>3 DEF Shapes, Controls
      <3>2. Routed(u)'
        BY <1>0, <2>1, <3>1 DEF Routed
      <3>3. Charged(u)'
        BY <1>0, <2>1, <3>1, ChargeKept
      <3> QED BY <3>2, <3>3
    <2> QED BY <2>2, <2>3
  <1> QED BY <1>4, <1>5 DEF Booked

\* A turn that ends with an error loses the rows it has not written.
LEMMA FailsBooked ==
    ASSUME Booked, NEW t \in TurnIds, Fails(t)
    PROVE  Booked'
  <1>0. /\ Extra /\ fails' = fails + 1 /\ pc' = [pc EXCEPT ![t] = "ended"]
        /\ lost' = LostWith(t, writing[t]) /\ writing' = [writing EXCEPT ![t] = <<>>]
        /\ UNCHANGED <<events, decisions, route, said, plan, superseded, returned, sealing,
                       pages, reads, purges, next>>
    BY DEF Fails, Goto, readVars
  <1>1. /\ Shapes /\ Stamped /\ ReadSoFar /\ RouteCarried /\ pc \in [TurnIds -> Stages]
        /\ writing = [u \in TurnIds |-> writing[u]]
    BY DEF Booked, Shapes, Controls, Queues
  <1>2. writing'[t] = <<>> /\ \A u \in TurnIds \ {t} : writing'[u] = writing[u]
    BY <1>0, <1>1
  <1>3. lost \subseteq lost' /\ lost' \subseteq TurnIds
    BY <1>0, <1>1 DEF LostWith, Shapes, Counters
  <1>4. Counters'
    <2>1. fails' \in Nat /\ fails' + purges <= MaxExtras
      BY <1>0, <1>1, LedgerAssumption DEF Shapes, Counters, Extra
    <2> QED BY <1>0, <1>1, <1>3, <2>1 DEF Shapes, Counters
  <1>5. Kept' /\ ReadSoFar' /\ RouteCarried'
    BY <1>0, <1>1 DEF Shapes, Kept, ReadSoFar, RouteCarried, Ids
  <1>6. Queues'
    <2>1. writing' = [u \in TurnIds |-> writing'[u]]
      BY <1>0, <1>1
    <2>2. ASSUME NEW u \in TurnIds
          PROVE  writing'[u] \in Seq(DueRows(u, decisions))
      <3>1. writing[u] \in Seq(DueRows(u, decisions))
        BY <1>1 DEF Shapes, Queues
      <3>2. <<>> \in Seq(DueRows(u, decisions))
        OBVIOUS
      <3> QED BY <1>2, <3>1, <3>2
    <2> QED BY <1>0, <2>1, <2>2 DEF Queues
  <1>7. Controls'
    <2>1. /\ pc' \in [TurnIds -> Stages]
          /\ \A v \in TurnIds : pc'[v] = "answered" => pc[v] = "answered"
      BY <1>0, <1>1 DEF Stages
    <2> QED BY <1>0, <1>1, <2>1 DEF Shapes, Controls
  <1>8. Stamped'
    <2>1. \A u \in TurnIds : writing'[u] # <<>> => writing'[u] = writing[u] /\ writing[u] # <<>>
      BY <1>2
    <2> QED BY <1>0, <1>1, <2>1 DEF Stamped, Ids
  <1>9. ASSUME NEW u \in TurnIds
        PROVE  Routed(u)' /\ Charged(u)'
    <2>1. Routed(u) /\ Charged(u) /\ Charges(u)' = Charges(u)
      BY <1>0 DEF Booked, Charges
    <2>2. CASE u = t
      <3>1. pc'[u] = "ended"
        BY <1>0, <1>1, <2>2
      <3>2. Routed(u)'
        BY <3>1 DEF Routed, Waiting
      <3>3. Queued(u)' = {}
        BY <1>2, <2>2 DEF Queued
      <3> HIDE DEF Charges, Queued
      <3>4. Charged(u)'
        BY <1>0, <2>1, <3>1, <3>3 DEF Charged, Done
      <3> QED BY <3>2, <3>4
    <2>3. CASE u # t
      <3>1. pc'[u] = pc[u] /\ writing'[u] = writing[u]
        BY <1>0, <1>1, <1>2, <2>3
      <3>2. Routed(u)'
        BY <1>0, <2>1, <3>1 DEF Routed
      <3>3. Charged(u)'
        BY <1>0, <1>3, <2>1, <3>1, ChargeKept
      <3> QED BY <3>2, <3>3
    <2> QED BY <2>2, <2>3
  <1> QED BY <1>4, <1>5, <1>6, <1>7, <1>8, <1>9 DEF Booked, Shapes

\* Sealing a row keeps what it is about, and its place.
LEMMA ResealBooked ==
    ASSUME Booked, NEW t \in TurnIds, ResealTraces(t)
    PROVE  Booked'
  <1>0. /\ pc[t] = "seal" /\ pc' = [pc EXCEPT ![t] = "done"]
        /\ events' = [i \in DOMAIN events |->
                        IF events[i].id \in sealing[t] THEN Sealed(events[i]) ELSE events[i]]
        /\ sealing' = [sealing EXCEPT ![t] = {}]
        /\ UNCHANGED <<decisions, route, said, plan, superseded, returned, writing, pages, reads, lost,
                       fails, purges, next>>
    BY DEF ResealTraces, At, Goto, readVars
  <1>1. /\ Kept /\ Queues /\ Controls /\ Counters /\ Len(events) \in Nat
        /\ DOMAIN events = 1 .. Len(events) /\ \A i \in 1 .. Len(events) : events[i] \in Draft
    BY LenProperties, ElementOfSeq DEF Booked, Shapes, Kept
  <1>2. ASSUME NEW i \in 1 .. Len(events)
        PROVE  /\ events'[i] \in Draft /\ events'[i].id = events[i].id
               /\ events'[i].kind = events[i].kind /\ events'[i].turn = events[i].turn
               /\ events'[i].payload = events[i].payload
               /\ events'[i].task = events[i].task /\ events'[i].model = events[i].model
    <2>1. events[i] \in Row /\ (events[i].kind = "cost" => events[i].payload \in Charge)
      BY <1>1 DEF Draft
    <2>2. events'[i] \in {events[i], [events[i] EXCEPT !.clear = FALSE]}
      BY <1>0, <1>1 DEF Sealed
    <2> QED BY <2>1, <2>2 DEF Row, Draft
  <1>3. events' \in Seq(Draft) /\ Len(events') = Len(events) /\ DOMAIN events' = DOMAIN events
    <2>1. events' = [i \in 1 .. Len(events) |-> events'[i]]
      BY <1>0, <1>1
    <2> QED BY <1>1, <1>2, <2>1
  <1>4. Kept'
    BY <1>0, <1>1, <1>2, <1>3 DEF Kept
  <1>5. Queues' /\ Counters'
    BY <1>0, <1>1 DEF Queues, DueRows, Counters
  <1>6. Controls'
    <2>1. /\ pc' \in [TurnIds -> Stages] /\ sealing' \in [TurnIds -> SUBSET (1 .. next)]
          /\ \A v \in TurnIds : pc'[v] = "answered" => pc[v] = "answered"
      BY <1>0, <1>1 DEF Controls, Stages
    <2> QED BY <1>0, <1>1, <2>1 DEF Controls
  <1>7. Ids(events') = Ids(events)
    BY <1>1, <1>2, <1>3 DEF Ids
  <1>8. Stamped'
    BY <1>0, <1>7 DEF Booked, Stamped
  <1>9. ReadSoFar'
    <2>1. Len(events) <= Len(events') /\ Ids(events) \subseteq Ids(events')
      BY <1>1, <1>3, <1>7
    <2>2. \A i \in 1 .. Len(events) : events'[i].id = events[i].id
      BY <1>2
    <2>3. UNCHANGED <<pages, purges>>
      BY <1>0
    <2> QED BY <1>4, <2>1, <2>2, <2>3, ReadingKept
  <1>10. RouteCarried'
    BY <1>0, <1>1, <1>2, <1>3, CarriedKept DEF Booked
  <1>11. ASSUME NEW u \in TurnIds
         PROVE  Routed(u)' /\ Charged(u)'
    <2>1. Routed(u) /\ Charged(u)
      BY DEF Booked
    <2>2. pc' \in [TurnIds -> Stages] /\ pc'[t] = "done" /\ (u # t => pc'[u] = pc[u])
      BY <1>0, <1>1 DEF Controls, Stages
    <2>3. Routed(u)'
      BY <1>0, <2>1, <2>2 DEF Routed, Waiting
    <2>4. /\ Charges(u)' = Charges(u) /\ Queued(u)' = Queued(u)
          /\ \A i \in Charges(u) : events'[i].payload = events[i].payload
      BY <1>0, <1>1, <1>2, <1>3 DEF Charges, Queued
    <2> HIDE DEF Charges, Queued
    <2>5. CASE u # t
      BY <1>0, <2>1, <2>2, <2>3, <2>4, <2>5, ChargeKept
    <2>6. CASE u = t
      <3>1. Charged(u)'
        BY <1>0, <2>1, <2>2, <2>4, <2>6, SMTT(30) DEF Charged, Done, Says
      <3> QED BY <2>3, <3>1
    <2> QED BY <2>5, <2>6
  <1> QED BY <1>4, <1>5, <1>6, <1>8, <1>9, <1>10, <1>11 DEF Booked, Shapes

\* The oldest rows are swept; the others keep their order.
LEMMA PurgeBooked ==
    ASSUME Booked, NEW n \in Sweeps, Purge(n)
    PROVE  Booked'
  <1>0. /\ Extra /\ n <= Len(events) /\ purges' = purges + 1
        /\ events' = SubSeq(events, n + 1, Len(events))
        /\ UNCHANGED <<decisions, pc, route, said, plan, superseded, returned, sealing, writing,
                       pages, reads, lost, fails, next>>
    BY DEF Purge, readVars, turnVars
  <1>1. /\ Kept /\ Queues /\ Controls /\ Counters /\ Len(events) \in Nat
        /\ DOMAIN events = 1 .. Len(events) /\ \A i \in 1 .. Len(events) : events[i] \in Draft
    BY LenProperties, ElementOfSeq DEF Booked, Shapes, Kept
  <1>2. n \in Nat /\ n > 0
    BY LedgerAssumption
  <1>3. /\ events' \in Seq(Draft) /\ Len(events') = Len(events) - n
        /\ DOMAIN events' = 1 .. Len(events) - n
        /\ \A i \in 1 .. Len(events) - n : n + i \in DOMAIN events /\ events'[i] = events[n + i]
    <2>1. \A i \in n + 1 .. Len(events) : events[i] \in Draft
      BY <1>1, <1>2
    <2>2. /\ events' \in Seq(Draft)
          /\ Len(events') = IF n + 1 <= Len(events) THEN Len(events) - (n + 1) + 1 ELSE 0
          /\ \A i \in 1 .. Len(events) - (n + 1) + 1 : events'[i] = events[(n + 1) + i - 1]
      BY <1>0, <1>1, <1>2, <2>1, SubSeqProperties
    <2> DEFINE rest == events'
               l == Len(events)
    <2>3. Len(rest) = l - n
      <3>1. l \in Nat /\ n <= l
        BY <1>0, <1>1
      <3>2. Len(rest) = IF n + 1 <= l THEN l - (n + 1) + 1 ELSE 0
        BY <2>2
      <3> HIDE DEF rest, l
      <3> QED BY <1>2, <3>1, <3>2
    <2>4. DOMAIN events' = 1 .. Len(events')
      BY <2>2, LenProperties
    <2>5. ASSUME NEW i \in 1 .. l - n
          PROVE  n + i \in DOMAIN events /\ rest[i] = events[n + i]
      <3>1. l \in Nat /\ n <= l /\ DOMAIN events = 1 .. l
        BY <1>0, <1>1
      <3>2. \A k \in 1 .. l - (n + 1) + 1 : rest[k] = events[(n + 1) + k - 1]
        BY <2>2
      <3> HIDE DEF rest, l
      <3>3. n + i \in 1 .. l /\ i \in 1 .. l - (n + 1) + 1 /\ (n + 1) + i - 1 = n + i
        BY <1>2, <3>1
      <3> QED BY <3>1, <3>2, <3>3
    <2> QED BY <2>2, <2>3, <2>4, <2>5
  <1>4. Kept'
    <2>1. \A i \in DOMAIN events' : events'[i].id \in 1 .. next'
      BY <1>0, <1>1, <1>3 DEF Kept
    <2>2. ASSUME NEW i \in DOMAIN events', NEW j \in DOMAIN events', i < j
          PROVE  events'[i].id < events'[j].id
      <3>1. /\ n + i \in DOMAIN events /\ n + j \in DOMAIN events /\ n + i < n + j
            /\ events'[i] = events[n + i] /\ events'[j] = events[n + j]
        BY <1>1, <1>2, <1>3, <2>2
      <3> QED BY <1>1, <3>1 DEF Kept
    <2> QED BY <1>0, <1>1, <1>3, <2>1, <2>2 DEF Kept
  <1>5. Controls' /\ Queues'
    BY <1>0, <1>1 DEF Controls, Queues, DueRows
  <1>6. Counters'
    BY <1>0, <1>1, LedgerAssumption DEF Counters, Extra
  <1>7. purges' # 0
    BY <1>0, <1>1 DEF Counters
  <1>8. ReadSoFar'
    BY <1>0, <1>7 DEF Booked, ReadSoFar
  <1>9. RouteCarried'
    BY <1>0, <1>1, <1>3, CarriedKept DEF Booked
  <1>10. Stamped'
    <2>1. Ids(events') \subseteq Ids(events)
      BY <1>3 DEF Ids
    <2> QED BY <1>0, <2>1 DEF Booked, Stamped
  <1>11. ASSUME NEW u \in TurnIds
         PROVE  Routed(u)' /\ Charged(u)'
    <2>1. Routed(u) /\ Charged(u) /\ Queued(u)' = Queued(u)
      BY <1>0 DEF Booked, Queued
    <2>2. Routed(u)'
      BY <1>0, <2>1 DEF Routed
    <2>3. \A i \in Charges(u)' : n + i \in Charges(u) /\ events'[i] = events[n + i] /\ i \in Nat
      BY <1>1, <1>2, <1>3 DEF Charges
    <2>4. ASSUME NEW i \in Charges(u)', NEW j \in Charges(u)'
          PROVE  i = j
      <3>1. n + i = n + j
        BY <2>1, <2>3 DEF Charged
      <3> QED BY <1>2, <2>3, <3>1
    <2>5. \A i \in Charges(u)' : Says(events'[i], returned'[u])
      BY <1>0, <2>1, <2>3 DEF Charged
    <2>6. Charges(u)' # {} => Charges(u) # {}
      BY <2>3
    <2> HIDE DEF Charges, Queued
    <2>7. Charged(u)'
      BY <1>0, <1>7, <2>1, <2>4, <2>5, <2>6 DEF Charged
    <2> QED BY <2>2, <2>7
  <1> QED BY <1>4, <1>5, <1>6, <1>8, <1>9, <1>10, <1>11 DEF Booked, Shapes

\* A page continues what was read; a short one has reached the end.
LEMMA ReadingBooked ==
    ASSUME Kept, NEW p, p.offset \in Nat,
           purges = 0 => /\ p.seen \in Seq(Nat) /\ p.offset <= Len(events)
                         /\ p.begun \subseteq Ids(events)
                         /\ \A i \in 1 .. p.offset :
                              events[i].id \in p.begun => events[i].id \in Range(p.seen),
           pages' = Reading(p), UNCHANGED <<events, purges>>
    PROVE  ReadSoFar'
  <1> DEFINE o == p.offset
             n == Len(events)
             m == IF o + PageLimit < n THEN o + PageLimit ELSE n
             page == Page(o)
             ids == [i \in DOMAIN page |-> page[i].id]
  <1>1. /\ n \in Nat /\ PageLimit \in Nat \ {0} /\ m \in Nat /\ m <= n
        /\ DOMAIN events = 1 .. n
        /\ \A i \in 1 .. n : events[i] \in Draft /\ events[i].id \in Nat
    <2>1. \A i \in 1 .. n : events[i] \in Draft
      BY ElementOfSeq DEF Kept
    <2>2. next \in Nat /\ \A i \in 1 .. n : events[i].id \in 1 .. next
      BY LenProperties DEF Kept
    <2>3. n \in Nat /\ DOMAIN events = 1 .. n
      BY LenProperties DEF Kept
    <2> HIDE DEF n
    <2>4. m \in Nat /\ m <= n
      BY <2>3, LedgerAssumption
    <2> QED BY <2>1, <2>2, <2>3, <2>4, LedgerAssumption
  <1>2. /\ page \in Seq(Draft) /\ Len(page) = IF o + 1 <= m THEN m - o ELSE 0
        /\ \A i \in 1 .. m - o : page[i] = events[o + i]
    <2>1. page = SubSeq(events, o + 1, m)
      BY DEF Page
    <2>2. o \in Nat
      OBVIOUS
    <2> HIDE DEF page, m, n, o
    <2>3. \A i \in o + 1 .. m : events[i] \in Draft
      BY <1>1, <2>2
    <2>4. /\ page \in Seq(Draft)
          /\ Len(page) = IF o + 1 <= m THEN m - (o + 1) + 1 ELSE 0
          /\ \A i \in 1 .. m - (o + 1) + 1 : page[i] = events[(o + 1) + i - 1]
      BY <1>1, <2>1, <2>2, <2>3, SubSeqProperties
    <2>5. Len(page) = IF o + 1 <= m THEN m - o ELSE 0
      BY <1>1, <2>2, <2>4
    <2>6. ASSUME NEW i \in 1 .. m - o
          PROVE  page[i] = events[o + i]
      <3>1. i \in 1 .. m - (o + 1) + 1 /\ (o + 1) + i - 1 = o + i
        BY <1>1, <2>2
      <3> QED BY <2>4, <3>1
    <2> QED BY <2>4, <2>5, <2>6
  <1>3. /\ pages'.offset = IF Len(page) < PageLimit THEN 0 ELSE o + Len(page)
        /\ pages'.seen = p.seen \o ids /\ pages'.begun = p.begun
    BY DEF Reading, NextOffset
  <1>4. pages'.offset \in Nat
    BY <1>2, <1>3, LenProperties
  <1>5. CASE purges = 0
    <2>1. /\ p.seen \in Seq(Nat) /\ o <= n /\ p.begun \subseteq Ids(events)
          /\ \A i \in 1 .. o : events[i].id \in p.begun => events[i].id \in Range(p.seen)
      BY <1>5
    <2>2. o \in Nat /\ o <= m /\ Len(page) = m - o
      <3>1. o \in Nat
        OBVIOUS
      <3>2. o <= m
        <4> HIDE DEF n, o
        <4> QED BY <1>1, <2>1, <3>1
      <3> HIDE DEF page, m, n, o
      <3> QED BY <1>1, <1>2, <3>1, <3>2
    <2>3. m # n => Len(page) = PageLimit
      <3>1. m # n => m = o + PageLimit
        OBVIOUS
      <3> HIDE DEF page, m, n, o
      <3> QED BY <1>1, <2>2, <3>1
    <2> HIDE DEF page, m, n, o
    <2>4. /\ ids \in Seq(Nat) /\ DOMAIN ids = 1 .. m - o /\ Len(ids) = m - o
          /\ \A i \in 1 .. m - o : ids[i] = events[o + i].id
      <3>1. DOMAIN page = 1 .. m - o /\ m - o \in Nat
        BY <1>1, <1>2, <2>2, LenProperties
      <3>2. \A i \in 1 .. m - o : o + i \in 1 .. n
        BY <1>1, <2>2
      <3>3. \A i \in 1 .. m - o : page[i].id \in Nat
        BY <1>1, <1>2, <3>2
      <3>4. ids = [i \in 1 .. m - o |-> page[i].id]
        BY <3>1
      <3> QED BY <1>2, <3>1, <3>3, <3>4
    <2> DEFINE seen == p.seen \o ids
    <2> HIDE DEF ids
    <2>5. seen \in Seq(Nat) /\ Range(seen) = Range(p.seen) \cup Range(ids)
      <3>1. seen \in Seq(Nat)
        BY <2>1, <2>4, ConcatProperties
      <3>2. Range(seen) = Range(p.seen) \cup Range(ids)
        BY <2>1, <2>4, RangeConcatenation
      <3> QED BY <3>1, <3>2
    <2>6. \A i \in 1 .. m : events[i].id \in p.begun => events[i].id \in Range(seen)
      <3>1. ASSUME NEW i \in 1 .. m, events[i].id \in p.begun
            PROVE  events[i].id \in Range(seen)
        <4>1. CASE i <= o
          <5>1. i \in 1 .. o
            BY <1>1, <2>2, <4>1
          <5> QED BY <2>1, <2>5, <3>1, <5>1
        <4>2. CASE ~(i <= o)
          <5>1. i - o \in 1 .. m - o /\ o + (i - o) = i
            BY <1>1, <2>2, <4>2
          <5>2. ids[i - o] = events[i].id
            BY <2>4, <5>1
          <5>3. events[i].id \in Range(ids)
            BY <2>4, <5>1, <5>2 DEF Range
          <5> QED BY <2>5, <5>3
        <4> QED BY <4>1, <4>2
      <3> QED BY <3>1
    <2>7. pages'.offset > 0 => pages'.offset = m
      BY <1>1, <1>3, <2>2
    <2>8. ASSUME pages'.offset = 0
          PROVE  p.begun \subseteq Range(seen)
      <3>1. m = n
        BY <1>1, <1>3, <2>2, <2>3, <2>8
      <3>2. \A i \in DOMAIN events : events[i].id \in p.begun => events[i].id \in Range(seen)
        BY <1>1, <2>6, <3>1
      <3> QED BY <2>1, <3>2 DEF Ids
    <2>9. /\ events' = events /\ Ids(events)' = Ids(events) /\ purges' = purges
          /\ pages'.seen = seen /\ pages'.begun = p.begun
      BY <1>3 DEF Ids
    <2>10. Len(events') = n
      BY <2>9 DEF n
    <2> HIDE DEF seen
    <2> QED BY <1>1, <1>3, <1>4, <2>1, <2>5, <2>6, <2>7, <2>8, <2>9, <2>10 DEF ReadSoFar
  <1>6. CASE purges # 0
    BY <1>4, <1>6 DEF ReadSoFar
  <1> QED BY <1>5, <1>6

\* Readers change nothing but what they have read.
LEMMA ReadersBooked ==
    ASSUME Booked, StartReading \/ ReadOn \/ Shown
    PROVE  Booked'
  <1>0. /\ UNCHANGED <<events, decisions, writing, pc, route, said, plan, superseded, returned, calls,
                       sealing, lost, fails, purges, next>>
        /\ reads' \in 0 .. MaxReads
    BY LedgerAssumption DEF StartReading, ReadOn, Shown, Booked, Shapes, Counters, turnVars
  <1>1. Shapes'
    BY <1>0 DEF Booked, Shapes, Kept, Queues, DueRows, Controls, Counters
  <1>2. \A t \in TurnIds : Routed(t)' /\ Charged(t)'
    BY <1>0 DEF Booked, Routed, Charged, Charges, Queued
  <1>3. RouteCarried' /\ Stamped'
    BY <1>0 DEF Booked, RouteCarried, Stamped, Ids
  <1>4. Kept /\ ReadSoFar /\ UNCHANGED <<events, purges>>
    BY <1>0 DEF Booked, Shapes
  <1>5. ReadSoFar'
    <2>1. CASE StartReading
      <3> DEFINE p == [NoPages EXCEPT !.begun = Ids(events)]
      <3>1. p.offset = 0 /\ p.seen = <<>> /\ p.begun = Ids(events) /\ pages' = Reading(p)
        BY <2>1 DEF StartReading, NoPages
      <3>2. Len(events) \in Nat
        BY <1>4, LenProperties DEF Kept
      <3> HIDE DEF p
      <3>3. p.seen \in Seq(Nat) /\ 1 .. 0 = {}
        BY <3>1
      <3>4. /\ p.seen \in Seq(Nat) /\ p.offset \in Nat /\ p.offset <= Len(events)
            /\ p.begun \subseteq Ids(events)
            /\ \A i \in 1 .. p.offset : events[i].id \in p.begun => events[i].id \in Range(p.seen)
        BY <3>1, <3>2, <3>3
      <3> QED BY <1>4, <3>1, <3>4, ReadingBooked
    <2>2. CASE ReadOn
      <3>1. pages.offset \in Nat /\ pages.offset > 0 /\ pages' = Reading(pages)
        BY <1>4, <2>2 DEF ReadOn, ReadSoFar
      <3>2. purges = 0 => /\ pages.seen \in Seq(Nat) /\ pages.offset <= Len(events)
                          /\ pages.begun \subseteq Ids(events)
                          /\ \A i \in 1 .. pages.offset :
                               events[i].id \in pages.begun => events[i].id \in Range(pages.seen)
        BY <1>4, <3>1 DEF ReadSoFar
      <3> QED BY <1>4, <3>1, <3>2, ReadingBooked
    <2>3. CASE Shown
      <3>1. pages'.offset = 0 /\ pages'.seen = <<>> /\ pages'.begun = {}
        BY <2>3 DEF Shown, NoPages
      <3>2. pages'.seen \in Seq(Nat) /\ ~(pages'.offset > 0)
        BY <3>1
      <3> QED BY <3>1, <3>2 DEF ReadSoFar
    <2> QED BY <2>1, <2>2, <2>3
  <1> QED BY <1>1, <1>2, <1>3, <1>5 DEF Booked

LEMMA InitBooked == LedgerInit => Booked
  <1> SUFFICES ASSUME LedgerInit
               PROVE  Booked
    OBVIOUS
  <1>1. Kept
    BY DEF LedgerInit, Kept
  <1>2. Queues /\ Stamped
    BY DEF LedgerInit, Queues, Stamped
  <1>3. Controls
    BY LedgerAssumption DEF LedgerInit, Controls, Stages
  <1>4. Counters
    BY LedgerAssumption DEF LedgerInit, Counters
  <1>5. ASSUME NEW t \in TurnIds
        PROVE  Routed(t) /\ Charged(t)
    <2>1. pc[t] = "new" /\ Charges(t) = {} /\ Queued(t) = {}
      BY DEF LedgerInit, Charges, Queued
    <2> HIDE DEF Charges, Queued
    <2> QED BY <2>1 DEF Routed, Charged, Waiting, Done
  <1>6. RouteCarried
    BY DEF LedgerInit, RouteCarried
  <1>7. ReadSoFar
    BY DEF LedgerInit, ReadSoFar, NoPages
  <1> QED BY <1>1, <1>2, <1>3, <1>4, <1>5, <1>6, <1>7 DEF Booked, Shapes

LEMMA NextBooked == Booked /\ [LedgerNext]_ledgerVars => Booked'
  <1> SUFFICES ASSUME Booked, [LedgerNext]_ledgerVars
               PROVE  Booked'
    OBVIOUS
  <1>1. CASE UNCHANGED ledgerVars
    <2> USE <1>1 DEF ledgerVars, turnVars
    <2>1. Shapes'
      BY DEF Booked, Shapes, Kept, Queues, DueRows, Controls, Counters
    <2>2. \A t \in TurnIds : Routed(t)' /\ Charged(t)'
      BY DEF Booked, Routed, Charged, Charges, Queued
    <2>3. RouteCarried' /\ Stamped'
      BY DEF Booked, RouteCarried, Stamped, Ids
    <2>4. ReadSoFar'
      BY DEF Booked, ReadSoFar, Ids
    <2> QED BY <2>1, <2>2, <2>3, <2>4 DEF Booked
  <1>2. ASSUME NEW t \in TurnIds,
               \/ Begin(t) \/ PlanReady(t)
               \/ \E m \in Models : \E u \in Usages[m] : \E l \in Stages : Returns(t, m, u, l)
        PROVE  Booked'
    BY <1>2, QuietTurnBooked
  <1>3. ASSUME NEW t \in TurnIds,
               \/ UserMessage(t) \/ AsksForTools(t)
               \/ \E b \in BOOLEAN : ToolResults(t, b) \/ Approval(t, b)
        PROVE  Booked'
    BY <1>3, NotingBooked
  <1>4. ASSUME NEW t \in TurnIds, NEW r \in Routes, Resolve(t, r)
        PROVE  Booked'
    BY <1>4, ResolveBooked
  <1>5. ASSUME NEW t \in TurnIds, Completes(t) \/ AsksToSeal(t) \/ ResealTraces(t) \/ Fails(t)
        PROVE  Booked'
    BY <1>5, CompletesBooked, AsksToSealBooked, ResealBooked, FailsBooked
  <1>6. ASSUME NEW t \in TurnIds, NEW k \in 0 .. Len(events), Insert(t, k)
        PROVE  Booked'
    BY <1>6, InsertBooked
  <1>7. ASSUME NEW t \in TurnIds, InsertFails(t)
        PROVE  Booked'
    BY <1>7, InsertFailsBooked
  <1>8. CASE StartReading \/ ReadOn \/ Shown
    BY <1>8, ReadersBooked
  <1>9. ASSUME NEW n \in Sweeps, Purge(n)
        PROVE  Booked'
    BY <1>9, PurgeBooked
  <1> QED BY <1>1, <1>2, <1>3, <1>4, <1>5, <1>6, <1>7, <1>8, <1>9 DEF LedgerNext

LEMMA AlwaysBooked == LedgerSpec => []Booked
  BY InitBooked, NextBooked, PTL DEF LedgerSpec

-----------------------------------------------------------------------------
(* The usage report. A fold is followed element by element: FoldSoFar      *)
(* gives its results so far, and UpTo the induction over them.             *)

Cost == {e \in Draft : e.kind = "cost"}

\* A total, number by number.
LEMMA TotalSoFar ==
    ASSUME NEW ns \in Seq(Nat)
    PROVE  \E f \in [0 .. Len(ns) -> Nat] :
             /\ f[0] = 0 /\ Total(ns) = f[Len(ns)]
             /\ \A k \in 1 .. Len(ns) : f[k] = f[k - 1] + ns[k]
  <1> DEFINE n == Len(ns)
             step == [p \in (1 .. n) \X Nat |-> p[2] + ns[p[1]]]
             Table(c) == c = [t \in SUBSET (1 .. n) |->
                                IF t = {} THEN 0 ELSE c[t \ {Max(t)}] + ns[Max(t)]]
             table == CHOOSE c : Table(c)
  <1>1. n \in Nat /\ DOMAIN ns = 1 .. n /\ \A k \in 1 .. n : ns[k] \in Nat
    BY LenProperties, ElementOfSeq
  <1>2. Total(ns) = table[1 .. n]
    BY <1>1 DEF Total, FoldLeft, MapThenFoldSet
  <1> HIDE DEF n
  <1>3. step \in [(1 .. n) \X Nat -> Nat]
    BY <1>1
  <1>4. Table(table)
    <2> HIDE DEF step
    <2>1. PICK c : FoldsBy(c, n, Nat, 0, step)
      <3>1. 0 \in Nat /\ step \in Steps(n, Nat)
        BY <1>3 DEF Steps
      <3> QED BY <1>1, <3>1, FoldTable
    <2>2. ASSUME NEW t \in SUBSET (1 .. n), t # {}
          PROVE  c[t] = c[t \ {Max(t)}] + ns[Max(t)]
      <3>1. Max(t) \in 1 .. n
        <4>1. t \subseteq 0 .. n
          BY <1>1
        <4> QED BY <1>1, <2>2, <4>1, Greatest
      <3>2. c[t \ {Max(t)}] \in Nat
        BY <2>1 DEF FoldsBy
      <3>3. step[<<Max(t), c[t \ {Max(t)}]>>] = c[t \ {Max(t)}] + ns[Max(t)]
        BY <3>1, <3>2 DEF step
      <3> QED BY <2>1, <2>2, <3>3 DEF FoldsBy
    <2>3. Table(c)
      BY <2>1, <2>2 DEF FoldsBy
    <2> HIDE DEF Table
    <2> QED BY <2>3
  <1> HIDE DEF table
  <1>5. table[{}] = 0
    BY <1>4
  <1>6. ASSUME NEW k \in 1 .. n, table[1 .. k - 1] \in Nat
        PROVE  table[1 .. k] = step[<<k, table[1 .. k - 1]>>]
    <2>1. k \in 1 .. k /\ 1 .. k \subseteq 1 .. n /\ k > 0 /\ k \in Nat
      BY <1>1
    <2>2. Max(1 .. k) = k /\ (1 .. k) \ {k} = 1 .. k - 1
      BY <2>1, MaxOfInterval
    <2>3. table[1 .. k] = table[1 .. k - 1] + ns[k]
      BY <1>4, <2>1, <2>2
    <2> QED BY <1>6, <2>3
  <1> HIDE DEF step
  <1>7. PICK f : Results(f, n, Nat, 0, step, table[1 .. n])
    <2>1. 0 \in Nat /\ step \in Steps(n, Nat)
      BY <1>3 DEF Steps
    <2>2. Follows(table, n, Nat, 0, step)
      BY <1>5, <1>6 DEF Follows
    <2> QED BY <1>1, <2>1, <2>2, FoldSoFar
  <1>8. ASSUME NEW k \in 1 .. n
        PROVE  f[k] = f[k - 1] + ns[k]
    <2>1. k - 1 \in 0 .. n
      BY <1>1
    <2>2. f[k] = step[<<k, f[k - 1]>>] /\ f[k - 1] \in Nat
      BY <1>7, <2>1 DEF Results
    <2> QED BY <2>2 DEF step
  <1> QED BY <1>2, <1>7, <1>8 DEF n, Results

\* What the cost query reads are cost events.
LEMMA CostsSoFar ==
    ASSUME events \in Seq(Draft)
    PROVE  Costs \in Seq(Cost)
  <1> DEFINE n == Len(events)
             V == Seq(Cost)
             keep(kept, e) == IF e.kind = "cost" THEN Append(kept, e) ELSE kept
             step == [p \in (1 .. n) \X V |-> keep(p[2], events[p[1]])]
             Table(c) == c = [t \in SUBSET (1 .. n) |->
                                IF t = {} THEN <<>> ELSE keep(c[t \ {Max(t)}], events[Max(t)])]
             table == CHOOSE c : Table(c)
  <1>1. n \in Nat /\ DOMAIN events = 1 .. n /\ \A k \in 1 .. n : events[k] \in Draft
    BY LenProperties, ElementOfSeq
  <1>2. Costs = table[1 .. n]
    BY <1>1 DEF Costs, FoldLeft, MapThenFoldSet
  <1>3. ASSUME NEW kept \in V, NEW e \in Draft
        PROVE  keep(kept, e) \in V
    BY <1>3, AppendProperties DEF Cost
  <1> HIDE DEF n, keep, V
  <1>4. step \in Steps(n, V)
    BY <1>1, <1>3 DEF Steps
  <1>5. <<>> \in V
    BY DEF V
  <1>6. Table(table)
    <2> HIDE DEF step
    <2>1. PICK c : FoldsBy(c, n, V, <<>>, step)
      BY <1>1, <1>4, <1>5, FoldTable
    <2>2. ASSUME NEW t \in SUBSET (1 .. n), t # {}
          PROVE  c[t] = keep(c[t \ {Max(t)}], events[Max(t)])
      <3>1. Max(t) \in 1 .. n
        <4>1. t \subseteq 0 .. n
          BY <1>1
        <4> QED BY <1>1, <2>2, <4>1, Greatest
      <3>2. c[t \ {Max(t)}] \in V
        BY <2>1 DEF FoldsBy
      <3>3. step[<<Max(t), c[t \ {Max(t)}]>>] = keep(c[t \ {Max(t)}], events[Max(t)])
        BY <3>1, <3>2 DEF step
      <3> QED BY <2>1, <2>2, <3>3 DEF FoldsBy
    <2>3. Table(c)
      BY <2>1, <2>2 DEF FoldsBy
    <2> HIDE DEF Table
    <2> QED BY <2>3
  <1> HIDE DEF table
  <1>7. Follows(table, n, V, <<>>, step)
    <2>1. ASSUME NEW k \in 1 .. n, table[1 .. k - 1] \in V
          PROVE  table[1 .. k] = step[<<k, table[1 .. k - 1]>>]
      <3>1. k \in 1 .. k /\ 1 .. k \subseteq 1 .. n /\ k > 0 /\ k \in Nat
        BY <1>1
      <3>2. Max(1 .. k) = k /\ (1 .. k) \ {k} = 1 .. k - 1
        BY <3>1, MaxOfInterval
      <3>3. table[1 .. k] = keep(table[1 .. k - 1], events[k])
        BY <1>6, <3>1, <3>2
      <3> QED BY <2>1, <3>3
    <2>2. table[{}] = <<>>
      BY <1>6
    <2> HIDE DEF step
    <2> QED BY <2>1, <2>2 DEF Follows
  <1> HIDE DEF step
  <1>8. PICK f : Results(f, n, V, <<>>, step, table[1 .. n])
    BY <1>1, <1>4, <1>5, <1>7, FoldSoFar
  <1>9. f[n] \in V /\ f[n] = table[1 .. n]
    <2>1. n \in 0 .. n
      BY <1>1
    <2> QED BY <1>8, <2>1 DEF Results
  <1> QED BY <1>2, <1>9 DEF V

-----------------------------------------------------------------------------
(* Tallies and buckets *)

Tally == [input : Nat, output : Nat, cost : Nat \cup {Absent}, has : BOOLEAN, requests : Nat]
Buckets(K) == UNION {[S -> Tally] : S \in SUBSET K}
Accounts == [total : Tally, by_model : Buckets(Models), by_task : Buckets(Tasks)]

\* A tally stays a tally, a breakdown a breakdown.
LEMMA AddTyped ==
    ASSUME NEW tally \in Tally, NEW e \in Cost
    PROVE  Add(tally, CostPayload(e)) \in Tally
  <1>1. CostPayload(e) \in Charge \cup {Absent}
    BY DEF Cost, Draft, CostPayload
  <1>2. CASE CostPayload(e) = Absent
    BY <1>2 DEF Add, Tally
  <1>3. CASE CostPayload(e) # Absent
    <2> DEFINE payload == CostPayload(e)
    <2>1. payload \in Charge
      BY <1>1, <1>3
    <2> HIDE DEF payload
    <2>2. payload.input \in Nat /\ payload.output \in Nat /\ payload.cost \in Nat \cup {Absent}
      BY <2>1 DEF Charge
    <2>3. tally.input \in Nat /\ tally.output \in Nat /\ tally.requests \in Nat
          /\ tally.cost \in Nat \cup {Absent}
      BY DEF Tally
    <2>4. (IF payload.cost = Absent THEN tally.cost
           ELSE (IF tally.cost = Absent THEN 0 ELSE tally.cost) + payload.cost) \in Nat \cup {Absent}
      BY <2>2, <2>3
    <2>5. tally.input + payload.input \in Nat /\ tally.output + payload.output \in Nat
          /\ tally.requests + 1 \in Nat
      BY <2>2, <2>3
    <2>6. payload # Absent
      BY <1>3 DEF payload
    <2> HIDE DEF Tally
    <2>7. Add(tally, payload) \in Tally
      BY <2>4, <2>5, <2>6 DEF Add, Tally
    <2> QED BY <2>7 DEF payload
  <1> QED BY <1>2, <1>3

LEMMA AddToTyped ==
    ASSUME NEW K, NEW buckets \in Buckets(K), NEW key \in K, NEW e \in Cost
    PROVE  AddTo(buckets, key, CostPayload(e)) \in Buckets(K)
  <1> DEFINE new == AddTo(buckets, key, CostPayload(e))
  <1>1. PICK S \in SUBSET K : buckets \in [S -> Tally]
    BY DEF Buckets
  <1>2. EmptyTally \in Tally
    BY DEF EmptyTally, Tally
  <1>3. \A tally \in Tally : Add(tally, CostPayload(e)) \in Tally
    BY AddTyped
  <1>4. new \in [S \cup {key} -> Tally]
    <2>1. CASE key \in S
      <3>1. new = [buckets EXCEPT ![key] = Add(@, CostPayload(e))] /\ S \cup {key} = S
        BY <1>1, <2>1 DEF AddTo
      <3> QED BY <1>1, <1>3, <2>1, <3>1
    <2>2. CASE key \notin S
      <3>1. new = [k \in S \cup {key} |-> IF k = key THEN Add(EmptyTally, CostPayload(e)) ELSE buckets[k]]
        BY <1>1, <2>2 DEF AddTo
      <3> QED BY <1>1, <1>2, <1>3, <2>2, <3>1
    <2> QED BY <2>1, <2>2
  <1>5. S \cup {key} \in SUBSET K
    BY <1>1
  <1> HIDE DEF new
  <1>6. new \in Buckets(K)
    BY <1>4, <1>5 DEF Buckets
  <1> QED BY <1>6 DEF new

\* One step of aggregate.
Account(acc, e) ==
    [total |-> Add(acc.total, CostPayload(e)),
     by_model |-> AddTo(acc.by_model, e.model, CostPayload(e)),
     by_task |-> AddTo(acc.by_task, e.task, CostPayload(e))]
NoAccounts == [total |-> EmptyTally, by_model |-> NoBuckets, by_task |-> NoBuckets]

\* A report, event by event.
LEMMA AggregateSoFar ==
    ASSUME NEW costs \in Seq(Cost)
    PROVE  \E f \in [0 .. Len(costs) -> Accounts] :
             /\ f[0] = NoAccounts /\ Aggregate(costs) = f[Len(costs)]
             /\ \A k \in 1 .. Len(costs) : f[k] = Account(f[k - 1], costs[k])
  <1> DEFINE n == Len(costs)
             step == [p \in (1 .. n) \X Accounts |-> Account(p[2], costs[p[1]])]
             Table(c) == c = [t \in SUBSET (1 .. n) |->
                                IF t = {} THEN NoAccounts
                                ELSE Account(c[t \ {Max(t)}], costs[Max(t)])]
             table == CHOOSE c : Table(c)
  <1>1. n \in Nat /\ DOMAIN costs = 1 .. n /\ \A k \in 1 .. n : costs[k] \in Cost
    BY LenProperties, ElementOfSeq
  <1>2. Aggregate(costs) = table[1 .. n]
    BY <1>1 DEF Aggregate, FoldLeft, MapThenFoldSet, Account, NoAccounts
  <1>3. ASSUME NEW acc \in Accounts, NEW e \in Cost
        PROVE  Account(acc, e) \in Accounts
    <2>1. e.model \in Models /\ e.task \in Tasks
      BY DEF Cost, Draft, Row
    <2>2. acc.total \in Tally /\ acc.by_model \in Buckets(Models) /\ acc.by_task \in Buckets(Tasks)
      BY DEF Accounts
    <2> QED BY <2>1, <2>2, AddTyped, AddToTyped DEF Account, Accounts
  <1>4. NoAccounts \in Accounts
    <2>1. EmptyTally \in Tally
      BY DEF EmptyTally, Tally
    <2>2. NoBuckets \in Buckets(Models) /\ NoBuckets \in Buckets(Tasks)
      <3>1. ASSUME NEW K
            PROVE  NoBuckets \in Buckets(K)
        <4>1. NoBuckets \in [{} -> Tally] /\ {} \in SUBSET K
          BY DEF NoBuckets
        <4> QED BY <4>1 DEF Buckets
      <3> QED BY <3>1
    <2> QED BY <2>1, <2>2 DEF NoAccounts, Accounts
  <1> HIDE DEF n
  <1>5. step \in Steps(n, Accounts)
    BY <1>1, <1>3 DEF Steps
  <1>6. Table(table)
    <2> HIDE DEF step
    <2>1. PICK c : FoldsBy(c, n, Accounts, NoAccounts, step)
      BY <1>1, <1>4, <1>5, FoldTable
    <2>2. ASSUME NEW t \in SUBSET (1 .. n), t # {}
          PROVE  c[t] = Account(c[t \ {Max(t)}], costs[Max(t)])
      <3>1. Max(t) \in 1 .. n
        <4>1. t \subseteq 0 .. n
          BY <1>1
        <4> QED BY <1>1, <2>2, <4>1, Greatest
      <3>2. c[t \ {Max(t)}] \in Accounts
        BY <2>1 DEF FoldsBy
      <3>3. step[<<Max(t), c[t \ {Max(t)}]>>] = Account(c[t \ {Max(t)}], costs[Max(t)])
        BY <3>1, <3>2 DEF step
      <3> QED BY <2>1, <2>2, <3>3 DEF FoldsBy
    <2>3. Table(c)
      BY <2>1, <2>2 DEF FoldsBy
    <2> HIDE DEF Table
    <2> QED BY <2>3
  <1> HIDE DEF table
  <1>7. Follows(table, n, Accounts, NoAccounts, step)
    <2>1. ASSUME NEW k \in 1 .. n, table[1 .. k - 1] \in Accounts
          PROVE  table[1 .. k] = step[<<k, table[1 .. k - 1]>>]
      <3>1. k \in 1 .. k /\ 1 .. k \subseteq 1 .. n /\ k > 0 /\ k \in Nat
        BY <1>1
      <3>2. Max(1 .. k) = k /\ (1 .. k) \ {k} = 1 .. k - 1
        BY <3>1, MaxOfInterval
      <3>3. table[1 .. k] = Account(table[1 .. k - 1], costs[k])
        BY <1>6, <3>1, <3>2
      <3> QED BY <2>1, <3>3
    <2>2. table[{}] = NoAccounts
      BY <1>6
    <2> HIDE DEF step
    <2> QED BY <2>1, <2>2 DEF Follows
  <1> HIDE DEF step
  <1>8. PICK f : Results(f, n, Accounts, NoAccounts, step, table[1 .. n])
    BY <1>1, <1>4, <1>5, <1>7, FoldSoFar
  <1>9. ASSUME NEW k \in 1 .. n
        PROVE  f[k] = Account(f[k - 1], costs[k])
    <2>1. k - 1 \in 0 .. n
      BY <1>1
    <2>2. f[k] = step[<<k, f[k - 1]>>] /\ f[k - 1] \in Accounts
      BY <1>8, <2>1 DEF Results
    <2> QED BY <2>2 DEF step
  <1> QED BY <1>2, <1>8, <1>9 DEF n, Results

\* Numbers that differ in one place.
Adds(ms, ns, j, x) ==
    /\ DOMAIN ms = DOMAIN ns
    /\ \A i \in DOMAIN ns : ms[i] = IF i = j THEN ns[i] + x ELSE ns[i]

LEMMA TotalAdds ==
    ASSUME NEW ns \in Seq(Nat), NEW ms \in Seq(Nat), NEW j \in DOMAIN ns, NEW x \in Nat,
           Adds(ms, ns, j, x)
    PROVE  Total(ms) = Total(ns) + x /\ Total(ns) \in Nat /\ Total(ms) \in Nat
  <1> DEFINE n == Len(ns)
  <1>1. n \in Nat /\ Len(ms) = n /\ DOMAIN ns = 1 .. n /\ \A i \in 1 .. n : ns[i] \in Nat
    BY LenProperties, ElementOfSeq DEF Adds
  <1>2. PICK f \in [0 .. n -> Nat] :
          /\ f[0] = 0 /\ Total(ns) = f[n]
          /\ \A k \in 1 .. n : f[k] = f[k - 1] + ns[k]
    BY TotalSoFar
  <1>3. PICK g \in [0 .. Len(ms) -> Nat] :
          /\ g[0] = 0 /\ Total(ms) = g[Len(ms)]
          /\ \A k \in 1 .. Len(ms) : g[k] = g[k - 1] + ms[k]
    BY TotalSoFar
  <1> HIDE DEF n
  <1> DEFINE good == {k \in 0 .. n : g[k] = f[k] + (IF k < j THEN 0 ELSE x)}
  <1>4. 0 \in good
    <2>1. 0 \in 0 .. n /\ 0 < j
      BY <1>1
    <2>2. f[0] = 0 /\ g[0] = 0
      BY <1>2, <1>3
    <2> QED BY <2>1, <2>2
  <1>5. ASSUME NEW k \in 0 .. n - 1, k \in good
        PROVE  k + 1 \in good
    <2>1. k + 1 \in 1 .. n /\ (k + 1) - 1 = k /\ k + 1 \in 0 .. n /\ k \in 0 .. n
          /\ j \in Nat /\ k \in Nat
      BY <1>1
    <2>2. f[k + 1] = f[k] + ns[k + 1] /\ g[k + 1] = g[k] + ms[k + 1]
      BY <1>1, <1>2, <1>3, <2>1
    <2>3. f[k] \in Nat /\ ns[k + 1] \in Nat /\ g[k] = f[k] + (IF k < j THEN 0 ELSE x)
      BY <1>1, <1>5, <2>1
    <2>4. ms[k + 1] = IF k + 1 = j THEN ns[k + 1] + x ELSE ns[k + 1]
      BY <1>1, <2>1 DEF Adds
    <2>5. g[k + 1] = f[k + 1] + (IF k + 1 < j THEN 0 ELSE x)
      <3>1. CASE k + 1 = j
        BY <2>1, <2>2, <2>3, <2>4, <3>1
      <3>2. CASE k + 1 # j
        <4>1. k < j <=> k + 1 < j
          BY <2>1, <3>2
        <4> QED BY <2>2, <2>3, <2>4, <3>2, <4>1, SMTT(30)
      <3> QED BY <3>1, <3>2
    <2> QED BY <2>1, <2>5
  <1>6. 0 .. n \subseteq good
    <2> HIDE DEF good
    <2> QED BY <1>1, <1>4, <1>5, UpTo
  <1>7. n \in 0 .. n /\ ~(n < j)
    BY <1>1
  <1>8. g[n] = f[n] + x /\ f[n] \in Nat /\ g[n] \in Nat
    BY <1>1, <1>3, <1>6, <1>7
  <1> QED BY <1>1, <1>2, <1>3, <1>8

\* Nothing adds up to nothing.
LEMMA TotalOfNothing ==
    ASSUME NEW ns \in Seq({0})
    PROVE  Total(ns) = 0
  <1> DEFINE n == Len(ns)
  <1>1. n \in Nat /\ ns \in Seq(Nat) /\ \A i \in 1 .. n : ns[i] = 0
    <2>1. n \in Nat /\ \A i \in 1 .. n : ns[i] \in {0}
      BY LenProperties, ElementOfSeq
    <2>2. ns \in Seq(Nat)
      BY SeqMonotonic
    <2> QED BY <2>1, <2>2
  <1>2. PICK f \in [0 .. n -> Nat] :
          /\ f[0] = 0 /\ Total(ns) = f[n]
          /\ \A k \in 1 .. n : f[k] = f[k - 1] + ns[k]
    BY <1>1, TotalSoFar
  <1> HIDE DEF n
  <1> DEFINE good == {k \in 0 .. n : f[k] = 0}
  <1>3. 0 \in good
    BY <1>1, <1>2
  <1>4. ASSUME NEW k \in 0 .. n - 1, k \in good
        PROVE  k + 1 \in good
    <2>1. k + 1 \in 1 .. n /\ (k + 1) - 1 = k /\ k + 1 \in 0 .. n
      BY <1>1
    <2>2. f[k + 1] = f[k] + ns[k + 1]
      BY <1>2, <2>1
    <2> QED BY <1>1, <1>4, <2>1, <2>2
  <1>5. 0 .. n \subseteq good
    <2> HIDE DEF good
    <2> QED BY <1>1, <1>3, <1>4, UpTo
  <1>6. n \in 0 .. n
    BY <1>1
  <1> QED BY <1>2, <1>5, <1>6

\* What a part of the cost events says in one field, and which of them are
\* in clear and are priced.
Part(costs, field, S) == [i \in DOMAIN costs |-> IF i \in S THEN costs[i].payload[field] ELSE 0]
Clear(costs, of) == {i \in of : costs[i].clear}
WithPrice(costs, of) == {i \in Clear(costs, of) : costs[i].payload.cost # Absent}

\* A tally that accounts for the events `of`, with what it keeps to go on.
Sums(tally, costs, of) ==
    /\ tally.requests = Cardinality(of)
    /\ tally.has <=> Clear(costs, of) # {}
    /\ tally.input = Total(Part(costs, "input", Clear(costs, of)))
    /\ tally.output = Total(Part(costs, "output", Clear(costs, of)))
    /\ tally.cost = IF WithPrice(costs, of) = {} THEN Absent
                    ELSE Total(Part(costs, "cost", WithPrice(costs, of)))

\* One event more adds what it says.
LEMMA PartTotals ==
    ASSUME NEW costs \in Seq(Cost), NEW field \in {"input", "output", "cost"},
           NEW S \in SUBSET (DOMAIN costs), NEW j \in (DOMAIN costs) \ S,
           \A i \in S \cup {j} : costs[i].payload[field] \in Nat
    PROVE  /\ Total(Part(costs, field, S)) \in Nat
           /\ Total(Part(costs, field, S \cup {j}))
                = Total(Part(costs, field, S)) + costs[j].payload[field]
  <1> DEFINE ns == Part(costs, field, S)
             ms == Part(costs, field, S \cup {j})
             x == costs[j].payload[field]
  <1>1. DOMAIN costs = 1 .. Len(costs) /\ Len(costs) \in Nat
    BY LenProperties
  <1>2. /\ ns \in Seq(Nat) /\ ms \in Seq(Nat)
        /\ DOMAIN ns = DOMAIN costs /\ DOMAIN ms = DOMAIN costs
    BY <1>1 DEF Part
  <1>3. \A i \in DOMAIN ns : ms[i] = IF i = j THEN ns[i] + x ELSE ns[i]
    <2>1. ASSUME NEW i \in DOMAIN costs
          PROVE  ms[i] = IF i = j THEN ns[i] + x ELSE ns[i]
      <3>1. CASE i = j
        <4>1. ms[i] = x /\ ns[i] = 0 /\ x \in Nat
          BY <3>1 DEF Part
        <4> HIDE DEF ms, ns, x
        <4> QED BY <3>1, <4>1
      <3>2. CASE i # j
        BY <3>2 DEF Part
      <3> QED BY <3>1, <3>2
    <2> QED BY <1>2, <2>1
  <1>4. x \in Nat /\ j \in DOMAIN ns
    BY <1>2
  <1> HIDE DEF ns, ms, x
  <1>5. Total(ms) = Total(ns) + x /\ Total(ns) \in Nat
    <2>1. Adds(ms, ns, j, x)
      BY <1>2, <1>3 DEF Adds
    <2> QED BY <1>2, <1>4, <2>1, TotalAdds
  <1> QED BY <1>5 DEF ns, ms, x

\* UsageTally::add accounts for one event more, and a new tally for none.
LEMMA AddSums ==
    ASSUME NEW costs \in Seq(Cost), NEW of \in SUBSET (DOMAIN costs),
           NEW j \in (DOMAIN costs) \ of, NEW tally \in Tally, Sums(tally, costs, of)
    PROVE  Sums(Add(tally, CostPayload(costs[j])), costs, of \cup {j})
  <1> DEFINE more == of \cup {j}
             e == costs[j]
             new == Add(tally, CostPayload(e))
  <1>1. /\ DOMAIN costs = 1 .. Len(costs) /\ Len(costs) \in Nat
        /\ \A i \in DOMAIN costs : costs[i] \in Cost
    BY LenProperties, ElementOfSeq
  <1>2. \A i \in DOMAIN costs : /\ costs[i].payload \in Charge /\ costs[i].clear \in BOOLEAN
                                /\ costs[i].payload.input \in Nat
                                /\ costs[i].payload.output \in Nat
                                /\ costs[i].payload.cost \in Nat \cup {Absent}
    <2>1. \A i \in DOMAIN costs : costs[i].payload \in Charge /\ costs[i].clear \in BOOLEAN
      BY <1>1 DEF Cost, Draft, Row
    <2> QED BY <2>1 DEF Charge
  <1>3. tally.requests \in Nat /\ Cardinality(more) = tally.requests + 1
    <2>1. IsFiniteSet(of)
      <3>1. IsFiniteSet(DOMAIN costs)
        BY <1>1, FS_Interval
      <3> QED BY <3>1, FS_Subset
    <2>2. Cardinality(more) = Cardinality(of) + 1
      BY <2>1, FS_AddElement
    <2> QED BY <2>2 DEF Sums, Tally
  <1>4. CASE ~e.clear
    <2>1. new = [tally EXCEPT !.requests = @ + 1]
      BY <1>4 DEF Add, CostPayload
    <2>2. Clear(costs, more) = Clear(costs, of)
      BY <1>4 DEF Clear
    <2>3. WithPrice(costs, more) = WithPrice(costs, of)
      BY <2>2 DEF WithPrice
    <2>4. /\ new.requests = tally.requests + 1 /\ new.input = tally.input
          /\ new.output = tally.output /\ new.cost = tally.cost /\ new.has = tally.has
      BY <2>1 DEF Tally
    <2> HIDE DEF new
    <2>5. Sums(new, costs, more)
      BY <1>3, <2>2, <2>3, <2>4 DEF Sums
    <2> QED BY <2>5 DEF new
  <1>5. CASE e.clear
    <2> DEFINE p == e.payload
    <2>1. p \in Charge /\ CostPayload(e) = p /\ p # Absent
      BY <1>2, <1>5, LedgerAssumption DEF CostPayload, Charge
    <2>2. /\ new.requests = tally.requests + 1 /\ new.has = TRUE
          /\ new.input = tally.input + p.input /\ new.output = tally.output + p.output
          /\ new.cost = IF p.cost = Absent THEN tally.cost
                        ELSE (IF tally.cost = Absent THEN 0 ELSE tally.cost) + p.cost
      BY <2>1 DEF Add
    <2>3. Clear(costs, more) = Clear(costs, of) \cup {j} /\ j \notin Clear(costs, of)
          /\ Clear(costs, of) \in SUBSET (DOMAIN costs)
      BY <1>5 DEF Clear
    <2>4. /\ Total(Part(costs, "input", Clear(costs, more)))
               = Total(Part(costs, "input", Clear(costs, of))) + p.input
          /\ Total(Part(costs, "output", Clear(costs, more)))
               = Total(Part(costs, "output", Clear(costs, of))) + p.output
      <3>1. \A field \in {"input", "output"} : \A i \in DOMAIN costs : costs[i].payload[field] \in Nat
        BY <1>2
      <3>2. j \in (DOMAIN costs) \ Clear(costs, of)
        BY <2>3
      <3> HIDE DEF p
      <3>3. ASSUME NEW field \in {"input", "output"}
            PROVE  Total(Part(costs, field, Clear(costs, more)))
                     = Total(Part(costs, field, Clear(costs, of))) + costs[j].payload[field]
        BY <2>3, <3>1, <3>2, PartTotals
      <3> QED BY <3>3 DEF p
    <2>5. new.cost = IF WithPrice(costs, more) = {} THEN Absent
                     ELSE Total(Part(costs, "cost", WithPrice(costs, more)))
      <3>1. tally.cost = IF WithPrice(costs, of) = {} THEN Absent
                         ELSE Total(Part(costs, "cost", WithPrice(costs, of)))
        BY DEF Sums
      <3>2. CASE p.cost = Absent
        <4>1. WithPrice(costs, more) = WithPrice(costs, of)
          BY <2>3, <3>2 DEF WithPrice
        <4> QED BY <2>2, <3>1, <3>2, <4>1
      <3>3. CASE p.cost # Absent
        <4>1. /\ WithPrice(costs, more) = WithPrice(costs, of) \cup {j}
              /\ WithPrice(costs, of) \in SUBSET (DOMAIN costs)
              /\ j \in (DOMAIN costs) \ WithPrice(costs, of)
          BY <2>3, <3>3 DEF WithPrice
        <4>2. \A i \in WithPrice(costs, of) \cup {j} : costs[i].payload.cost \in Nat
          <5>1. p.cost \in Nat
            BY <1>2, <3>3
          <5>2. \A i \in WithPrice(costs, of) : costs[i].payload.cost \in Nat
            BY <1>2, <4>1 DEF WithPrice
          <5> QED BY <5>1, <5>2
        <4>3. /\ Total(Part(costs, "cost", WithPrice(costs, of))) \in Nat
              /\ Total(Part(costs, "cost", WithPrice(costs, more)))
                   = Total(Part(costs, "cost", WithPrice(costs, of))) + p.cost
          BY <4>1, <4>2, PartTotals
        <4>4. Absent \notin Nat
          BY LedgerAssumption
        <4>5. CASE WithPrice(costs, of) = {}
          <5>1. Total(Part(costs, "cost", WithPrice(costs, of))) = 0
            <6>1. Part(costs, "cost", {}) \in Seq({0})
              BY <1>1 DEF Part
            <6> QED BY <4>5, <6>1, TotalOfNothing
          <5> QED BY <2>2, <3>1, <3>3, <4>1, <4>3, <4>5, <5>1
        <4>6. CASE WithPrice(costs, of) # {}
          BY <2>2, <3>1, <3>3, <4>1, <4>3, <4>4, <4>6
        <4> QED BY <4>5, <4>6
      <3> QED BY <3>2, <3>3
    <2>6. Clear(costs, more) # {}
      BY <2>3
    <2> HIDE DEF new, p
    <2>7. Sums(new, costs, more)
      BY <1>3, <2>2, <2>4, <2>5, <2>6 DEF Sums
    <2> QED BY <2>7 DEF new
  <1> QED BY <1>2, <1>4, <1>5

LEMMA NoSums ==
    ASSUME NEW costs \in Seq(Cost)
    PROVE  Sums(EmptyTally, costs, {}) /\ EmptyTally \in Tally
  <1>1. Clear(costs, {}) = {} /\ WithPrice(costs, {}) = {}
    BY DEF Clear, WithPrice
  <1>2. \A field : Total(Part(costs, field, {})) = 0
    <2>1. DOMAIN costs = 1 .. Len(costs) /\ Len(costs) \in Nat
      BY LenProperties
    <2>2. \A field : Part(costs, field, {}) \in Seq({0})
      BY <2>1 DEF Part
    <2> QED BY <2>2, TotalOfNothing
  <1>3. Cardinality({}) = 0
    BY FS_EmptySet
  <1> QED BY <1>1, <1>2, <1>3 DEF Sums, EmptyTally, Tally

\* A breakdown of the first k events by their keys.
Broken(buckets, keys, costs, k) ==
    /\ DOMAIN buckets = {keys[i] : i \in 1 .. k}
    /\ \A m \in DOMAIN buckets : Sums(buckets[m], costs, {i \in 1 .. k : keys[i] = m})

\* One event more goes to the bucket of its key, which may be new.
LEMMA BucketSums ==
    ASSUME NEW costs \in Seq(Cost), NEW K, NEW keys \in [DOMAIN costs -> K],
           NEW k \in Nat, k + 1 \in DOMAIN costs,
           NEW buckets \in Buckets(K), Broken(buckets, keys, costs, k)
    PROVE  Broken(AddTo(buckets, keys[k + 1], CostPayload(costs[k + 1])), keys, costs, k + 1)
  <1> DEFINE j == k + 1
             key == keys[j]
             payload == CostPayload(costs[j])
             new == AddTo(buckets, key, payload)
             of(m) == {i \in 1 .. k : keys[i] = m}
             more(m) == {i \in 1 .. j : keys[i] = m}
  <1>1. /\ DOMAIN costs = 1 .. Len(costs) /\ Len(costs) \in Nat
        /\ 1 .. j = (1 .. k) \cup {j} /\ j \notin 1 .. k /\ 1 .. j \subseteq DOMAIN costs
    BY LenProperties
  <1>2. PICK S \in SUBSET K : buckets \in [S -> Tally]
    BY DEF Buckets
  <1>3. S = {keys[i] : i \in 1 .. k} /\ DOMAIN buckets = S
    BY <1>2 DEF Broken
  <1>4. \A m : /\ more(m) = IF m = key THEN of(m) \cup {j} ELSE of(m)
               /\ of(m) \in SUBSET (DOMAIN costs) /\ j \in (DOMAIN costs) \ of(m)
    BY <1>1
  <1>5. {keys[i] : i \in 1 .. j} = S \cup {key}
    BY <1>1, <1>3
  <1>6. DOMAIN new = S \cup {key}
    BY <1>2 DEF AddTo
  <1> HIDE DEF of, more
  <1>7. \A m : \A tally \in Tally : Sums(tally, costs, of(m)) => Sums(Add(tally, payload), costs, of(m) \cup {j})
    BY <1>4, AddSums
  <1>8. \A m \in S : buckets[m] \in Tally /\ Sums(buckets[m], costs, of(m))
    BY <1>2, <1>3 DEF Broken, of
  <1>9. key \notin S => of(key) = {}
    BY <1>3 DEF of
  <1>10. ASSUME NEW m \in S \cup {key}
         PROVE  Sums(new[m], costs, more(m))
    <2> HIDE DEF payload
    <2>1. CASE m # key
      <3>1. m \in S /\ new[m] = buckets[m] /\ more(m) = of(m)
        BY <1>2, <1>4, <2>1 DEF AddTo
      <3> QED BY <1>8, <3>1
    <2>2. CASE m = key /\ key \in S
      <3>1. new[m] = Add(buckets[m], payload) /\ more(m) = of(m) \cup {j}
        BY <1>2, <1>4, <2>2 DEF AddTo
      <3>2. Sums(Add(buckets[m], payload), costs, of(m) \cup {j})
        BY <1>7, <1>8, <2>2
      <3> QED BY <3>1, <3>2
    <2>3. CASE m = key /\ key \notin S
      <3>1. new[m] = Add(EmptyTally, payload) /\ more(m) = of(m) \cup {j}
        BY <1>2, <1>4, <2>3 DEF AddTo
      <3>2. EmptyTally \in Tally /\ Sums(EmptyTally, costs, of(m))
        BY <1>9, <2>3, NoSums
      <3>3. Sums(Add(EmptyTally, payload), costs, of(m) \cup {j})
        BY <1>7, <3>2
      <3> QED BY <3>1, <3>3
    <2> QED BY <2>1, <2>2, <2>3
  <1> HIDE DEF new
  <1>11. Broken(new, keys, costs, j)
    BY <1>5, <1>6, <1>10 DEF Broken, more
  <1> QED BY <1>11 DEF new

\* Everything that is aggregated is accounted for.
LEMMA Aggregated ==
    ASSUME NEW costs \in Seq(Cost)
    PROVE  LET n == Len(costs)
               usage == Aggregate(costs)
           IN  /\ Sums(usage.total, costs, 1 .. n)
               /\ Broken(usage.by_model, [i \in DOMAIN costs |-> costs[i].model], costs, n)
               /\ Broken(usage.by_task, [i \in DOMAIN costs |-> costs[i].task], costs, n)
  <1> DEFINE n == Len(costs)
             models == [i \in DOMAIN costs |-> costs[i].model]
             tasks == [i \in DOMAIN costs |-> costs[i].task]
             Good(acc, k) == /\ Sums(acc.total, costs, 1 .. k)
                             /\ Broken(acc.by_model, models, costs, k)
                             /\ Broken(acc.by_task, tasks, costs, k)
  <1>1. n \in Nat /\ DOMAIN costs = 1 .. n /\ \A i \in 1 .. n : costs[i] \in Cost
    BY LenProperties, ElementOfSeq
  <1>2. PICK f \in [0 .. n -> Accounts] :
          /\ f[0] = NoAccounts /\ Aggregate(costs) = f[n]
          /\ \A k \in 1 .. n : f[k] = Account(f[k - 1], costs[k])
    BY AggregateSoFar
  <1>3. models \in [DOMAIN costs -> Models] /\ tasks \in [DOMAIN costs -> Tasks]
    BY <1>1 DEF Cost, Draft, Row
  <1> DEFINE good == {k \in 0 .. n : Good(f[k], k)}
  <1> HIDE DEF n
  <1>4. 0 \in good
    <2>1. 1 .. 0 = {} /\ 0 \in 0 .. n
      BY <1>1
    <2>2. Sums(EmptyTally, costs, 1 .. 0)
      BY <2>1, NoSums
    <2>3. DOMAIN NoBuckets = {}
      BY DEF NoBuckets
    <2>4. \A keys : Broken(NoBuckets, keys, costs, 0)
      BY <2>1, <2>3 DEF Broken
    <2>5. Good(NoAccounts, 0)
      BY <2>2, <2>4 DEF NoAccounts
    <2> HIDE DEF Good
    <2> QED BY <1>2, <2>1, <2>5
  <1>5. ASSUME NEW k \in 0 .. n - 1, k \in good
        PROVE  k + 1 \in good
    <2>1. k \in Nat /\ k + 1 \in DOMAIN costs /\ (k + 1) - 1 = k /\ k \in 0 .. n /\ k + 1 \in 0 .. n
          /\ 1 .. k + 1 = (1 .. k) \cup {k + 1} /\ k + 1 \in (DOMAIN costs) \ (1 .. k)
          /\ 1 .. k \in SUBSET (DOMAIN costs)
      BY <1>1
    <2>2. f[k + 1] = Account(f[k], costs[k + 1])
      BY <1>1, <1>2, <2>1
    <2> DEFINE acc == f[k]
               e == costs[k + 1]
    <2>3. acc \in Accounts /\ Good(acc, k)
      BY <1>2, <1>5, <2>1
    <2>4. acc.total \in Tally /\ acc.by_model \in Buckets(Models) /\ acc.by_task \in Buckets(Tasks)
      BY <2>3 DEF Accounts
    <2>5. models[k + 1] = e.model /\ tasks[k + 1] = e.task
      BY <2>1
    <2> HIDE DEF models, tasks, acc
    <2>6. Sums(Add(acc.total, CostPayload(e)), costs, 1 .. k + 1)
      <3> DEFINE first == 1 .. k
                 j == k + 1
      <3>1. /\ first \in SUBSET (DOMAIN costs) /\ j \in (DOMAIN costs) \ first
            /\ acc.total \in Tally /\ Sums(acc.total, costs, first)
        BY <2>1, <2>3, <2>4
      <3> HIDE DEF first, j
      <3>2. Sums(Add(acc.total, CostPayload(costs[j])), costs, first \cup {j})
        BY <3>1, AddSums
      <3> QED BY <2>1, <3>2 DEF first, j
    <2>7. Broken(AddTo(acc.by_model, e.model, CostPayload(e)), models, costs, k + 1)
      BY <1>3, <2>1, <2>3, <2>4, <2>5, BucketSums
    <2>8. Broken(AddTo(acc.by_task, e.task, CostPayload(e)), tasks, costs, k + 1)
      BY <1>3, <2>1, <2>3, <2>4, <2>5, BucketSums
    <2>9. Good(f[k + 1], k + 1)
      BY <2>2, <2>6, <2>7, <2>8 DEF Account, acc
    <2> HIDE DEF Good
    <2> QED BY <2>1, <2>9
  <1>6. 0 .. n \subseteq good
    <2> HIDE DEF good
    <2> QED BY <1>1, <1>4, <1>5, UpTo
  <1>7. n \in 0 .. n
    BY <1>1
  <1>8. Good(f[n], n)
    BY <1>6, <1>7
  <1> QED BY <1>2, <1>8 DEF n

\* into_usage hides only what is not known.
LEMMA SumsAccount ==
    ASSUME NEW costs \in Seq(Cost), NEW tally, NEW of, Sums(tally, costs, of)
    PROVE  AccountsFor(tally, costs, of)
  <1>1. Clear(costs, of) = {i \in of : costs[i].clear}
        /\ WithPrice(costs, of) = {i \in {i \in of : costs[i].clear} : costs[i].payload.cost # Absent}
    BY DEF Clear, WithPrice
  <1>2. \A field \in {"input", "output"} :
          IntoUsage(tally)[field] = IF Clear(costs, of) = {} THEN Absent
                                    ELSE Total(Part(costs, field, Clear(costs, of)))
    BY DEF Sums, IntoUsage
  <1> QED BY <1>1, <1>2 DEF AccountsFor, Sums, Part

-----------------------------------------------------------------------------
(* What it implies *)

\* Every variable has its type: rows are of known kinds and turns, their ids
\* increase, and decisions are routes (trace.rs, cost.rs).
THEOREM TypeCorrect == LedgerSpec => []LedgerTypeOK
  <1>1. Booked => LedgerTypeOK
    <2> SUFFICES ASSUME Booked
                 PROVE  LedgerTypeOK
      OBVIOUS
    <2>1. Kept /\ Controls /\ Counters
      BY DEF Booked, Shapes
    <2>2. /\ \A i \in DOMAIN events : events[i] \in Row
          /\ \A i \in DOMAIN decisions : decisions[i] \in Decided
      BY <2>1, LenProperties, ElementOfSeq DEF Kept, Controls, Draft
    <2>3. /\ \A i \in DOMAIN events : events[i].kind \in Kinds /\ events[i].turn \in TurnIds
          /\ \A i \in DOMAIN decisions : decisions[i].route \in Routes
      BY <2>2 DEF Row, Decided
    <2>4. \A t \in TurnIds : sealing[t] \subseteq 1 .. next
      BY <2>1 DEF Controls
    <2>5. {fails, purges} \subseteq 0 .. MaxExtras /\ reads \in 0 .. MaxReads
      BY <2>1, LedgerAssumption DEF Counters
    <2> QED BY <2>1, <2>3, <2>4, <2>5 DEF LedgerTypeOK, Kept, Controls
  <1> QED BY <1>1, AlwaysBooked, PTL

\* A turn that completed is charged once, with the tokens its last call
\* reported, whatever superseded turns, continuations and sweeps do between
\* the call and the write of its cost event (record_cost_event and
\* finish_completed).
THEOREM TurnsChargedOnce == LedgerSpec => []ChargedOnce
  <1>1. Booked => ChargedOnce
    <2> SUFFICES ASSUME Booked, NEW t \in TurnIds
                 PROVE  /\ \A i, j \in Charges(t) : i = j
                        /\ \A i \in Charges(t) :
                             /\ events[i].payload.input = returned[t].usage.input
                             /\ events[i].payload.output = returned[t].usage.output
                        /\ (pc[t] \in {"seal", "done"} /\ t \notin lost /\ purges = 0)
                             => Charges(t) # {}
      BY DEF ChargedOnce
    <2>1. Charged(t)
      BY DEF Booked
    <2>2. writing[t] = <<>> => Queued(t) = {}
      BY DEF Queued
    <2> HIDE DEF Charges, Queued
    <2> QED BY <2>1, <2>2 DEF Charged, Says
  <1> QED BY <1>1, AlwaysBooked, PTL

\* What a continuation records carries the route of the turn that paused
\* (continuation_trace_context).
THEOREM RoutesCarried == LedgerSpec => []RouteCarried
  BY AlwaysBooked, PTL DEF Booked

\* A paged reading misses no event that was there when it began, in whatever
\* order the turns that write meanwhile draw and store their rows
\* (get_session_trace_events, and get_traces of the CLI).
THEOREM PagesAreComplete == LedgerSpec => []PagesComplete
  <1>1. Booked => PagesComplete
    BY DEF Booked, ReadSoFar, PagesComplete
  <1> QED BY <1>1, AlwaysBooked, PTL

\* The usage report accounts for every cost event that is stored (usage.rs).
THEOREM ReportsAddUp == LedgerSpec => []ReportAddsUp
  <1>1. Booked => ReportAddsUp
    <2> SUFFICES ASSUME Booked
                 PROVE  ReportAddsUp
      OBVIOUS
    <2> DEFINE costs == Costs
               n == Len(costs)
               models == [i \in DOMAIN costs |-> costs[i].model]
               tasks == [i \in DOMAIN costs |-> costs[i].task]
               usage == Aggregate(costs)
    <2>1. costs \in Seq(Cost)
      BY CostsSoFar DEF Booked, Shapes, Kept
    <2>2. Usage = usage
      BY DEF Usage
    <2> HIDE DEF costs
    <2>3. DOMAIN costs = 1 .. n
      BY <2>1, LenProperties
    <2>4. /\ Sums(usage.total, costs, 1 .. n)
          /\ Broken(usage.by_model, models, costs, n)
          /\ Broken(usage.by_task, tasks, costs, n)
      BY <2>1, Aggregated
    <2> HIDE DEF usage, n
    <2>5. AccountsFor(usage.total, costs, DOMAIN costs)
      BY <2>1, <2>3, <2>4, SumsAccount
    <2>6. DOMAIN usage.by_model = {costs[i].model : i \in DOMAIN costs}
      BY <2>3, <2>4 DEF Broken
    <2>7. DOMAIN usage.by_task = {costs[i].task : i \in DOMAIN costs}
      BY <2>3, <2>4 DEF Broken
    <2>8. ASSUME NEW m \in DOMAIN usage.by_model
          PROVE  AccountsFor(usage.by_model[m], costs, {i \in DOMAIN costs : costs[i]["model"] = m})
      <3>1. {i \in 1 .. n : models[i] = m} = {i \in DOMAIN costs : costs[i]["model"] = m}
        BY <2>3
      <3> QED BY <2>1, <2>4, <2>8, <3>1, SumsAccount DEF Broken
    <2>9. ASSUME NEW t \in DOMAIN usage.by_task
          PROVE  AccountsFor(usage.by_task[t], costs, {i \in DOMAIN costs : costs[i]["task"] = t})
      <3>1. {i \in 1 .. n : tasks[i] = t} = {i \in DOMAIN costs : costs[i]["task"] = t}
        BY <2>3
      <3> QED BY <2>1, <2>4, <2>9, <3>1, SumsAccount DEF Broken
    <2> QED BY <2>2, <2>5, <2>6, <2>7, <2>8, <2>9 DEF ReportAddsUp, costs
  <1> QED BY <1>1, AlwaysBooked, PTL

==============================================================================
