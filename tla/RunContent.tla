---------------------------- MODULE RunContent ----------------------------
(***************************************************************************)
(* What a run stores and what the model is shown, in a plaintext or an     *)
(* end-to-end encrypted session.                                           *)
(*                                                                         *)
(* The requests of one session are served one at a time here (RunLock is   *)
(* about their interleaving): each continuation is answered by its handler *)
(* in crates/smista-router/src/orchestrator.rs, which starts a turn of     *)
(* orchestrator/turn.rs, and the turn ends at a checkpoint.  The router    *)
(* has no key: what it writes for an encrypted session is deferred until   *)
(* the client returns it sealed, and what it reads must be opened first.   *)
(*                                                                         *)
(* Abstractions.  User texts are numbered in the order they are sent; an   *)
(* assistant message carries the number of the input it answers.  Content  *)
(* references are kept by kind: the rows of one kind that a pause defers,  *)
(* or that recall finds sealed, travel together.  Diff rows travel with    *)
(* their tool calls.  Approval kinds other than Plan are never raised.     *)
(***************************************************************************)
EXTENDS Naturals, Sequences

CONSTANTS
    Encryption,    \* which sessions there are: encrypted, plaintext, both
    Injects,       \* whether clients inject
    Echoes,        \* whether `decrypted` repeats the text it was asked to seal
    Omissions,     \* kinds of content a careless client forgets to seal
    MaxTexts,      \* bound: user texts sent to the session
    MaxMessages,   \* bound: message rows, stored and deferred
    None           \* absence of a turn

Refs == {"message", "tool_call", "plan", "memory", "trace", "run_input"}

ASSUME EncryptionAssumption == Encryption \subseteq BOOLEAN

ASSUME ClientAssumption == Injects \in BOOLEAN /\ Echoes \in BOOLEAN

ASSUME OmissionsAssumption == Omissions \subseteq Refs

ASSUME BoundsAssumption == MaxTexts \in Nat /\ MaxMessages \in Nat

VARIABLES
    encrypted,   \* session.encrypted; never changes
    phase,       \* session_run_state.phase; "none" before the first run
    pending,     \* the message rows the phase defers
    history,     \* session_message rows, oldest first
    bundle,      \* session_run_input_content: how it is stored, whose text
    planActive,  \* session_run_input.plan_active
    approved,    \* the run's plan row is Approved
    memory,      \* how session memory rows are stored, of those there are
    traces,      \* how trace rows are stored
    offer,       \* the to_encrypt and to_decrypt kinds of the last response
    turn,        \* the turn being served, or None
    texts,       \* number of user texts sent
    answer       \* what the client last contributed: its kind and its text

rows == <<encrypted, history, bundle, planActive, approved, memory, traces>>
checkpoint == <<phase, pending, offer>>
client == <<texts, answer>>
vars == <<rows, checkpoint, turn, client>>

-----------------------------------------------------------------------------
(* Types *)

PhaseKinds == {"none", "idle", "awaiting_tool", "awaiting_approval",
               "awaiting_decrypt", "awaiting_encrypt"}

Texts == 1..MaxTexts

Messages == [role : {"user", "assistant"}, text : Texts]

Rows == [role : {"user", "assistant"}, text : Texts, sealed : BOOLEAN]

Storage == {"clear", "sealed"}

Bundles == [is : {"none", "clear", "placeholder", "sealed"}, text : 0..MaxTexts]

Answers == [kind : {"none", "input", "results", "approval"}, text : 0..MaxTexts]

Offers == [toEncrypt : SUBSET Refs, toDecrypt : SUBSET Refs]

\* TurnCx and the locals of run_turn_inner.  A Loaded bundle has its text, a
\* Stored one is read when the turn recalls.
Turns == [at : {"recall", "invoke"}, stored : BOOLEAN, input : Texts,
          recorded : BOOLEAN, results : BOOLEAN, seals : BOOLEAN,
          opened : SUBSET Refs, planning : BOOLEAN, deferred : Seq(Messages)]

ASSUME NoneAssumption == None \notin Turns

TypeOK ==
    /\ encrypted \in BOOLEAN
    /\ phase \in PhaseKinds
    /\ pending \in Seq(Messages)
    /\ history \in Seq(Rows)
    /\ bundle \in Bundles
    /\ planActive \in BOOLEAN
    /\ approved \in BOOLEAN
    /\ memory \in SUBSET Storage
    /\ traces \in SUBSET Storage
    /\ offer \in Offers
    /\ turn \in Turns \cup {None}
    /\ texts \in 0..MaxTexts
    /\ answer \in Answers

NoOffer == [toEncrypt |-> {}, toDecrypt |-> {}]

Init ==
    /\ encrypted \in Encryption
    /\ phase = "none" /\ pending = <<>> /\ offer = NoOffer
    /\ history = <<>>
    /\ bundle = [is |-> "none", text |-> 0]
    /\ planActive = FALSE /\ approved = FALSE
    /\ memory = {} /\ traces = {}
    /\ turn = None
    /\ texts = 0
    /\ answer = [kind |-> "none", text |-> 0]

-----------------------------------------------------------------------------
(* Helpers *)

Stored(message, sealed) ==
    [role |-> message.role, text |-> message.text, sealed |-> sealed]

\* The deferred messages become sealed rows.
FlushPendingMessages ==
    history' = history \o [i \in 1..Len(pending) |-> Stored(pending[i], TRUE)]

\* The content the phase deferred, besides the run input.
PendingRefs ==
    IF ~encrypted THEN {}
    ELSE CASE phase = "awaiting_tool" -> {"message", "tool_call"}
           [] phase = "awaiting_approval" ->
                {"plan"} \cup (IF pending = <<>> THEN {} ELSE {"message"})
           [] phase = "awaiting_encrypt" -> {"message"}
           [] OTHER -> {}

\* Mutant: only the pending rows are required.
RequiredSealsPending == PendingRefs

\* What validate_required_seals asks for: the pending rows, and the run input
\* as long as its row is the placeholder.
RequiredSeals ==
    PendingRefs \cup (IF bundle.is = "placeholder" THEN {"run_input"} ELSE {})

\* A continuation carries what the response asked to seal, the tool results
\* the client seals itself, and nothing it forgot.
Seals(S) ==
    \E forgotten \in SUBSET Omissions :
        S = (offer.toEncrypt \cup
             (IF phase = "awaiting_tool" /\ encrypted THEN {"tool_call"}
                                                     ELSE {})) \ forgotten

Reseal(kind, S, stored) ==
    IF kind \in S /\ "clear" \in stored THEN {"sealed"} ELSE stored

ResealRunInput(S) ==
    bundle' = IF "run_input" \in S THEN [bundle EXCEPT !.is = "sealed"]
                                   ELSE bundle

\* The next turn, for a continuation that answers a pause.  Only a turn that
\* resumes at BuildPrompt records the user message.
Resume(step, results, opened, planning) ==
    turn' = [at |-> "recall", stored |-> TRUE, input |-> bundle.text,
             recorded |-> step # "build_prompt", results |-> results,
             seals |-> FALSE, opened |-> opened, planning |-> planning,
             deferred |-> <<>>]

\* A turn on a bundle in memory: a new run, or an injection.
Start(text, seals, planning) ==
    turn' = [at |-> "recall", stored |-> FALSE, input |-> text,
             recorded |-> FALSE, results |-> FALSE, seals |-> seals,
             opened |-> {}, planning |-> planning, deferred |-> <<>>]

\* The run comes to rest at Idle.
ToIdle ==
    /\ phase' = "idle" /\ pending' = <<>> /\ offer' = NoOffer
    /\ turn' = None

\* Session memory the model writes while it generates is stored in clear.
MemoryTool == memory' = memory \/ memory' = memory \cup {"clear"}

-----------------------------------------------------------------------------
(* Requests *)

\* Mutant: the bundle of an encrypted run is stored as it came.
PersistRunInputClear(text) == bundle' = [is |-> "clear", text |-> text]

\* The request is stored, or a placeholder until the client sealed it.
PersistRunInput(text) ==
    bundle' = [is |-> IF encrypted THEN "placeholder" ELSE "clear",
               text |-> text]

Execute ==
    /\ turn = None
    /\ texts < MaxTexts
    /\ texts' = texts + 1
    /\ answer' = [kind |-> "input", text |-> texts']
    /\ PersistRunInput(texts')
    /\ \E planning \in BOOLEAN :
          /\ planActive' = planning
          /\ Start(texts', encrypted, planning)
    /\ approved' = FALSE
    /\ phase' = "idle" /\ pending' = <<>> /\ offer' = NoOffer
    /\ UNCHANGED <<encrypted, history, memory, traces>>

\* The handlers validate the seals before anything is written.
Accepts(kind, S) ==
    /\ turn = None
    /\ phase = kind
    /\ Seals(S)
    /\ RequiredSeals \subseteq S \/ ~encrypted

\* A continuation without a required seal leaves the checkpoint as it is.
RejectSeals ==
    /\ turn = None
    /\ phase \notin {"none", "idle"}
    /\ \E S \in SUBSET Refs : Seals(S) /\ encrypted /\ ~(RequiredSeals \subseteq S)
    /\ UNCHANGED vars

\* Mutant: the results are recorded and not handed to the turn.
ResumeToolResultsDropped ==
    \E S \in SUBSET Refs :
        /\ Accepts("awaiting_tool", S)
        /\ FlushPendingMessages
        /\ ResealRunInput(S)
        /\ traces' = traces \cup {"clear"}
        /\ Resume("next_turn", FALSE, {}, planActive)
        /\ answer' = [kind |-> "results", text |-> bundle.text]
        /\ UNCHANGED <<encrypted, planActive, approved, memory, checkpoint,
                       texts>>

ResumeToolResults ==
    \E S \in SUBSET Refs :
        /\ Accepts("awaiting_tool", S)
        /\ FlushPendingMessages
        /\ ResealRunInput(S)
        /\ traces' = traces \cup {"clear"}
        /\ Resume("next_turn", TRUE, {}, planActive)
        /\ answer' = [kind |-> "results", text |-> bundle.text]
        /\ UNCHANGED <<encrypted, planActive, approved, memory, checkpoint,
                       texts>>

\* Mutant: plan mode is left for this turn only.
ApprovePlanThisTurn ==
    \E S \in SUBSET Refs :
        /\ Accepts("awaiting_approval", S)
        /\ FlushPendingMessages
        /\ ResealRunInput(S)
        /\ traces' = traces \cup {"clear"}
        /\ approved' = TRUE
        /\ Resume("next_turn", FALSE, {}, FALSE)
        /\ answer' = [kind |-> "approval", text |-> bundle.text]
        /\ UNCHANGED <<encrypted, planActive, memory, checkpoint, texts>>

\* The plan is approved and plan mode is left, in the stored run input too.
ApprovePlan ==
    \E S \in SUBSET Refs :
        /\ Accepts("awaiting_approval", S)
        /\ FlushPendingMessages
        /\ ResealRunInput(S)
        /\ traces' = traces \cup {"clear"}
        /\ approved' = TRUE
        /\ planActive' = FALSE
        /\ Resume("next_turn", FALSE, {}, FALSE)
        /\ answer' = [kind |-> "approval", text |-> bundle.text]
        /\ UNCHANGED <<encrypted, memory, checkpoint, texts>>

RejectPlan ==
    \E S \in SUBSET Refs :
        /\ Accepts("awaiting_approval", S)
        /\ FlushPendingMessages
        /\ ResealRunInput(S)
        /\ traces' = traces \cup {"clear"}
        /\ ToIdle
        /\ UNCHANGED <<encrypted, planActive, approved, memory, client>>

\* The plaintext a client returns: what it was asked to open and, from the
\* CLI, what it was asked to seal.
Opened == offer.toDecrypt \cup (IF Echoes THEN offer.toEncrypt ELSE {})

\* The turn starts over with what this continuation opened, and only that.
ResumeDecrypted ==
    \E S \in SUBSET Refs :
        /\ Accepts("awaiting_decrypt", S)
        /\ ResealRunInput(S)
        /\ Resume("build_prompt", FALSE, Opened, planActive)
        /\ UNCHANGED <<encrypted, history, planActive, approved, memory,
                       traces, checkpoint, client>>

\* Mutant: the trace rows are not sealed with the rest.
ResumeSealedNoTraces ==
    \E S \in SUBSET Refs :
        /\ Accepts("awaiting_encrypt", S)
        /\ FlushPendingMessages
        /\ memory' = Reseal("memory", S, memory)
        /\ ResealRunInput(S)
        /\ ToIdle
        /\ UNCHANGED <<encrypted, planActive, approved, traces, client>>

ResumeSealed ==
    \E S \in SUBSET Refs :
        /\ Accepts("awaiting_encrypt", S)
        /\ FlushPendingMessages
        /\ memory' = Reseal("memory", S, memory)
        /\ traces' = Reseal("trace", S, traces)
        /\ ResealRunInput(S)
        /\ ToIdle
        /\ UNCHANGED <<encrypted, planActive, approved, client>>

\* The outstanding calls of an encrypted pause are not stored yet, so failing
\* them is an error.
CallRowMissing == encrypted /\ phase = "awaiting_tool"

\* The injected bundle is used for this turn and not stored.
ResumeInject ==
    /\ Injects
    /\ turn = None /\ phase # "none" /\ ~CallRowMissing
    /\ texts < MaxTexts
    /\ texts' = texts + 1
    /\ answer' = [kind |-> "input", text |-> texts']
    /\ Start(texts', FALSE, planActive)
    /\ UNCHANGED <<rows, checkpoint>>

\* A break and a supersede that fails both bring the run to Idle.
ResumeBreak ==
    /\ turn = None /\ phase # "none"
    /\ ToIdle
    /\ UNCHANGED <<rows, client>>

-----------------------------------------------------------------------------
(* The turn *)

\* What must be opened before the prompt can be built: sealed messages and
\* session memory, and the stored bundle when it is sealed.
SealedNeeds(t) ==
    ((IF \E i \in 1..Len(history) : history[i].sealed
      THEN {"message"} ELSE {})
     \cup (IF "sealed" \in memory THEN {"memory"} ELSE {})
     \cup (IF t.stored /\ bundle.is = "sealed" THEN {"run_input"} ELSE {}))
    \ t.opened

Recalling == turn # None /\ turn.at = "recall"

Invoking == turn # None /\ turn.at = "invoke"

\* The seal of the run input rides on the pause of the turn that authored it.
SealedByRun == IF turn.seals THEN {"run_input"} ELSE {}

PauseForDecrypt ==
    /\ Recalling
    /\ SealedNeeds(turn) # {}
    /\ phase' = "awaiting_decrypt" /\ pending' = <<>>
    /\ offer' = [toEncrypt |-> SealedByRun, toDecrypt |-> SealedNeeds(turn)]
    /\ turn' = None
    /\ UNCHANGED <<rows, client>>

\* A message is stored in clear, or deferred.
AuthorMessage(t, role) ==
    LET message == [role |-> role, text |-> t.input]
    IN  IF encrypted
        THEN [history |-> history, deferred |-> Append(t.deferred, message)]
        ELSE [history |-> Append(history, Stored(message, FALSE)),
              deferred |-> t.deferred]

Room == Len(history) + Len(turn.deferred) + 2 <= MaxMessages

\* Recall is complete: the route is resolved and traced, the user message is
\* recorded unless the turn resumes behind it, and the model is invoked.
BuildPrompt ==
    /\ Recalling
    /\ SealedNeeds(turn) = {}
    /\ turn.stored => bundle.is # "placeholder"
    /\ Room
    /\ traces' = traces \cup {"clear"}
    /\ LET authored == AuthorMessage(turn, "user")
       IN  IF turn.recorded
           THEN /\ turn' = [turn EXCEPT !.at = "invoke"]
                /\ UNCHANGED history
           ELSE /\ turn' = [turn EXCEPT !.at = "invoke", !.recorded = TRUE,
                                        !.deferred = authored.deferred]
                /\ history' = authored.history
    /\ UNCHANGED <<encrypted, bundle, planActive, approved, memory,
                   checkpoint, client>>

\* Every call was refused: the refusals are fed back within the turn.
AllDenied ==
    /\ Invoking
    /\ turn' = [turn EXCEPT !.at = "recall"]
    /\ MemoryTool
    /\ UNCHANGED <<encrypted, history, bundle, planActive, approved, traces,
                   checkpoint, client>>

PauseForTools ==
    /\ Invoking
    /\ LET authored == AuthorMessage(turn, "assistant")
       IN  /\ history' = authored.history
           /\ pending' = authored.deferred
    /\ phase' = "awaiting_tool"
    /\ offer' = [toEncrypt |-> IF encrypted THEN {"message"} \cup SealedByRun
                                            ELSE {},
                 toDecrypt |-> {}]
    /\ MemoryTool
    /\ turn' = None
    /\ UNCHANGED <<encrypted, bundle, planActive, approved, traces, client>>

PauseForApproval ==
    /\ Invoking
    /\ turn.planning
    /\ phase' = "awaiting_approval"
    /\ pending' = turn.deferred
    /\ offer' = [toEncrypt |->
                   IF encrypted
                   THEN {"plan"} \cup SealedByRun
                        \cup (IF turn.deferred = <<>> THEN {} ELSE {"message"})
                   ELSE {},
                 toDecrypt |-> {}]
    /\ MemoryTool
    /\ turn' = None
    /\ UNCHANGED <<encrypted, history, bundle, planActive, approved, traces,
                   client>>

\* The rows that were stored in clear while the run proceeded.
LeftInClear ==
    (IF "clear" \in memory' THEN {"memory"} ELSE {})
    \cup (IF "clear" \in traces THEN {"trace"} ELSE {})

FinishCompleted ==
    /\ Invoking
    /\ ~turn.planning
    /\ MemoryTool
    /\ LET authored == AuthorMessage(turn, "assistant")
       IN  /\ history' = authored.history
           /\ pending' = authored.deferred
    /\ phase' = IF encrypted THEN "awaiting_encrypt" ELSE "idle"
    /\ offer' = [toEncrypt |-> IF encrypted
                               THEN {"message"} \cup SealedByRun \cup LeftInClear
                               ELSE {},
                 toDecrypt |-> {}]
    /\ turn' = None
    /\ UNCHANGED <<encrypted, bundle, planActive, approved, traces, client>>

\* No route, an unreadable bundle, a provider or a storage error: what the
\* turn deferred is lost and the run returns to Idle.
TurnFails ==
    /\ turn # None
    /\ ToIdle
    /\ UNCHANGED <<rows, client>>

-----------------------------------------------------------------------------
Next ==
    \/ Execute \/ RejectSeals
    \/ ResumeToolResults \/ ApprovePlan \/ RejectPlan
    \/ ResumeDecrypted \/ ResumeSealed
    \/ ResumeInject \/ ResumeBreak
    \/ PauseForDecrypt \/ BuildPrompt
    \/ AllDenied \/ PauseForTools \/ PauseForApproval \/ FinishCompleted
    \/ TurnFails

Spec == Init /\ [][Next]_vars

\* Some step of the turn that is being served.
TurnStep ==
    \/ PauseForDecrypt \/ BuildPrompt
    \/ AllDenied \/ PauseForTools \/ PauseForApproval \/ FinishCompleted
    \/ TurnFails

\* The runtime drives a turn to its end, and the client answers a decrypt
\* pause by itself (handle_turn_end of the CLI).
FairSpec == Spec /\ WF_vars(TurnStep) /\ WF_vars(ResumeDecrypted)

-----------------------------------------------------------------------------
(* Properties *)

\* The router keeps no readable message or request of an encrypted session:
\* rows are written sealed and the run input is a placeholder until it is
\* sealed (author_message, persist_run_input).
StoredSealed ==
    encrypted => /\ \A i \in 1..Len(history) : history[i].sealed
                 /\ bundle.is # "clear"

\* A turn never has to parse the placeholder: every continuation that makes a
\* later turn read the stored bundle was made to seal it first
\* (validate_required_seals before run_continuation_turn).
PlaceholderNeverParsed ==
    turn # None /\ turn.stored => bundle.is # "placeholder"

\* Every pause can be answered from its own response: what its handler will
\* require sealed was in to_encrypt, or is a tool result.
PauseAnswerable ==
    turn = None /\ phase \notin {"none", "idle"} /\ encrypted =>
        RequiredSeals \subseteq offer.toEncrypt \cup {"tool_call"}

\* An accepted plan ends plan mode for the run: no later turn, also not after
\* a decrypt pause or tool results, drafts a plan again.
NoPlanAfterApproval == approved => phase # "awaiting_approval" \/ turn # None

\* Opening everything that was asked for is enough: the turn that starts from
\* it does not pause to decrypt again.
AskedIsEnough ==
    [][turn = None /\ turn' # None /\ phase = "awaiting_decrypt"
         /\ turn'.stored => SealedNeeds(turn)' = {}]_vars

\* A decrypt pause is over at some time: the model is invoked, or the run moves
\* on to another checkpoint.
DecryptEnds ==
    phase = "awaiting_decrypt" ~> (phase # "awaiting_decrypt" \/ Invoking)

\* Sealing leaves nothing behind: once a client that forgets no memory or trace
\* sealed a completed run, no such row of the session is readable, those of
\* runs that were broken off before included (finish_completed offers all of
\* them, reseal_memory and reseal_traces write what comes back).
SealedLeavesNothingClear ==
    [][phase = "awaiting_encrypt" /\ Len(history') > Len(history)
       => "clear" \notin memory' \cup traces' /\ bundle'.is = "sealed"]_vars

\* The tool results a client returned are in the next prompt.
ResultsAlwaysSeen ==
    Invoking /\ answer.kind = "results" => turn.results

\* In a plaintext session the tool results a client returned are in the next
\* prompt: nothing comes between them and the turn they start (the followups of
\* resume_tool_results).
ModelSeesResults == ~encrypted => ResultsAlwaysSeen

\* In a plaintext session the text a client sent, by execute or by inject, is the
\* input of the next prompt.
ModelSeesInput ==
    ~encrypted /\ Invoking /\ answer.kind = "input" => turn.input = answer.text

\* A user message is recorded once.
UserMessageOnce ==
    \A i, j \in 1..Len(history) :
        history[i].role = "user" /\ history[j].role = "user"
        /\ history[i].text = history[j].text => i = j

\* In the stored conversation the user's message precedes every reply to it.
UserMessageFirst ==
    \A i \in 1..Len(history) :
        history[i].role = "assistant" =>
            \E j \in 1..(i - 1) :
                history[j].role = "user" /\ history[j].text = history[i].text

=============================================================================
