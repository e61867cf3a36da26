------------------------------ MODULE Terminal ------------------------------
(***************************************************************************)
(* The terminal interface of the interactive client on its own: the prompt *)
(* with its slash commands and file completion, the recall of earlier      *)
(* prompts, the lists that replace the console, the cursor of an approval  *)
(* prompt, and the transcript that is printed above the viewport           *)
(* (src/crates/smista-cli/src/app/tui.rs, app/tui/input.rs,                *)
(* app/tui/state.rs and app/tui/state/, app/input_listener.rs).            *)
(*                                                                         *)
(* Key events and messages of the worker arrive in any order; each is      *)
(* handled to its end, the drawing of the view included.  A text is a      *)
(* sequence of characters of a small alphabet.  The code counts characters *)
(* for cursors and bytes for the start of a mention; both are character    *)
(* counts here.                                                            *)
(***************************************************************************)
EXTENDS Naturals, Sequences, FiniteSets, SequencesExt

CONSTANTS
  Letters,       \* the characters other than "/", "@", " " and newline
  Names,         \* the command names in the order of COMMAND_SPECS
  KindOf,        \* command name -> what the command does
  Listing,       \* directory (a path that ends in "/", or empty) -> its names
  Models,        \* the names of the models a ModelsList holds
  SessionIds,    \* the texts that are session ids
  AutoName,      \* MODEL_AUTO
  Pastes,        \* the texts the user may paste
  HistoryLimit,  \* PROMPT_HISTORY_LIMIT (100)
  PageStep,      \* PAGE_STEP (8)
  MaxText,       \* bound: length of a text the user types
  MaxKeys,       \* bound: key events
  MaxMsgs        \* bound: messages of the worker

NewLine == "\n"
Space == " "
Slash == "/"
AtSign == "@"
White == {Space, NewLine}
Chars == Letters \cup White \cup {Slash, AtSign}
Texts == Seq(Chars)

Kinds == {"Chat", "Plan", "Help", "Skills", "Logs", "Model", "Preview",
          "Resume", "Quit", "Ask"}
Lists == {"Help", "Models", "Providers", "Sessions", "Skills"}
Turns == {"None", "Running", "Ask2", "Ask3"}

ASSUME TerminalAssumption ==
  /\ Names \in Seq(Seq(Letters)) /\ KindOf \in [Range(Names) -> Kinds]
  /\ \A i \in DOMAIN Names : Names[i] # <<>>
  /\ DOMAIN Listing \subseteq Texts /\ <<>> \in DOMAIN Listing
  /\ \A d \in DOMAIN Listing : Listing[d] \in Seq(Texts)
  /\ Pastes \cup SessionIds \cup {AutoName} \subseteq Texts
  /\ Models \in Seq(Texts)
  /\ {HistoryLimit, PageStep} \subseteq Nat \ {0}
  /\ {MaxText, MaxKeys, MaxMsgs} \subseteq Nat

VARIABLES
  prompt,    \* PromptState of the console
  recall,    \* prompt history and the recalled index, 0 for none
  view,      \* the active component and, in a list, its size and selection
  turn,      \* the execution turn: none, running, or an approval
  thinking,  \* the router state is Thinking
  option,    \* approval_option_index of the console
  chosen,    \* preferred model, awaited model and plan mode
  history,   \* transcript entries, by number
  printed,   \* printed_history_entries
  up,        \* the exit token is not cancelled
  pushed,    \* history: number of entries ever pushed
  screen,    \* history: transcript entries printed since the screen was cleared
  resumed,   \* history: a session was resumed since then
  keys, msgs

state == <<view, turn, thinking, option, chosen, up>>
transcript == <<history, printed, pushed, screen, resumed>>
terminalVars == <<prompt, recall, state, transcript, keys, msgs>>

-----------------------------------------------------------------------------
(* The prompt.                                                             *)

Prompt(kind, input, cursor) ==
  [kind |-> kind, input |-> input, cursor |-> cursor, parsed |-> <<>>,
   start |-> 0, command |-> FALSE, matches |-> <<>>, selected |-> 0]

EmptyPrompt == Prompt("Empty", <<>>, 0)
TextPrompt(input) == Prompt("Text", input, Len(input))

\* The parse is kept beside the input of a command and refreshed by reparse.
CommandPrompt(input) ==
  [Prompt("Command", input, Len(input)) EXCEPT !.parsed = input]

\* A mention begins behind its "@", and the cursor is behind the input.
FilePrompt(input, command) ==
  [Prompt("File", input, Len(input)) EXCEPT !.start = Len(input),
                                            !.command = command]

\* split_command_input: the word before the first white space, and the rest.
Word(input) ==
  LET i == SelectInSeq(input, LAMBDA c : c \in White)
  IN IF i = 0 THEN input ELSE SubSeq(input, 1, i - 1)

TrimStart(s) ==
  LET i == SelectInSeq(s, LAMBDA c : c \notin White)
  IN IF i = 0 THEN <<>> ELSE SubSeq(s, i, Len(s))
Trim(s) == Reverse(TrimStart(Reverse(TrimStart(s))))

Args(input) == TrimStart(SubSeq(input, Len(Word(input)) + 2, Len(input)))

CommandOf(p) == Word(p.parsed)
Resolved(p) == CommandOf(p) \in Range(Names)

Preview(name) == name \in Range(Names) /\ KindOf[name] = "Preview"

\* command_suggestion: the first name that the word begins, but is not.
NoSuggestion == <<>>
CommandSuggestion(word) ==
  LET i == SelectInSeq(Names, LAMBDA n : IsPrefix(word, n) /\ n # word)
  IN IF word = <<>> \/ i = 0 THEN NoSuggestion ELSE Names[i]

\* Mutant: the parse is refreshed only when the input grew.
ReparseLonger(p) ==
  IF Len(p.input) > Len(p.parsed) THEN [p EXCEPT !.parsed = p.input] ELSE p

Reparse(p) == [p EXCEPT !.parsed = p.input]

\* input() and cursor_position(): the slash of a command is not in its input.
Rendered(p) == IF p.kind = "Command" THEN <<Slash>> \o p.input ELSE p.input
CursorPosition(p) == IF p.kind = "Command" THEN p.cursor + 1 ELSE p.cursor

AtEnd(p) == p.cursor = Len(p.input)

Inserted(p, c) ==
  [p EXCEPT !.input = InsertAt(@, p.cursor + 1, c), !.cursor = @ + 1,
            !.matches = <<>>, !.selected = 0]

\* Mutant: the slash of a command is kept in its input.
WithoutFileAutocompleteSlash(p) ==
  IF p.command THEN CommandPrompt(p.input)
  ELSE [TextPrompt(p.input) EXCEPT !.cursor = p.cursor]

\* state_without_file_autocomplete: back to a command or to a text.
WithoutFileAutocomplete(p) ==
  IF p.command
    THEN [CommandPrompt(Tail(p.input)) EXCEPT
            !.cursor = IF p.cursor = 0 THEN 0 ELSE p.cursor - 1]
  ELSE [TextPrompt(p.input) EXCEPT !.cursor = p.cursor]

\* A character at the cursor; it may begin or end a command or a mention.
Push(p, c) ==
  CASE p.kind = "Empty" /\ c = Slash -> CommandPrompt(<<>>)
    [] p.kind = "Empty" /\ c = AtSign -> FilePrompt(<<AtSign>>, FALSE)
    [] p.kind = "Empty" /\ c \notin {Slash, AtSign} -> TextPrompt(<<c>>)
    [] p.kind = "Text" ->
         IF c = AtSign /\ AtEnd(p) THEN FilePrompt(Append(p.input, c), FALSE)
         ELSE Inserted(p, c)
    [] p.kind = "File" ->
         IF c \in White THEN WithoutFileAutocomplete(Inserted(p, c))
         ELSE Inserted(p, c)
    [] p.kind = "Command" ->
         IF c = AtSign /\ Preview(CommandOf(p)) /\ AtEnd(p)
           THEN FilePrompt(Rendered(Inserted(p, c)), TRUE)
         ELSE Reparse(Inserted(p, c))

PushStr(p, s) == FoldLeft(Push, p, s)

ReplaceWithInput(s) ==
  IF s = <<>> THEN EmptyPrompt
  ELSE IF Head(s) = Slash THEN CommandPrompt(Tail(s))
  ELSE TextPrompt(s)

RemovedBefore(p) ==
  IF p.cursor = 0 THEN p
  ELSE [p EXCEPT !.input = RemoveAt(@, p.cursor), !.cursor = @ - 1,
                 !.matches = <<>>, !.selected = 0]

Backspace(p) ==
  LET q == RemovedBefore(p)
  IN CASE p.kind = "Empty" -> p
       [] p.kind = "Text" -> IF q.input = <<>> THEN EmptyPrompt ELSE q
       [] p.kind = "File" ->
            IF q.input = <<>> THEN EmptyPrompt
            ELSE IF q.cursor < q.start THEN WithoutFileAutocomplete(q)
            ELSE q
       [] p.kind = "Command" ->
            IF p.input = <<>> THEN EmptyPrompt ELSE Reparse(q)

Delete(p) ==
  LET q == IF AtEnd(p) THEN p
           ELSE [p EXCEPT !.input = RemoveAt(@, p.cursor + 1)]
  IN CASE p.kind = "Text" -> IF q.input = <<>> THEN EmptyPrompt ELSE q
       [] p.kind = "Command" -> Reparse(q)
       [] OTHER -> p

\* The cursor moves; a mention is completed only behind the input.
MoveTo(p, cursor) ==
  LET q == [p EXCEPT !.cursor = cursor]
  IN IF p.kind = "File" /\ ~AtEnd(q) THEN WithoutFileAutocomplete(q) ELSE q

\* Left and Home end the completion of a mention wherever they lead.
MoveAway(p, cursor) ==
  LET q == [p EXCEPT !.cursor = cursor]
  IN IF p.kind = "File" THEN WithoutFileAutocomplete(q) ELSE q

MoveLeft(p) == MoveAway(p, IF p.cursor = 0 THEN 0 ELSE p.cursor - 1)
MoveRight(p) == MoveTo(p, IF AtEnd(p) THEN p.cursor ELSE p.cursor + 1)
MoveHome(p) == MoveAway(p, 0)
MoveEnd(p) == MoveTo(p, Len(p.input))

\* Logical rows: the start of the row of the cursor, and that of the next row.
Breaks(s) == {i \in DOMAIN s : s[i] = NewLine}
RowStart(s, cursor) == Max({0} \cup {i \in Breaks(s) : i <= cursor})
NextRow(s, cursor) == Min({Len(s) + 1} \cup {i \in Breaks(s) : i > cursor})

MoveVertical(p, above) ==
  LET s == p.input
      start == RowStart(s, p.cursor)
      column == p.cursor - start
      target == IF above THEN RowStart(s, start - 1) ELSE NextRow(s, p.cursor)
      room == NextRow(s, target) - target - 1
  IN IF (above /\ start = 0) \/ (~above /\ target > Len(s)) THEN p
     ELSE MoveTo(p, target + (IF column < room THEN column ELSE room))

-----------------------------------------------------------------------------
(* Completion.                                                             *)

Query(p) == SubSeq(p.input, p.start + 1, Len(p.input))

Parent(path) ==
  SubSeq(path, 1, SelectLastInSeq(path, LAMBDA c : c = Slash))

\* The names of one directory that begin with what was typed after its path.
FileMatches(query) ==
  LET parent == Parent(query)
      prefix == SubSeq(query, Len(parent) + 1, Len(query))
      match(paths, name) ==
        IF IsPrefix(prefix, name) THEN Append(paths, parent \o name) ELSE paths
  IN IF parent \in DOMAIN Listing THEN FoldLeft(match, <<>>, Listing[parent]) ELSE <<>>

\* New matches keep the selected path if it is still there.
ReplaceMatches(p, matches) ==
  LET kept == {i \in DOMAIN matches :
                 /\ p.selected + 1 \in DOMAIN p.matches
                 /\ matches[i] = p.matches[p.selected + 1]}
  IN [p EXCEPT !.matches = matches,
               !.selected = IF kept = {} THEN 0 ELSE Min(kept) - 1]

RefreshFileAutocomplete(p) ==
  IF p.kind = "File" THEN ReplaceMatches(p, FileMatches(Query(p))) ELSE p

CycleMatch(p, step) ==
  IF p.matches = <<>> THEN p
  ELSE [p EXCEPT !.selected = (@ + step) % Len(p.matches)]

AcceptFile(p) ==
  IF p.matches = <<>> THEN p
  ELSE LET input == SubSeq(p.input, 1, p.start) \o p.matches[p.selected + 1]
       IN [p EXCEPT !.input = input, !.cursor = Len(input),
                    !.matches = <<>>, !.selected = 0]

\* A command is completed when the cursor is behind its word.
Completes(p) ==
  /\ p.kind = "Command" /\ p.cursor = Len(CommandOf(p))
  /\ CommandSuggestion(CommandOf(p)) # NoSuggestion

AcceptCommand(p) ==
  LET name == CommandSuggestion(CommandOf(p))
      args == Args(p.parsed)
  IN CommandPrompt(IF args = <<>> THEN name ELSE name \o <<Space>> \o args)

-----------------------------------------------------------------------------
(* Effects of one event.  Every handled event ends by drawing the view,    *)
(* which prints the transcript entries behind the printed count.           *)

Console == view.at = "Console"
AtConsole == up /\ Console /\ turn = "None"
ShowConsole == [at |-> "Console", size |-> 0, index |-> 0]
ShowList(at, size) == [at |-> at, size |-> size, index |-> 0]

\* insert_transcript_entries, from a printed count and what the screen holds.
Draw(count, shown) ==
  LET from == IF count > Len(history') THEN 0 ELSE count
  IN /\ printed' = Len(history')
     /\ screen' = shown \o SubSeq(history', from + 1, Len(history'))

NewEntries(n) == [i \in 1 .. n |-> pushed + i]

Pushes(n) ==
  /\ history' = history \o NewEntries(n)
  /\ pushed' = pushed + n
  /\ UNCHANGED resumed
  /\ Draw(printed, screen)

Key == up /\ keys < MaxKeys /\ keys' = keys + 1 /\ UNCHANGED msgs
Msg == up /\ msgs < MaxMsgs /\ msgs' = msgs + 1 /\ UNCHANGED keys

StopRecall == recall' = [recall EXCEPT !.at = 0]

\* push_prompt_history: blank inputs are not kept, the oldest one is dropped.
Remember(input) ==
  IF Trim(input) = <<>> THEN UNCHANGED recall
  ELSE recall' = [at |-> 0,
                  entries |-> Append(IF Len(recall.entries) = HistoryLimit
                                       THEN Tail(recall.entries)
                                     ELSE recall.entries, input)]

-----------------------------------------------------------------------------
(* Keys on the console.                                                    *)

\* Keys that edit the text stop the recall, and the matches are read again.
EditKey(p) ==
  /\ AtConsole /\ Key
  /\ prompt' = RefreshFileAutocomplete(p)
  /\ StopRecall
  /\ Pushes(0) /\ UNCHANGED state

TypeKey ==
  \E c \in Chars : Len(prompt.input) < MaxText /\ EditKey(Push(prompt, c))
PasteKey ==
  \E s \in Pastes :
    Len(prompt.input) + Len(s) <= MaxText /\ EditKey(PushStr(prompt, s))
BackspaceKey == EditKey(Backspace(prompt))
DeleteKey == EditKey(Delete(prompt))

\* Keys that move the cursor or the choice.
MoveKey(p) ==
  /\ AtConsole /\ Key
  /\ prompt' = p
  /\ UNCHANGED recall
  /\ Pushes(0) /\ UNCHANGED state

\* A mention that is being completed takes some keys for itself.
CompletionKey ==
  /\ prompt.kind = "File"
  /\ \/ \E step \in {1, Len(prompt.matches) - 1} :
          prompt.matches # <<>> /\ MoveKey(CycleMatch(prompt, step))
     \/ MoveKey(RefreshFileAutocomplete(AcceptFile(prompt)))
     \/ MoveKey(WithoutFileAutocomplete(prompt))

TabKey ==
  /\ prompt.kind # "File"
  /\ AtConsole /\ Key
  /\ prompt' = IF Completes(prompt) THEN AcceptCommand(prompt) ELSE prompt
  /\ StopRecall
  /\ Pushes(0) /\ UNCHANGED state

RightKey ==
  /\ prompt.kind # "File"
  /\ MoveKey(IF Completes(prompt) THEN AcceptCommand(prompt)
             ELSE MoveRight(prompt))

CursorKey ==
  \E p \in {MoveLeft(prompt), MoveHome(prompt), MoveEnd(prompt)} : MoveKey(p)

\* handle_console_history_navigation.
Navigating == prompt.kind = "Empty" \/ recall.at # 0

RecallAt(at) ==
  /\ recall' = [recall EXCEPT !.at = at]
  /\ prompt' = IF at = 0 THEN EmptyPrompt ELSE ReplaceWithInput(recall.entries[at])

UpKey ==
  /\ prompt.kind # "File" /\ AtConsole /\ Key
  /\ \/ /\ Navigating /\ recall.entries # <<>>
        /\ RecallAt(IF recall.at = 0 THEN Len(recall.entries)
                    ELSE IF recall.at = 1 THEN 1 ELSE recall.at - 1)
     \/ /\ Navigating /\ recall.entries = <<>>
        /\ UNCHANGED <<prompt, recall>>
     \/ /\ ~Navigating
        /\ prompt' = MoveVertical(prompt, TRUE) /\ UNCHANGED recall
  /\ Pushes(0) /\ UNCHANGED state

DownKey ==
  /\ prompt.kind # "File" /\ AtConsole /\ Key
  /\ \/ /\ recall.at # 0
        /\ RecallAt(IF recall.at = Len(recall.entries) THEN 0 ELSE recall.at + 1)
     \/ /\ recall.at = 0
        /\ prompt' = MoveVertical(prompt, FALSE) /\ UNCHANGED recall
  /\ Pushes(0) /\ UNCHANGED state

\* handle_interrupt: break a turn, clear the prompt, or leave.
InterruptKey ==
  /\ up /\ Console /\ Key
  /\ \/ (turn # "None" \/ thinking) /\ UNCHANGED <<prompt, up>>
     \/ /\ turn = "None" /\ ~thinking /\ prompt.kind # "Empty"
        /\ prompt' = EmptyPrompt /\ UNCHANGED up
     \/ /\ turn = "None" /\ ~thinking /\ prompt.kind = "Empty"
        /\ up' = FALSE /\ UNCHANGED prompt
  /\ UNCHANGED <<recall, view, turn, thinking, option, chosen>>
  /\ Pushes(0)

\* Enter on a text: a prompt for the worker, unless it is blank.
SubmitText ==
  LET text == Trim(prompt.input)
  IN /\ prompt.kind = "Text" \/ (prompt.kind = "File" /\ ~prompt.command)
     /\ AtConsole /\ Key
     /\ prompt' = EmptyPrompt
     /\ Remember(text)
     /\ Pushes(IF text = <<>> THEN 0 ELSE 1)
     /\ UNCHANGED state

\* The entries a command pushes: errors, and the retained logs.
ArgCount(args) ==
  Cardinality({i \in DOMAIN args :
                 args[i] \notin White /\ (i = 1 \/ args[i - 1] \in White)})

EntriesOf(kind, args) ==
  CASE kind \in {"Logs", "Unresolved"} -> 1
    [] kind = "Preview" -> IF ArgCount(args) = 0 THEN 1 ELSE 0
    [] kind = "Resume" ->
         IF ArgCount(args) = 0 \/ Trim(args) \in SessionIds THEN 0 ELSE 1
    [] OTHER -> 0

\* handle_command, for what it does to the interface itself.
HandleCommand(kind, args) ==
  /\ view' = CASE kind = "Help" -> ShowList("Help", Len(Names))
               [] kind = "Skills" -> ShowList("Skills", Len(Models))
               [] OTHER -> view
  /\ chosen' = CASE kind = "Chat" -> [chosen EXCEPT !.plan = FALSE]
                 [] kind = "Plan" -> [chosen EXCEPT !.plan = TRUE]
                 [] kind = "Model" /\ Trim(args) = AutoName ->
                      [chosen EXCEPT !.preferred = <<>>]
                 [] kind = "Model" /\ Trim(args) # AutoName /\ ArgCount(args) # 0 ->
                      [chosen EXCEPT !.awaited = Trim(args)]
                 [] OTHER -> chosen
  /\ up' = (kind # "Quit")
  /\ Pushes(EntriesOf(kind, args))
  /\ UNCHANGED <<turn, thinking>>
  /\ option' = IF view' = view THEN option ELSE 0

\* Enter on a command; one that is not known stays in the prompt, unless a
\* mention in it was being completed.
SubmitCommand ==
  LET mention == prompt.kind = "File"
      p == IF mention THEN WithoutFileAutocomplete(prompt) ELSE prompt
      kind == IF Resolved(p) THEN KindOf[CommandOf(p)] ELSE "Unresolved"
  IN /\ prompt.kind = "Command" \/ (mention /\ prompt.command)
     /\ AtConsole /\ Key
     /\ IF Resolved(p) \/ mention
          THEN prompt' = EmptyPrompt /\ Remember(Rendered(p))
        ELSE UNCHANGED <<prompt, recall>>
     /\ HandleCommand(kind, Args(p.parsed))

-----------------------------------------------------------------------------
(* Keys on the other components.                                           *)

Options == IF turn = "Ask3" THEN 3 ELSE 2

\* The cursor of an approval; deciding leaves it and waits for the worker.
ApprovalKey ==
  /\ Console /\ turn \in {"Ask2", "Ask3"} /\ Key
  /\ option' \in {(option + 1) % Options,
                  IF option = 0 THEN Options - 1 ELSE option - 1,
                  option}
  /\ Pushes(0)
  /\ UNCHANGED <<prompt, recall, view, turn, thinking, chosen, up>>

Clamp(index) == IF view.size = 0 THEN 0
                ELSE IF index < view.size THEN index ELSE view.size - 1
Back(step) == IF view.index < step THEN 0 ELSE view.index - step

InList == view.at \in Lists

ListKey ==
  /\ InList /\ Key
  /\ \E index \in {Back(1), Clamp(view.index + 1), 0, Clamp(view.size),
                   Back(PageStep), Clamp(view.index + PageStep)} :
       view' = [view EXCEPT !.index = index]
  /\ Pushes(0)
  /\ UNCHANGED <<prompt, recall, turn, thinking, option, chosen, up>>

\* Enter in a list; the console comes back with a new prompt.
ListEnter ==
  /\ InList /\ Key
  /\ view' = ShowConsole
  /\ prompt' = IF view.at = "Help" /\ view.index < view.size
                 THEN ReplaceWithInput(<<Slash>> \o Names[view.index + 1])
               ELSE EmptyPrompt
  /\ chosen' = IF view.at = "Models"
                 THEN [chosen EXCEPT !.preferred =
                         IF view.index = 0 THEN <<>> ELSE Models[view.index]]
               ELSE chosen
  /\ option' = 0
  /\ Pushes(0)
  /\ UNCHANGED <<recall, turn, thinking, up>>

LeaveView ==
  /\ ~Console /\ Key
  /\ \/ view' = ShowConsole /\ prompt' = EmptyPrompt /\ option' = 0
        /\ UNCHANGED up
     \/ up' = FALSE /\ UNCHANGED <<view, prompt, option>>
  /\ Pushes(0)
  /\ UNCHANGED <<recall, turn, thinking, chosen>>

-----------------------------------------------------------------------------
(* Messages of the worker (apply_msg and handle_client_msg).               *)

\* Errors, previews, the router's status and traces only add an entry.
EntryMsg ==
  /\ Msg /\ Pushes(1)
  /\ UNCHANGED <<prompt, recall, state>>

TurnMsg ==
  /\ Msg
  /\ \/ turn' \in {"Ask2", "Ask3"} /\ Pushes(0) /\ UNCHANGED thinking  \* approval
     \/ turn' = "None" /\ Pushes(1) /\ UNCHANGED thinking            \* assistant turn
     \/ turn' = "None" /\ thinking' = FALSE /\ Pushes(0)    \* idle, interrupted
     \/ turn' = turn /\ thinking' = TRUE /\ Pushes(0)       \* thinking
     \/ /\ turn' = IF turn = "None" THEN "Running" ELSE turn    \* chunks
        /\ Pushes(0) /\ UNCHANGED thinking
     \/ turn' = "Running" /\ Pushes(1) /\ UNCHANGED thinking     \* tool call
  /\ UNCHANGED <<prompt, recall, view, option, chosen, up>>

\* A list replaces the console, whose prompt is lost.
ViewMsg ==
  /\ Msg
  /\ view' \in {ShowList(at, Len(Models)) : at \in {"Providers", "Sessions"}}
               \cup {ShowList("Usage", 0)}
  /\ prompt' = EmptyPrompt /\ option' = 0
  /\ Pushes(0)
  /\ UNCHANGED <<recall, turn, thinking, chosen, up>>

\* The list of models answers an awaited model, or is shown.
ModelsMsg ==
  /\ Msg
  /\ \/ /\ chosen.awaited = <<>>
        /\ view' = ShowList("Models", Len(Models) + 1)
        /\ prompt' = EmptyPrompt /\ option' = 0
        /\ Pushes(0) /\ UNCHANGED chosen
     \/ /\ chosen.awaited \in Range(Models)
        /\ chosen' = [chosen EXCEPT !.awaited = <<>>, !.preferred = chosen.awaited]
        /\ Pushes(0) /\ UNCHANGED <<view, prompt, option>>
     \/ /\ chosen.awaited \notin Range(Models) \cup {<<>>}
        /\ chosen' = [chosen EXCEPT !.awaited = <<>>]
        /\ Pushes(1) /\ UNCHANGED <<view, prompt, option>>
  /\ UNCHANGED <<recall, turn, thinking, up>>

\* A resumed session brings its own transcript; the printed count stays.
ResumedMsg ==
  /\ Msg
  /\ \E n \in 0 .. 2 : history' = NewEntries(n) /\ pushed' = pushed + n
  /\ Draw(printed, screen)
  /\ resumed' = TRUE
  /\ view' = ShowConsole /\ prompt' = EmptyPrompt /\ option' = 0
  /\ turn' = "None"
  /\ UNCHANGED <<recall, thinking, chosen, up>>

\* clear_terminal, and the view that is drawn behind it.
ClearTerminal == Draw(0, <<>>)

ClosedMsg ==
  /\ Msg
  /\ \E n \in 0 .. 2 : history' = NewEntries(n) /\ pushed' = pushed + n
  /\ ClearTerminal
  /\ resumed' = FALSE
  /\ StopRecall
  /\ view' = ShowConsole /\ prompt' = EmptyPrompt /\ option' = 0
  /\ turn' = "None"
  /\ UNCHANGED <<thinking, chosen, up>>

-----------------------------------------------------------------------------

TerminalInit ==
  /\ prompt = EmptyPrompt /\ recall = [entries |-> <<>>, at |-> 0]
  /\ view = ShowConsole /\ turn = "None" /\ thinking = FALSE /\ option = 0
  /\ chosen = [preferred |-> <<>>, awaited |-> <<>>, plan |-> FALSE]
  /\ history = <<>> /\ printed = 0 /\ pushed = 0 /\ screen = <<>>
  /\ up = TRUE /\ resumed = FALSE /\ keys = 0 /\ msgs = 0

TerminalNext ==
  \/ TypeKey \/ PasteKey \/ BackspaceKey \/ DeleteKey
  \/ CompletionKey \/ TabKey \/ RightKey \/ CursorKey
  \/ UpKey \/ DownKey \/ InterruptKey
  \/ SubmitText \/ SubmitCommand
  \/ ApprovalKey \/ ListKey \/ ListEnter \/ LeaveView
  \/ EntryMsg \/ TurnMsg \/ ViewMsg \/ ModelsMsg \/ ResumedMsg \/ ClosedMsg

TerminalSpec == TerminalInit /\ [][TerminalNext]_terminalVars

-----------------------------------------------------------------------------
(* Properties.                                                             *)

\* The state is well formed: cursors stay in their texts, selections in their
\* lists and options, the recalled index in a bounded prompt history, and the
\* printed count in the transcript (state.rs, prompt.rs, list.rs).
TerminalTypeOK ==
  /\ prompt.kind \in {"Empty", "Text", "Command", "File"}
  /\ prompt.input \in Texts /\ prompt.cursor \in 0 .. Len(prompt.input)
  /\ prompt.matches # <<>> => prompt.selected < Len(prompt.matches)
  /\ recall.at \in 0 .. Len(recall.entries) /\ Len(recall.entries) <= HistoryLimit
  /\ view.at \in Lists \cup {"Console", "Usage"}
  /\ view.index = 0 \/ view.index < view.size
  /\ ~Console => prompt = EmptyPrompt
  /\ turn \in Turns /\ {thinking, up, resumed} \subseteq BOOLEAN
  /\ option \in 0 .. 2
  /\ chosen.preferred \in Range(Models) \cup {<<>>}
  /\ printed = Len(history)

Paths == UNION {{d \o Listing[d][i] : i \in DOMAIN Listing[d]} : d \in DOMAIN Listing}

\* While a mention is completed the cursor is behind the text, the mention
\* begins behind an "@", no white space is in it but that of the names of files,
\* and the offered paths are those of the directory it names; the parse of a
\* command is that of its text (FileAutocompleteState and CommandPromptState,
\* which keep both apart).
DerivedFresh ==
  /\ prompt.kind = "File" =>
       /\ AtEnd(prompt)
       /\ prompt.start \in DOMAIN prompt.input /\ prompt.input[prompt.start] = AtSign
       /\ Range(Query(prompt)) \cap White \subseteq UNION {Range(path) : path \in Paths}
       /\ prompt.matches = FileMatches(Query(prompt))
  /\ prompt.kind = "Command" => prompt.parsed = prompt.input

Editor == INSTANCE LineEditor WITH
  text <- Rendered(prompt), cursor <- CursorPosition(prompt),
  Inserts <- {<<c>> : c \in Chars} \cup Pastes,
  Completions <- Paths \cup Range(Names)
                   \cup {Names[i] \o <<Space>> : i \in DOMAIN Names},
  offered <- {recall.entries[i] : i \in DOMAIN recall.entries}
                \cup {<<Slash>> \o Names[i] : i \in DOMAIN Names}

\* Whatever the prompt is taken for (a text, a command, a mention), its keys
\* are those of a line editor on the rendered text: no key that turns one kind
\* into another loses, doubles or moves a character (prompt.rs push,
\* backspace, state_without_file_autocomplete, accept_suggestion).
PromptEdits == Editor!Spec

\* Until a session is resumed, the screen shows every entry of the transcript,
\* once and in order: the printed count follows a transcript that is replaced
\* when a session closes (insert_transcript_entries, clear_terminal).
TranscriptShown == ~resumed => screen = history

\* The transcript of a resumed session is shown too.
ResumedShown == Range(history) \subseteq Range(screen)

=============================================================================
