------------------------------ MODULE Workspace ------------------------------
(***************************************************************************)
(* The commands of `smista` that work on a directory: `config init`,       *)
(* `check`, `show` and `edit`, `start` as far as it reads `router.toml`,   *)
(* and a chat, which loads the configuration, discovers the skills, builds *)
(* requests from the files of the workspace and executes tool calls on     *)
(* them.                                                                   *)
(*                                                                         *)
(* Every invocation is a process of its own; between two of its file       *)
(* operations other invocations and the user, with an editor, may act.     *)
(* Nothing is locked. An invocation that is killed is one that takes no    *)
(* further step.                                                           *)
(***************************************************************************)
EXTENDS Config, SequencesExt

CONSTANTS
    Procs,          \* invocations of the program
    CliDocs,        \* what a user may write into a config.toml
    RouterDocs,     \* what a user may write into a router.toml
    Overrides,      \* runtime overrides a caller may pass to the loader
    OtelFlags,      \* --otel* flags of `smista start`
    Names,          \* skill directories
    ToolCalls,      \* tool calls a model may make: [tool, path]
    Absent,         \* a file that is not there
    Broken,         \* a file that cannot be read or parsed
    MaxEdits,       \* how often the user changes something
    MaxCalls        \* tool calls of one chat

ASSUME WorkspaceAssumption ==
    /\ None \notin Overrides /\ None \notin {"project", "global"}
    /\ MaxEdits \in Nat /\ MaxCalls \in Nat

(* A mode in a document is a PermissionMode or unset, a tool's is a mode,  *)
(* the numbers of a rate limit are unsigned: nothing else is deserialized. *)
ASSUME DocsAssumption ==
    /\ None \notin Modes
    /\ \A doc \in CliDocs \cup Overrides :
          /\ \A s \in {"remote", "local"} \cap DOMAIN doc : doc[s] \in Modes \cup {None}
          /\ "tools" \in DOMAIN doc => \A t \in DOMAIN doc["tools"] : doc["tools"][t] \in Modes
    /\ \A doc \in RouterDocs : "rate_limit" \in DOMAIN doc =>
          doc["rate_limit"] \in [enabled : BOOLEAN, period : Nat, burst : Nat]

Scopes == {"router", "global", "project"}
Roots == <<"project", "global">>          \* of skills, in the order of discovery

(* A skill directory: missing, without SKILL.md, without front matter,     *)
(* with front matter that is no YAML, or complete (a wrong name or missing *)
(* description is a warning).                                              *)
Descriptors == {"none", "bare", "plain", "invalid", "complete"}

VARIABLES
    files,      \* configuration files, by scope
    ignore,     \* lines of .smista/.gitignore
    skills,     \* skill directories, by root and name
    pc,         \* where each invocation is
    cmd,        \* what it was asked to do
    got,        \* configuration layers it has read, and keeps if it is a load
    lines,      \* .gitignore as it has read it
    store,      \* SkillStore: the root each discovered skill was found in
    stale,      \* skills whose directories changed since its discovery began
    request,    \* the skills its last request offered, by name
    editing,    \* the file an edit_file call has read and is to write
    calls,      \* tool calls it has executed
    edits       \* changes the user has made

fileVars == <<files, ignore, skills>>
chatVars == <<store, stale, request, editing, calls>>
vars == <<files, ignore, skills, pc, cmd, got, lines, store, stale,
          request, editing, calls, edits>>

-----------------------------------------------------------------------------
(* Paths. A path is a sequence of components; the workspace is WorkRoot.   *)

WorkRoot == <<"home", "project">>

(* normalize_path: "." is dropped, ".." pops, also at the root.            *)
Normalize(path) ==
    LET Step(acc, c) == IF c = "." THEN acc
                        ELSE IF c = ".." THEN (IF acc = <<>> THEN acc ELSE Front(acc))
                        ELSE Append(acc, c)
    IN  FoldLeft(Step, <<>>, path)

Candidate(arg) == IF arg.absolute THEN arg.parts ELSE WorkRoot \o arg.parts

(* resolve_path: refused when the normalized path leaves the workspace. It *)
(* looks at the components only: the file operations follow the links they *)
(* meet, so that a path that resolves may still lead elsewhere.            *)
Resolves(arg) == IsPrefix(WorkRoot, Normalize(Candidate(arg)))

ToolPaths == {Normalize(Candidate(c.path)) : c \in ToolCalls}

-----------------------------------------------------------------------------
Idle == "idle"
Finished == {"ok", "failed"}

Commands ==
    [op : {"init"}, scope : Scopes, force : BOOLEAN]
    \cup [op : {"check", "show", "edit"}, scope : Scopes]
    \cup [op : {"effective", "chat"}]
    \cup [op : {"load"}, runtime : Overrides \cup {None}]
    \cup [op : {"start"}, flags : OtelFlags]

Docs(scope) == IF scope = "router" THEN RouterDocs ELSE CliDocs

EmptyDoc == [s \in {} |-> None]
Template(scope) == IF scope = "router" THEN DefaultRouterConfig ELSE DefaultConfig
FileStates(scope) == Docs(scope) \cup {Absent, Broken, EmptyDoc, Template(scope)}

(* read_layer: an absent file is the built-in configuration.               *)
ReadLayer(doc) == IF doc = Absent THEN DefaultConfig ELSE Parse(doc)
LoadRouter(doc) == IF doc = Absent THEN DefaultRouterConfig ELSE ParseRouter(doc)

(* load_and_validate_at and the router's load and validate.                *)
FileErrors(scope, doc) ==
    IF doc = Broken THEN {"Unreadable"}
    ELSE IF scope = "router" THEN RouterErrors(LoadRouter(doc))
    ELSE ValidateLayers(ReadLayer(doc), <<>>)

(* ConfigLayers with one more layer.                                       *)
WithLayer(ls, layer, c) == [l \in DOMAIN ls \cup {layer} |-> IF l = layer THEN c ELSE ls[l]]

(* What was read, over the defaults and under the runtime override.        *)
Complete(p, read) ==
    LET authored == WithLayer(read, "defaults", DefaultConfig)
    IN  IF cmd[p].op = "load" /\ cmd[p].runtime # None
        THEN WithLayer(authored, "runtime", Parse(cmd[p].runtime)) ELSE authored

(* The layers of an invocation that has read both files.                   *)
LayersOf(p) == Complete(p, got[p])
Effective(p) == Merge(LayersOf(p))

TypeOK ==
    /\ \A s \in Scopes : files[s] \in FileStates(s)
    /\ ignore \subseteq {"secrets", "user"}
    /\ skills \in [Range(Roots) -> [Names -> Descriptors]]
    /\ pc \in [Procs -> {Idle, "init", "write", "ignore", "truncate", "ignorewrite", "check",
                          "show", "edit", "global", "project", "start", "serving", "discover",
                          "discover2", "ready", "editwrite"} \cup Finished]
    /\ \A p \in Procs : pc[p] \notin {Idle} \cup Finished => cmd[p] \in Commands
    /\ \A p \in Procs : DOMAIN got[p] \subseteq {"global", "project", "router"}
    /\ lines \in [Procs -> SUBSET {"secrets", "user"}]
    /\ store \in [Procs -> [Names -> Range(Roots) \cup {None}]]
    /\ stale \in [Procs -> SUBSET Names]
    /\ \A p \in Procs : request[p] = None \/ request[p] \in [Names -> Range(Roots) \cup {None}]
    /\ editing \in [Procs -> ToolPaths \cup {None}]
    /\ calls \in [Procs -> 0 .. MaxCalls]
    /\ edits \in 0 .. MaxEdits

Init ==
    /\ files = [s \in Scopes |-> Absent]
    /\ ignore = {}
    /\ skills = [r \in Range(Roots) |-> [n \in Names |-> "none"]]
    /\ pc = [p \in Procs |-> Idle]
    /\ cmd = [p \in Procs |-> None]
    /\ got = [p \in Procs |-> EmptyDoc]
    /\ lines = [p \in Procs |-> {}]
    /\ store = [p \in Procs |-> [n \in Names |-> None]]
    /\ stale = [p \in Procs |-> {}]
    /\ request = [p \in Procs |-> None]
    /\ editing = [p \in Procs |-> None]
    /\ calls = [p \in Procs |-> 0]
    /\ edits = 0

(* An invocation that has ended leaves nothing but what its success        *)
(* promises: the ignored secrets file, the loaded configuration.           *)
Promises(c) == c.op = "load" \/ (c.op = "init" /\ c.scope = "project")

Goto(p, l) ==
    /\ pc' = [pc EXCEPT ![p] = l]
    /\ cmd' = [cmd EXCEPT ![p] = IF l = "failed" \/ (l = "ok" /\ ~Promises(@)) THEN None ELSE @]
End(p, errors) == Goto(p, IF errors = {} THEN "ok" ELSE "failed")

(* run: the subcommand decides the first step.                             *)
Invoke(p, c) ==
    /\ pc[p] = Idle
    /\ cmd' = [cmd EXCEPT ![p] = c]
    /\ pc' = [pc EXCEPT ![p] = IF c.op \in {"effective", "load", "chat"} THEN "global" ELSE c.op]
    /\ UNCHANGED <<fileVars, got, lines, chatVars, edits>>

-----------------------------------------------------------------------------
(* config init                                                             *)

Creates(p) == cmd[p].force \/ files[cmd[p].scope] = Absent

(* write_config_file: created or truncated, refused when it exists ...     *)
InitOpen(p) ==
    /\ pc[p] = "init"
    /\ IF Creates(p)
       THEN files' = [files EXCEPT ![cmd[p].scope] = EmptyDoc] /\ Goto(p, "write")
       ELSE UNCHANGED files /\ Goto(p, "failed")
    /\ UNCHANGED <<ignore, skills, got, lines, chatVars, edits>>

(* ... then written through the open file. What somebody else saved in     *)
(* between is overwritten, mixed with, or untouched when it replaced the   *)
(* file.                                                                   *)
InitWrite(p) ==
    LET s == cmd[p].scope
    IN  /\ pc[p] = "write"
        /\ \E doc \in {Template(s)} \cup (IF files[s] = EmptyDoc THEN {} ELSE {Broken, files[s]}) :
              files' = [files EXCEPT ![s] = doc]
        /\ Goto(p, IF s = "project" THEN "ignore" ELSE "ok")
        /\ UNCHANGED <<ignore, skills, got, lines, chatVars, edits>>

KeepsIgnoredIfAny(p) == ignore # {}

KeepsIgnored(p) == "secrets" \in ignore

(* ensure_project_gitignore: read, and rewritten unless it has the entry.  *)
IgnoreRead(p) ==
    /\ pc[p] = "ignore"
    /\ lines' = [lines EXCEPT ![p] = IF KeepsIgnored(p) THEN {} ELSE ignore]
    /\ Goto(p, IF KeepsIgnored(p) THEN "ok" ELSE "truncate")
    /\ UNCHANGED <<fileVars, got, chatVars, edits>>

(* fs::write truncates the file and writes it.                             *)
IgnoreTruncate(p) ==
    /\ pc[p] = "truncate"
    /\ ignore' = {}
    /\ Goto(p, "ignorewrite")
    /\ UNCHANGED <<files, skills, got, lines, chatVars, edits>>

IgnoreWrite(p) ==
    /\ pc[p] = "ignorewrite"
    /\ ignore' = lines[p] \cup {"secrets"}
    /\ lines' = [lines EXCEPT ![p] = {}]
    /\ Goto(p, "ok")
    /\ UNCHANGED <<files, skills, got, chatVars, edits>>

-----------------------------------------------------------------------------
(* config check, show and edit                                             *)

Check(p) ==
    /\ pc[p] = "check"
    /\ End(p, FileErrors(cmd[p].scope, files[cmd[p].scope]))
    /\ UNCHANGED <<fileVars, got, lines, chatVars, edits>>

(* render_config_layer: unlike check, the file has to exist.               *)
ShowLayer(p) ==
    LET doc == files[cmd[p].scope]
    IN  /\ pc[p] = "show"
        /\ End(p, IF doc = Absent THEN {"Unreadable"} ELSE FileErrors(cmd[p].scope, doc))
        /\ UNCHANGED <<fileVars, got, lines, chatVars, edits>>

(* The editor is run on an existing file; its user saves something, leaves *)
(* the file as it is, or the editor fails.                                 *)
EditFile(p) ==
    LET s == cmd[p].scope
    IN  /\ pc[p] = "edit"
        /\ \/ files[s] = Absent /\ UNCHANGED <<files, edits>> /\ Goto(p, "failed")
           \/ files[s] # Absent /\ UNCHANGED <<files, edits>>
              /\ \E e \in {"ok", "failed"} : Goto(p, e)
           \/ /\ files[s] # Absent /\ edits < MaxEdits
              /\ edits' = edits + 1
              /\ \E doc \in Docs(s) \cup {Broken} : files' = [files EXCEPT ![s] = doc]
              /\ Goto(p, "ok")
        /\ UNCHANGED <<ignore, skills, got, lines, chatVars>>

-----------------------------------------------------------------------------
(* load_with_layers, for `config show` without a scope, for the commands   *)
(* that need the effective configuration, and for a chat.                  *)

ReadGlobal(p) ==
    /\ pc[p] = "global"
    /\ IF files.global = Broken
       THEN Goto(p, "failed") /\ UNCHANGED got
       ELSE /\ got' = [got EXCEPT ![p] = [l \in {"global"} |-> ReadLayer(files.global)]]
            /\ Goto(p, "project")
    /\ UNCHANGED <<fileVars, lines, chatVars, edits>>

(* load_effective shows what it merged; load_and_validate checks it.       *)
LoadErrors(p, ls) == IF cmd[p].op = "effective" THEN {} ELSE ValidateLayers(Merge(ls), ls)

ReadProject(p) ==
    /\ pc[p] = "project"
    /\ IF files.project = Broken
       THEN Goto(p, "failed") /\ got' = [got EXCEPT ![p] = EmptyDoc]
       ELSE LET read == WithLayer(got[p], "project", ReadLayer(files.project))
                errors == LoadErrors(p, Complete(p, read))
            IN  /\ got' = [got EXCEPT ![p] = IF cmd[p].op = "load" /\ errors = {} THEN read ELSE EmptyDoc]
                /\ Goto(p, IF errors # {} THEN "failed"
                           ELSE IF cmd[p].op = "chat" THEN "discover" ELSE "ok")
    /\ UNCHANGED <<fileVars, lines, chatVars, edits>>

(* load_and_validate_configuration of `smista start`.                      *)
StartRouter(p) ==
    /\ pc[p] = "start"
    /\ LET file == LoadRouter(files.router)
           conf == [file EXCEPT !.otel = ResolveOpenTelemetry(@, cmd[p].flags)]
       IN  IF files.router = Broken \/ RouterErrors(conf) # {} \/ ~StorageBuilt(conf)
           THEN Goto(p, "failed") /\ UNCHANGED got
           ELSE Goto(p, "serving") /\ got' = [got EXCEPT ![p] = [l \in {"router"} |-> conf]]
    /\ UNCHANGED <<fileVars, lines, chatVars, edits>>

-----------------------------------------------------------------------------
(* A chat: skills                                                          *)

Usable(descriptor) == descriptor = "complete"
Loadable(descriptor) == descriptor \in {"plain", "complete"}

(* Mutant: the root that is looked at last wins.                           *)
IngestLast(known, root) ==
    [n \in Names |-> IF Usable(skills[root][n]) THEN root ELSE known[n]]

(* ingest: a name that is already known is not read again.                 *)
Ingest(known, root) ==
    [n \in Names |-> IF known[n] = None /\ Usable(skills[root][n]) THEN root ELSE known[n]]

(* discover: the project's root, then the global one.                      *)
Discover(p) ==
    /\ pc[p] \in {"discover", "discover2"}
    /\ store' = [store EXCEPT ![p] = Ingest(@, IF pc[p] = "discover" THEN Roots[1] ELSE Roots[2])]
    /\ stale' = [stale EXCEPT ![p] = IF pc[p] = "discover" THEN {} ELSE @]
    /\ Goto(p, IF pc[p] = "discover" THEN "discover2" ELSE "ready")
    /\ UNCHANGED <<fileVars, got, lines, request, editing, calls, edits>>

(* load_available_skills reads every discovered skill again and leaves out *)
(* the ones it cannot load.                                                *)
LoadAvailableSkills(p) ==
    [n \in Names |-> IF store[p][n] # None /\ Loadable(skills[store[p][n]][n])
                     THEN store[p][n] ELSE None]

(* build_execute_request, as far as it reads the workspace's skills.       *)
BuildRequest(p) ==
    /\ pc[p] = "ready"
    /\ request' = [request EXCEPT ![p] = LoadAvailableSkills(p)]
    /\ UNCHANGED <<fileVars, pc, cmd, got, lines, store, stale, editing, calls, edits>>

(* A chat: tools. What the files of the workspace hold is left out.        *)

Counted(p) == calls[p] < MaxCalls /\ calls' = [calls EXCEPT ![p] = @ + 1]

(* A call whose path leaves the workspace is answered with an error.       *)
RefusePath(p, c) ==
    /\ pc[p] = "ready" /\ ~Resolves(c.path)
    /\ Counted(p)
    /\ UNCHANGED <<fileVars, pc, cmd, got, lines, store, stale, request, editing, edits>>

ReadFile(p, c) ==
    /\ pc[p] = "ready" /\ c.tool = "read_file" /\ Resolves(c.path)
    /\ Counted(p)
    /\ UNCHANGED <<fileVars, pc, cmd, got, lines, store, stale, request, editing, edits>>

WriteFile(p, c) ==
    /\ pc[p] = "ready" /\ c.tool = "write_file" /\ Resolves(c.path)
    /\ Counted(p)
    /\ UNCHANGED <<fileVars, pc, cmd, got, lines, store, stale, request, editing, edits>>

(* edit_file reads the file, and writes it back with the text replaced if  *)
(* the text was there.                                                     *)
EditRead(p, c) ==
    LET f == Normalize(Candidate(c.path))
    IN  /\ pc[p] = "ready" /\ c.tool = "edit_file" /\ Resolves(c.path)
        /\ Counted(p)
        /\ \/ Goto(p, "editwrite") /\ editing' = [editing EXCEPT ![p] = f]
           \/ UNCHANGED <<pc, cmd, editing>>
        /\ UNCHANGED <<fileVars, got, lines, store, stale, request, edits>>

EditWrite(p) ==
    /\ pc[p] = "editwrite"
    /\ editing' = [editing EXCEPT ![p] = None]
    /\ Goto(p, "ready")
    /\ UNCHANGED <<fileVars, got, lines, store, stale, request, calls, edits>>

(* The chat ends, and what it held in memory with it.                      *)
Quit(p) ==
    /\ pc[p] = "ready"
    /\ Goto(p, "ok")
    /\ store' = [store EXCEPT ![p] = [n \in Names |-> None]]
    /\ stale' = [stale EXCEPT ![p] = {}]
    /\ request' = [request EXCEPT ![p] = None]
    /\ calls' = [calls EXCEPT ![p] = 0]
    /\ UNCHANGED <<fileVars, got, lines, editing, edits>>

-----------------------------------------------------------------------------
(* The user                                                                *)

Edit == edits < MaxEdits /\ edits' = edits + 1

UserSaves(s, doc) ==
    /\ Edit /\ files[s] # doc
    /\ files' = [files EXCEPT ![s] = doc]
    /\ UNCHANGED <<ignore, skills, pc, cmd, got, lines, chatVars>>

UserIgnores ==
    /\ Edit /\ "user" \notin ignore
    /\ ignore' = ignore \cup {"user"}
    /\ UNCHANGED <<files, skills, pc, cmd, got, lines, chatVars>>

UserChangesSkill(r, n, d) ==
    /\ Edit /\ skills[r][n] # d
    /\ skills' = [skills EXCEPT ![r][n] = d]
    /\ stale' = [p \in Procs |-> IF pc[p] \in {"discover2", "ready", "editwrite"}
                                  THEN stale[p] \cup {n} ELSE stale[p]]
    /\ UNCHANGED <<files, ignore, pc, cmd, got, lines, store, request, editing, calls>>

Next ==
    \/ \E p \in Procs : \E c \in Commands : Invoke(p, c)
    \/ \E p \in Procs :
          \/ InitOpen(p) \/ InitWrite(p) \/ IgnoreRead(p) \/ IgnoreTruncate(p) \/ IgnoreWrite(p)
          \/ Check(p) \/ ShowLayer(p) \/ EditFile(p)
          \/ ReadGlobal(p) \/ ReadProject(p) \/ StartRouter(p)
          \/ Discover(p) \/ BuildRequest(p) \/ EditWrite(p) \/ Quit(p)
    \/ \E p \in Procs : \E c \in ToolCalls :
          RefusePath(p, c) \/ ReadFile(p, c) \/ WriteFile(p, c) \/ EditRead(p, c)
    \/ \E s \in Scopes : \E doc \in Docs(s) \cup {Absent, Broken} : UserSaves(s, doc)
    \/ UserIgnores
    \/ \E r \in Range(Roots) : \E n \in Names : \E d \in Descriptors : UserChangesSkill(r, n, d)

Spec == Init /\ [][Next]_vars

-----------------------------------------------------------------------------
(* If `config check` accepts the global and the project file, then the     *)
(* commands that need a configuration start: the merge of two valid layers *)
(* is valid, although `providers` and `routing` may come from different    *)
(* layers.                                                                 *)
CheckedLoads ==
    (FileErrors("global", files.global) = {} /\ FileErrors("project", files.project) = {})
    => LET ls == [l \in {"defaults", "global", "project"} |->
                     IF l = "defaults" THEN DefaultConfig ELSE ReadLayer(files[l])]
       IN  ValidateLayers(Merge(ls), ls) = {}

ModeOr(mode, default) == IF mode = None THEN default ELSE mode

(* A runtime override never weakens what the configuration files set, and  *)
(* what it tightens is in force: privacy modes, path lists and tool        *)
(* permissions, whatever combination of layers set or omit them.           *)
PreferenceTightens ==
    \A p \in Procs :
      (pc[p] = "ok" /\ DOMAIN got[p] = {"global", "project"} /\ cmd[p].op = "load" /\ cmd[p].runtime # None) =>
        LET floor == Merge(WithLayer(got[p], "defaults", DefaultConfig))
            over == Parse(cmd[p].runtime)
            now == Effective(p)
        IN  /\ ModeOr(now.remote, Ask) >= ModeOr(floor.remote, Ask)
            /\ ModeOr(now.local, Allow) >= ModeOr(floor.local, Allow)
            /\ ModeOr(now.remote, Ask) >= ModeOr(over.remote, Allow)
            /\ ModeOr(now.local, Allow) >= ModeOr(over.local, Allow)
            /\ (floor.restricted \cup over.restricted) \subseteq now.restricted
            /\ (floor.blocked \cup over.blocked) \subseteq now.blocked
            /\ \A t \in DOMAIN floor.tools : now.tools[t] >= floor.tools[t]
            /\ \A t \in DOMAIN over.tools : now.tools[t] >= over.tools[t]

(* Once a `config init project` has succeeded, and while none is rewriting *)
(* the file (or was killed while it did), git ignores the secrets file,    *)
(* also when two of them, or the user, change .gitignore at the same time. *)
SecretsIgnored ==
    ((\E p \in Procs : pc[p] = "ok" /\ cmd[p] # None /\ cmd[p].op = "init")
       /\ \A p \in Procs : pc[p] # "ignorewrite")
    => "secrets" \in ignore

(* The skills a request offers are the ones on disk, the project's before  *)
(* the global ones, unless their directory changed after the chat began to *)
(* discover them.                                                          *)
SkillsOffered ==
    \A p \in Procs : \A n \in Names :
      (request[p] # None /\ n \notin stale[p]) =>
        request[p][n] = IF Usable(skills["project"][n]) THEN "project"
                        ELSE IF Usable(skills["global"][n]) THEN "global" ELSE None

(* A router that serves does what its configuration says: it limits if it  *)
(* is told to, and on a shared database nobody can create a local key.     *)
ServedAsConfigured ==
    \A p \in Procs : pc[p] = "serving" =>
      LET c == got[p].router
      IN  /\ c.rate_limit.enabled => LimiterOn(c)
          /\ c.mode = "remote" => ~c.local_bootstrap_enabled

(* What the user set in the global file and no project file replaces is in *)
(* force (docs/configuration/cli.md, "Configuration precedence").          *)
GlobalKept ==
    (files.project = Absent /\ files.global # Broken) =>
      Merge([l \in {"defaults", "global", "project"} |->
               IF l = "defaults" THEN DefaultConfig ELSE ReadLayer(files[l])])
      = Merge([l \in {"defaults", "global"} |->
               IF l = "defaults" THEN DefaultConfig ELSE ReadLayer(files[l])])
=============================================================================
