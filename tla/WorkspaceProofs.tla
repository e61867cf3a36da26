--------------------------- MODULE WorkspaceProofs ---------------------------
(***************************************************************************)
(* Proofs about Workspace and Config: what the merge of any two valid      *)
(* documents is, what a runtime override can do to any configuration, what *)
(* any number of concurrent `config init` runs leave in .gitignore, and    *)
(* where the tools of any chat reach.                                      *)
(***************************************************************************)
EXTENDS Workspace, TLAPS

-----------------------------------------------------------------------------
(* The merge of valid layers *)

GlobsCompile(c) == (c.restricted \cup c.blocked) \cap BadGlobs = {}

\* What a configuration without findings is.
LEMMA ValidMeans ==
    ASSUME NEW c, Validate(c) = {}
    PROVE  /\ c.routing.default # None
           /\ DOMAIN c.providers # {}
           /\ GlobsCompile(c)
           /\ \A i \in DOMAIN c.routing.rules :
                 c.routing.rules[i].paths \cap BadGlobs = {}
  <1>1. c.routing.default # None
    BY DEF Validate, CheckRoutingStructure, Finding
  <1>2. DOMAIN c.providers # {}
    <2>1. c.routing.default \in Routes(c.routing)
      BY <1>1 DEF Routes
    <2>2. c.routing.default.model \in ModelsOf(c.routing.default)
      BY DEF ModelsOf
    <2>3. \A r \in Routes(c.routing) : \A m \in ModelsOf(r) :
             ProviderOf[m] \in DOMAIN c.providers
      BY DEF Validate, CheckReferences, Finding
    <2> QED BY <2>1, <2>2, <2>3
  <1>3. (c.restricted \cup c.blocked \cup
           UNION {c.routing.rules[i].paths : i \in DOMAIN c.routing.rules})
             \cap BadGlobs = {}
    BY DEF Validate, CheckGlobs, Finding
  <1>4. \A i \in DOMAIN c.routing.rules :
           c.routing.rules[i].paths \cap BadGlobs = {}
    BY <1>3
  <1>5. GlobsCompile(c)
    BY <1>3 DEF GlobsCompile
  <1> QED BY <1>1, <1>2, <1>4, <1>5

\* What a merge does to the fields the policy is about.
LEMMA MergeFields ==
    ASSUME NEW low, NEW high, NEW preference
    PROVE  LET m == MergeTwo(low, high, preference)
           IN  /\ m.restricted = low.restricted \cup high.restricted
               /\ m.blocked = low.blocked \cup high.blocked
               /\ m.remote =
                    MergeMode(low.remote, high.remote, Ask, preference)
               /\ m.local =
                    MergeMode(low.local, high.local, Allow, preference)
               /\ m.tools = MergeTools(low.tools, high.tools, preference)
  <1> DEFINE privacy == MergePrivacy(low, high, preference)
             m == MergeTwo(low, high, preference)
  <1>1. /\ privacy.restricted = low.restricted \cup high.restricted
        /\ privacy.blocked = low.blocked \cup high.blocked
        /\ privacy.remote = MergeMode(low.remote, high.remote, Ask, preference)
        /\ privacy.local = MergeMode(low.local, high.local, Allow, preference)
    BY DEF MergePrivacy
  <1>2. /\ m.restricted = privacy.restricted /\ m.blocked = privacy.blocked
        /\ m.remote = privacy.remote /\ m.local = privacy.local
        /\ m.tools = MergeTools(low.tools, high.tools, preference)
    BY DEF MergeTwo
  <1> QED BY <1>1, <1>2

\* A valid layer brings its own providers and its own routing, so what is
\* valid in itself is valid over any layer whose patterns compile.
LEMMA ValidMerge ==
    ASSUME NEW low, NEW high, NEW preference,
           GlobsCompile(low), Validate(high) = {}
    PROVE  /\ Validate(MergeTwo(low, high, preference)) = {}
           /\ GlobsCompile(MergeTwo(low, high, preference))
  <1> DEFINE m == MergeTwo(low, high, preference)
  <1>1. /\ high.routing.default # None /\ DOMAIN high.providers # {}
        /\ GlobsCompile(high)
    BY ValidMeans
  <1>2. high.routing # EmptyRouting
    BY <1>1 DEF EmptyRouting, Routing
  <1>3. m.routing = high.routing /\ m.providers = high.providers
    BY <1>1, <1>2 DEF MergeTwo, MergeRouting, ReplaceIfNonEmpty
  <1>4. /\ m.restricted = low.restricted \cup high.restricted
        /\ m.blocked = low.blocked \cup high.blocked
    BY MergeFields
  <1> HIDE DEF m
  <1>5. GlobsCompile(m)
    BY <1>1, <1>4 DEF GlobsCompile
  <1>6. /\ CheckReferences(m) = {} /\ CheckRoutingStructure(m) = {}
        /\ CheckRuleAmbiguity(m) = {} /\ CheckInlineSecrets(m) = {}
    BY <1>3, ZenonT(40) DEF Validate, CheckReferences, CheckRoutingStructure,
       CheckRuleAmbiguity, CheckInlineSecrets
  <1>7. CheckGlobs(m) = {}
    <2>1. \A i \in DOMAIN high.routing.rules :
             high.routing.rules[i].paths \cap BadGlobs = {}
      BY ValidMeans
    <2> QED BY <1>3, <1>5, <2>1 DEF CheckGlobs, GlobsCompile, Finding
  <1>8. Validate(m) = {} /\ GlobsCompile(m)
    BY <1>5, <1>6, <1>7 DEF Validate
  <1> QED BY <1>8 DEF m

\* The built-in configuration names no pattern.
LEMMA DefaultGlobs ==
    ASSUME NEW preference
    PROVE  GlobsCompile(MergeTwo(DefaultConfig, DefaultConfig, preference))
  <1>1. DefaultConfig.restricted = {} /\ DefaultConfig.blocked = {}
    BY DEF DefaultConfig
  <1> DEFINE m == MergeTwo(DefaultConfig, DefaultConfig, preference)
  <1>2. m.restricted = {} /\ m.blocked = {}
    BY <1>1, MergeFields
  <1> QED BY <1>2 DEF GlobsCompile

\* Merge, layer by layer.
LEMMA MergeOf ==
    ASSUME NEW ls
    PROVE  LET Onto(acc, layer) ==
                 IF layer \in DOMAIN ls
                 THEN MergeTwo(acc, ls[layer], layer = "runtime") ELSE acc
           IN  Merge(ls) = Onto(Onto(Onto(Onto(DefaultConfig, "defaults"),
                                          "global"), "project"), "runtime")
  BY DEF Merge, Layers, IsPreference

\* If `config check` accepts the global and the project file then the
\* effective configuration loads, for every pair of documents: whichever
\* sections each of them sets, whatever providers, models, rules and patterns
\* they name (load_and_validate_at, merge, validate).
THEOREM CheckedFilesLoad == Spec => []CheckedLoads
  <1>1. CheckedLoads
    <2> SUFFICES ASSUME FileErrors("global", files.global) = {},
                        FileErrors("project", files.project) = {}
                 PROVE  LET ls == [l \in {"defaults", "global", "project"} |->
                                     IF l = "defaults" THEN DefaultConfig
                                     ELSE ReadLayer(files[l])]
                        IN  ValidateLayers(Merge(ls), ls) = {}
      BY DEF CheckedLoads
    <2> DEFINE ls == [l \in {"defaults", "global", "project"} |->
                        IF l = "defaults" THEN DefaultConfig
                        ELSE ReadLayer(files[l])]
               a == MergeTwo(DefaultConfig, DefaultConfig, FALSE)
               b == MergeTwo(a, ls["global"], FALSE)
    <2>1. /\ Validate(ReadLayer(files.global)) = {}
          /\ Validate(ReadLayer(files.project)) = {}
      BY DEF FileErrors, ValidateLayers
    <2>2. /\ ls["defaults"] = DefaultConfig
          /\ ls["global"] = ReadLayer(files.global)
          /\ ls["project"] = ReadLayer(files.project)
          /\ DOMAIN ls = {"defaults", "global", "project"}
      OBVIOUS
    <2>3. GlobsCompile(a)
      BY DefaultGlobs
    <2> HIDE DEF ls, a
    <2>4. GlobsCompile(b)
      BY <2>1, <2>2, <2>3, ValidMerge
    <2> HIDE DEF b
    <2>5. Validate(MergeTwo(b, ls["project"], FALSE)) = {}
      BY <2>1, <2>2, <2>4, ValidMerge
    <2>6. Merge(ls) = MergeTwo(b, ls["project"], FALSE)
      BY <2>2, MergeOf DEF a, b
    <2>7. CheckProvenance(ls) = {}
      BY <2>2 DEF CheckProvenance, IsPreference
    <2>8. ValidateLayers(Merge(ls), ls) = {}
      BY <2>5, <2>6, <2>7 DEF ValidateLayers
    <2> QED BY <2>8 DEF ls
  <1> QED BY <1>1, PTL

-----------------------------------------------------------------------------
(* Where an invocation is, and what it was asked to do *)

CliFile == CliDocs \cup {Absent, Broken, EmptyDoc, DefaultConfig}
RouterFile == RouterDocs \cup {Absent, Broken, EmptyDoc, DefaultRouterConfig}
AnyFile == CliFile \cup RouterFile

InitOf(c) == c.op = "init" /\ c.scope \in Scopes
LoadOf(c) ==
    /\ c.op \in {"effective", "load", "chat"}
    /\ c.op = "load" => c.runtime \in Overrides \cup {None}

\* The command an invocation works on, by where it is.
AtWork(p) ==
    /\ pc[p] \in {"init", "write"} => InitOf(cmd[p])
    /\ pc[p] \in {"ignore", "truncate", "ignorewrite"} =>
          InitOf(cmd[p]) /\ cmd[p].scope = "project"
    /\ pc[p] \in {"check", "show", "edit"} =>
          cmd[p].op = pc[p] /\ cmd[p].scope \in Scopes
    /\ pc[p] \in {"global", "project"} => LoadOf(cmd[p])
    /\ pc[p] = "start" => cmd[p].op = "start"
    /\ pc[p] \in {"discover", "discover2", "ready", "editwrite"} =>
          cmd[p].op = "chat"
    /\ pc[p] = "ok" => \/ cmd[p] = None
                       \/ LoadOf(cmd[p]) /\ cmd[p].op = "load"
                       \/ InitOf(cmd[p]) /\ cmd[p].scope = "project"

Control ==
    /\ files \in [Scopes -> AnyFile]
    /\ files.global \in CliFile /\ files.project \in CliFile
    /\ files.router \in RouterFile
    /\ pc = [p \in Procs |-> pc[p]] /\ cmd = [p \in Procs |-> cmd[p]]
    /\ \A p \in Procs : AtWork(p)

\* The step is one of invocation p, to l; it works on the same command, or is
\* done with it.
Moves(p, l) ==
    /\ pc' = [pc EXCEPT ![p] = l]
    /\ cmd'[p] = IF l = "failed" \/ (l = "ok" /\ ~Promises(cmd[p]))
                 THEN None ELSE cmd[p]
    /\ \A q \in Procs : q # p => cmd'[q] = cmd[q]
    /\ cmd' = [q \in Procs |-> cmd'[q]]

LEMMA GotoMoves ==
    ASSUME cmd = [p \in Procs |-> cmd[p]], NEW p \in Procs, NEW l, Goto(p, l)
    PROVE  Moves(p, l)
  BY DEF Goto, Moves

\* What the files hold stays what somebody wrote into them.
LEMMA FilesStep ==
    ASSUME Control, [Next]_vars
    PROVE  /\ files' \in [Scopes -> AnyFile]
           /\ files'.global \in CliFile /\ files'.project \in CliFile
           /\ files'.router \in RouterFile
  <1> DEFINE Fits(f) == /\ f \in [Scopes -> AnyFile]
                        /\ f.global \in CliFile /\ f.project \in CliFile
                        /\ f.router \in RouterFile
             Of(s) == IF s = "router" THEN RouterFile ELSE CliFile
  <1>1. \A s \in Scopes : \A doc \in Of(s) : Fits([files EXCEPT ![s] = doc])
    BY DEF Control, Scopes, AnyFile
  <1>2. \A s \in Scopes :
           /\ Docs(s) \subseteq Of(s) /\ files[s] \in Of(s)
           /\ {Absent, Broken, EmptyDoc, Template(s)} \subseteq Of(s)
    BY DEF Docs, Template, RouterFile, CliFile, Control, Scopes
  <1>3. Fits(files)
    BY DEF Control
  <1> HIDE DEF Fits, Of
  <1>4. files' = files \/ \E s \in Scopes : \E doc \in Of(s) :
           files' = [files EXCEPT ![s] = doc]
    <2>1. ASSUME NEW p \in Procs, InitOpen(p) \/ InitWrite(p) \/ EditFile(p)
          PROVE  files' = files \/ \E doc \in Of(cmd[p].scope) :
                    files' = [files EXCEPT ![cmd[p].scope] = doc]
      <3>1. cmd[p].scope \in Scopes
        BY <2>1 DEF Control, AtWork, InitOf, InitOpen, InitWrite, EditFile
      <3> QED BY <1>2, <2>1, <3>1 DEF InitOpen, InitWrite, EditFile
    <2>2. ASSUME NEW p \in Procs, InitOpen(p) \/ InitWrite(p) \/ EditFile(p)
          PROVE  cmd[p].scope \in Scopes
      BY <2>2 DEF Control, AtWork, InitOf, InitOpen, InitWrite, EditFile
    <2>3. ASSUME NEW s \in Scopes, NEW doc \in Docs(s) \cup {Absent, Broken},
                 UserSaves(s, doc)
          PROVE  doc \in Of(s) /\ files' = [files EXCEPT ![s] = doc]
      BY <1>2, <2>3 DEF UserSaves
    <2>4. ASSUME NEW p \in Procs,
                 \/ \E c \in Commands : Invoke(p, c)
                 \/ IgnoreRead(p) \/ IgnoreTruncate(p) \/ IgnoreWrite(p)
                 \/ Check(p) \/ ShowLayer(p)
                 \/ ReadGlobal(p) \/ ReadProject(p) \/ StartRouter(p)
                 \/ Discover(p) \/ BuildRequest(p) \/ EditWrite(p) \/ Quit(p)
                 \/ \E c \in ToolCalls : \/ RefusePath(p, c) \/ ReadFile(p, c)
                                         \/ WriteFile(p, c) \/ EditRead(p, c)
          PROVE  files' = files
      BY <2>4 DEF Invoke, IgnoreRead, IgnoreTruncate, IgnoreWrite, Check,
         ShowLayer, ReadGlobal, ReadProject, StartRouter, Discover,
         BuildRequest, EditWrite, Quit, RefusePath, ReadFile, WriteFile,
         EditRead, fileVars
    <2>5. ASSUME UserIgnores \/ UNCHANGED vars
                 \/ \E r \in Range(Roots), n \in Names, d \in Descriptors :
                       UserChangesSkill(r, n, d)
          PROVE  files' = files
      BY <2>5 DEF UserIgnores, vars, UserChangesSkill
    <2> QED BY <2>1, <2>2, <2>3, <2>4, <2>5 DEF Next
  <1>5. Fits(files')
    BY <1>1, <1>3, <1>4
  <1> QED BY <1>5 DEF Fits

\* A step of one invocation leaves the others where they are.
LEMMA OthersStay ==
    ASSUME Control, NEW p \in Procs, NEW l, Moves(p, l), AtWork(p)'
    PROVE  /\ \A q \in Procs : AtWork(q)'
           /\ pc' = [q \in Procs |-> pc'[q]]
           /\ cmd' = [q \in Procs |-> cmd'[q]]
  <1>1. \A q \in Procs : q # p => pc'[q] = pc[q] /\ cmd'[q] = cmd[q]
    BY DEF Moves, Control
  <1>2. \A q \in Procs : q # p => AtWork(q)'
    BY <1>1 DEF Control, AtWork
  <1> QED BY <1>2 DEF Moves, Control

\* Every action of an invocation moves it on with the command it has.
LEMMA StepMoves ==
    ASSUME Control, NEW p \in Procs,
           \/ InitOpen(p) \/ InitWrite(p)
           \/ IgnoreRead(p) \/ IgnoreTruncate(p) \/ IgnoreWrite(p)
           \/ Check(p) \/ ShowLayer(p) \/ EditFile(p)
           \/ ReadGlobal(p) \/ ReadProject(p) \/ StartRouter(p)
           \/ Discover(p) \/ EditWrite(p) \/ Quit(p)
    PROVE  \E l : Moves(p, l) /\ AtWork(p)'
  <1>1. /\ AtWork(p) /\ cmd = [q \in Procs |-> cmd[q]]
        /\ pc = [q \in Procs |-> pc[q]]
    BY DEF Control
  <1>2. ASSUME NEW l, Goto(p, l)
        PROVE  Moves(p, l) /\ pc'[p] = l
               /\ cmd'[p] = IF l = "failed" \/ (l = "ok" /\ ~Promises(cmd[p]))
                            THEN None ELSE cmd[p]
    BY <1>1, <1>2, GotoMoves DEF Moves
  <1> USE DEF AtWork, InitOf, LoadOf, Promises
  <1>3. CASE InitOpen(p)
    BY <1>1, <1>2, <1>3 DEF InitOpen
  <1>4. CASE InitWrite(p)
    BY <1>1, <1>2, <1>4 DEF InitWrite
  <1>5. CASE IgnoreRead(p) \/ IgnoreTruncate(p) \/ IgnoreWrite(p)
    BY <1>1, <1>2, <1>5 DEF IgnoreRead, IgnoreTruncate, IgnoreWrite
  <1>6. CASE Check(p) \/ ShowLayer(p)
    <2>1. PICK l \in {"ok", "failed"} : Goto(p, l)
      BY <1>6 DEF Check, ShowLayer, End
    <2>2. pc[p] \in {"check", "show"}
      BY <1>6 DEF Check, ShowLayer
    <2> QED BY <1>1, <1>2, <2>1, <2>2
  <1>7. CASE EditFile(p)
    <2>1. PICK l \in {"ok", "failed"} : Goto(p, l)
      BY <1>7 DEF EditFile
    <2> QED BY <1>1, <1>2, <1>7, <2>1 DEF EditFile
  <1>8. CASE ReadGlobal(p)
    BY <1>1, <1>2, <1>8 DEF ReadGlobal
  <1>9. CASE ReadProject(p)
    <2>1. PICK l : /\ Goto(p, l)
                   /\ \/ l = "failed"
                      \/ l = "discover" /\ cmd[p].op = "chat"
                      \/ l = "ok" /\ cmd[p].op # "chat"
      BY <1>9 DEF ReadProject
    <2> QED BY <1>1, <1>2, <1>9, <2>1 DEF ReadProject
  <1>10. CASE StartRouter(p)
    <2>1. PICK l \in {"failed", "serving"} : Goto(p, l)
      BY <1>10 DEF StartRouter
    <2> QED BY <1>1, <1>2, <2>1
  <1>11. CASE Discover(p)
    <2>1. PICK l \in {"discover2", "ready"} : Goto(p, l)
      BY <1>11 DEF Discover
    <2> QED BY <1>1, <1>2, <1>11, <2>1 DEF Discover
  <1>12. CASE EditWrite(p) \/ Quit(p)
    BY <1>1, <1>2, <1>12 DEF EditWrite, Quit
  <1> QED BY <1>3, <1>4, <1>5, <1>6, <1>7, <1>8, <1>9, <1>10, <1>11, <1>12

LEMMA ControlStep ==
    ASSUME Control, [Next]_vars
    PROVE  Control'
  <1>1. SUFFICES /\ \A q \in Procs : AtWork(q)'
                 /\ pc' = [q \in Procs |-> pc'[q]]
                 /\ cmd' = [q \in Procs |-> cmd'[q]]
    BY FilesStep DEF Control
  <1>2. ASSUME NEW p \in Procs, NEW c \in Commands, Invoke(p, c)
        PROVE  /\ \A q \in Procs : AtWork(q)'
               /\ pc' = [q \in Procs |-> pc'[q]]
               /\ cmd' = [q \in Procs |-> cmd'[q]]
    <2>1. /\ pc' = [pc EXCEPT ![p] = IF c.op \in {"effective", "load", "chat"}
                                     THEN "global" ELSE c.op]
          /\ cmd' = [cmd EXCEPT ![p] = c]
      BY <1>2 DEF Invoke
    <2>2. /\ pc = [q \in Procs |-> pc[q]] /\ cmd = [q \in Procs |-> cmd[q]]
          /\ \A q \in Procs : AtWork(q)
      BY DEF Control
    <2>3. \A q \in Procs : q # p => pc'[q] = pc[q] /\ cmd'[q] = cmd[q]
      BY <2>1, <2>2
    <2>4. /\ cmd'[p] = c
          /\ pc'[p] = IF c.op \in {"effective", "load", "chat"}
                      THEN "global" ELSE c.op
      BY <2>1, <2>2
    <2>5. \/ c.op = "init" /\ c.scope \in Scopes
          \/ c.op \in {"check", "show", "edit"} /\ c.scope \in Scopes
          \/ c.op \in {"effective", "chat", "start"}
          \/ c.op = "load" /\ c.runtime \in Overrides \cup {None}
      BY DEF Commands
    <2>6. AtWork(p)'
      BY <2>4, <2>5 DEF AtWork, InitOf, LoadOf
    <2> QED BY <2>1, <2>2, <2>3, <2>6, ZenonT(40) DEF AtWork
  <1>3. ASSUME NEW p \in Procs, NEW c \in ToolCalls, EditRead(p, c)
        PROVE  \/ UNCHANGED <<pc, cmd>>
               \/ \E l : Moves(p, l) /\ AtWork(p)'
    <2>1. CASE Goto(p, "editwrite")
      <3>1. cmd[p].op = "chat"
        BY <1>3 DEF EditRead, Control, AtWork
      <3>2. Moves(p, "editwrite")
        BY <2>1, GotoMoves DEF Control
      <3>3. pc'[p] = "editwrite" /\ cmd'[p] = cmd[p]
        BY <3>2 DEF Moves, Control
      <3> QED BY <3>1, <3>2, <3>3 DEF AtWork
    <2> QED BY <1>3, <2>1 DEF EditRead
  <1>4. CASE UNCHANGED <<pc, cmd>>
    BY <1>4 DEF Control, AtWork
  <1>5. ASSUME NEW p \in Procs,
               \/ BuildRequest(p)
               \/ \E c \in ToolCalls : \/ RefusePath(p, c) \/ ReadFile(p, c)
                                       \/ WriteFile(p, c)
        PROVE  UNCHANGED <<pc, cmd>>
    BY <1>5 DEF BuildRequest, RefusePath, ReadFile, WriteFile
  <1>6. ASSUME \/ \E s \in Scopes : \E doc \in Docs(s) \cup {Absent, Broken} :
                     UserSaves(s, doc)
               \/ UserIgnores \/ UNCHANGED vars
               \/ \E r \in Range(Roots), n \in Names, d \in Descriptors :
                     UserChangesSkill(r, n, d)
        PROVE  UNCHANGED <<pc, cmd>>
    BY <1>6 DEF UserSaves, UserIgnores, vars, UserChangesSkill
  <1> QED
    BY <1>2, <1>3, <1>4, <1>5, <1>6, StepMoves, OthersStay DEF Next

LEMMA ControlInvariant == Spec => []Control
  <1>1. Init => Control
    <2> SUFFICES ASSUME Init PROVE Control
      OBVIOUS
    <2>1. /\ files = [t \in Scopes |-> Absent]
          /\ pc = [q \in Procs |-> Idle] /\ cmd = [q \in Procs |-> None]
      BY DEF Init
    <2>2. \A q \in Procs : AtWork(q)
      BY <2>1 DEF AtWork, Idle
    <2> QED BY <2>1, <2>2 DEF Control, AnyFile, CliFile, RouterFile, Scopes
  <1> QED BY <1>1, ControlStep, PTL DEF Spec

-----------------------------------------------------------------------------
(* The secrets file stays ignored *)

Succeeded(q) == pc[q] = "ok" /\ cmd[q] # None /\ cmd[q].op = "init"

\* No other step than its own last one completes a `config init project`, or
\* ends its rewriting of .gitignore.
LEMMA Elsewhere ==
    ASSUME Control, NEW p \in Procs,
           \/ InitOpen(p) \/ InitWrite(p)
           \/ Check(p) \/ ShowLayer(p) \/ EditFile(p)
           \/ ReadGlobal(p) \/ ReadProject(p) \/ StartRouter(p)
           \/ Discover(p) \/ EditWrite(p) \/ Quit(p)
    PROVE  /\ ignore' = ignore /\ ~Succeeded(p)'
           /\ pc[p] # "ignorewrite" /\ ~Succeeded(p)
  <1>1. PICK l : Moves(p, l)
    BY StepMoves
  <1>2. cmd'[p] # None => cmd'[p] = cmd[p]
    BY <1>1 DEF Moves
  <1>3. /\ pc[p] \in {"init", "write", "check", "show", "edit", "global",
                       "project", "start", "discover", "discover2",
                       "editwrite", "ready"}
        /\ ignore' = ignore
    BY DEF InitOpen, InitWrite, Check, ShowLayer, EditFile, ReadGlobal,
       ReadProject, StartRouter, Discover, EditWrite, Quit, fileVars
  <1>4. CASE InitOpen(p)
    <2>1. pc'[p] \in {"write", "failed"}
      BY <1>4 DEF InitOpen, Goto, Control
    <2> QED BY <1>3, <2>1 DEF Succeeded
  <1>5. CASE InitWrite(p)
    <2>1. cmd[p].op = "init"
      BY <1>5 DEF InitWrite, Control, AtWork, InitOf
    <2>2. pc'[p] = "ok" => cmd[p].scope # "project"
      BY <1>5 DEF InitWrite, Goto, Control
    <2>3. pc'[p] = "ok" => cmd'[p] = None
      BY <1>5, <2>1, <2>2 DEF InitWrite, Goto, Promises, Control
    <2> QED BY <1>3, <2>3 DEF Succeeded
  <1>6. CASE pc[p] \notin {"init", "write"}
    <2>1. cmd[p].op # "init"
      BY <1>3, <1>6 DEF Control, AtWork, LoadOf
    <2> QED BY <1>2, <1>3, <2>1 DEF Succeeded
  <1> QED BY <1>4, <1>5, <1>6 DEF Check, ShowLayer, EditFile, ReadGlobal,
          ReadProject, StartRouter, Discover, EditWrite, Quit

LEMMA SecretsStep ==
    ASSUME Control, SecretsIgnored, [Next]_vars
    PROVE  SecretsIgnored'
  <1> USE DEF Succeeded
  <1>1. ASSUME NEW p \in Procs, IgnoreRead(p)
        PROVE  SecretsIgnored'
    <2>1. CASE KeepsIgnored(p)
      BY <1>1, <2>1 DEF IgnoreRead, KeepsIgnored, fileVars, SecretsIgnored
    <2>2. CASE ~KeepsIgnored(p)
      <3>1. pc'[p] = "truncate" /\ ignore' = ignore /\ pc[p] = "ignore"
        BY <1>1, <2>2 DEF IgnoreRead, Goto, Control, fileVars
      <3>2. \A q \in Procs : q # p => pc'[q] = pc[q] /\ cmd'[q] = cmd[q]
        BY <1>1 DEF IgnoreRead, Goto, Control
      <3> QED BY <3>1, <3>2 DEF SecretsIgnored
    <2> QED BY <2>1, <2>2
  <1>2. ASSUME NEW p \in Procs, IgnoreTruncate(p)
        PROVE  SecretsIgnored'
    <2>1. pc'[p] = "ignorewrite"
      BY <1>2 DEF IgnoreTruncate, Goto, Control
    <2> QED BY <2>1 DEF SecretsIgnored
  <1>3. ASSUME NEW p \in Procs, IgnoreWrite(p)
        PROVE  SecretsIgnored'
    BY <1>3 DEF IgnoreWrite, SecretsIgnored
  <1>4. ASSUME NEW p \in Procs,
               \/ InitOpen(p) \/ InitWrite(p)
               \/ Check(p) \/ ShowLayer(p) \/ EditFile(p)
               \/ ReadGlobal(p) \/ ReadProject(p) \/ StartRouter(p)
               \/ Discover(p) \/ EditWrite(p) \/ Quit(p)
        PROVE  SecretsIgnored'
    <2>1. /\ ignore' = ignore /\ ~Succeeded(p)' /\ pc[p] # "ignorewrite"
      BY <1>4, Elsewhere
    <2>2. PICK l : Moves(p, l)
      BY <1>4, StepMoves
    <2>3. \A q \in Procs : q # p => pc'[q] = pc[q] /\ cmd'[q] = cmd[q]
      BY <2>2 DEF Moves, Control
    <2> QED BY <2>1, <2>3 DEF SecretsIgnored
  <1>5. ASSUME NEW p \in Procs, NEW c \in Commands, Invoke(p, c)
        PROVE  SecretsIgnored'
    <2>1. c.op \in {"init", "check", "show", "edit", "effective", "chat",
                    "load", "start"}
      BY DEF Commands
    <2>2. /\ pc'[p] # "ok" /\ pc[p] # "ignorewrite" /\ ignore' = ignore
          /\ \A q \in Procs : q # p => pc'[q] = pc[q] /\ cmd'[q] = cmd[q]
      BY <1>5, <2>1 DEF Invoke, Control, Idle, fileVars
    <2> QED BY <2>2 DEF SecretsIgnored
  <1>6. ASSUME NEW p \in Procs, NEW c \in ToolCalls, EditRead(p, c)
        PROVE  SecretsIgnored'
    <2>1. /\ pc'[p] # "ok" /\ pc[p] # "ignorewrite" /\ ignore' = ignore
          /\ \A q \in Procs : q # p => pc'[q] = pc[q] /\ cmd'[q] = cmd[q]
      BY <1>6 DEF EditRead, Goto, Control, fileVars
    <2> QED BY <2>1 DEF SecretsIgnored
  <1>7. CASE UNCHANGED <<pc, cmd>> /\ ignore \subseteq ignore'
    BY <1>7 DEF SecretsIgnored
  <1>8. ASSUME NEW p \in Procs,
               \/ BuildRequest(p)
               \/ \E c \in ToolCalls : \/ RefusePath(p, c) \/ ReadFile(p, c)
                                       \/ WriteFile(p, c)
        PROVE  UNCHANGED <<pc, cmd>> /\ ignore \subseteq ignore'
    BY <1>8 DEF BuildRequest, RefusePath, ReadFile, WriteFile, fileVars
  <1>9. ASSUME \/ \E s \in Scopes : \E doc \in Docs(s) \cup {Absent, Broken} :
                     UserSaves(s, doc)
               \/ UserIgnores \/ UNCHANGED vars
               \/ \E r \in Range(Roots), n \in Names, d \in Descriptors :
                     UserChangesSkill(r, n, d)
        PROVE  UNCHANGED <<pc, cmd>> /\ ignore \subseteq ignore'
    BY <1>9 DEF UserSaves, UserIgnores, vars, UserChangesSkill
  <1> QED BY <1>1, <1>2, <1>3, <1>4, <1>5, <1>6, <1>7, <1>8, <1>9 DEF Next

\* Once a `config init project` has succeeded, and while none is rewriting
\* .gitignore, the secrets file is ignored, however many of them, and the
\* user, change .gitignore at the same time (ensure_project_gitignore).
THEOREM SecretsStayIgnored == Spec => []SecretsIgnored
  <1>1. Init => SecretsIgnored
    BY DEF Init, SecretsIgnored, Idle
  <1> QED BY <1>1, SecretsStep, ControlInvariant, PTL DEF Spec

-----------------------------------------------------------------------------
(* A runtime override only tightens *)

ModesFit(c) ==
    /\ c.remote \in Modes \cup {None} /\ c.local \in Modes \cup {None}
    /\ \A t \in DOMAIN c.tools : c.tools[t] \in Modes

\* Every document a user may write parses into modes.
LEMMA ParseFits ==
    ASSUME NEW doc \in CliDocs \cup Overrides \cup {EmptyDoc, DefaultConfig}
    PROVE  ModesFit(Parse(doc)) /\ ModesFit(DefaultConfig)
  <1>1. /\ DefaultConfig.remote = None /\ DefaultConfig.local = None
        /\ DOMAIN DefaultConfig.tools = {} /\ DefaultConfig["remote"] = None
        /\ DefaultConfig["local"] = None /\ DOMAIN DefaultConfig["tools"] = {}
    BY DEF DefaultConfig
  <1>2. ModesFit(DefaultConfig)
    BY <1>1 DEF ModesFit
  <1>3. \A s \in {"remote", "local", "tools"} :
           Parse(doc)[s] =
              IF s \in DOMAIN doc THEN doc[s] ELSE DefaultConfig[s]
    BY DEF Parse, Sections
  <1>4. CASE doc = DefaultConfig
    BY <1>1, <1>3, <1>4 DEF ModesFit
  <1>5. CASE doc = EmptyDoc
    <2>1. DOMAIN doc = {}
      BY <1>5 DEF EmptyDoc
    <2> QED BY <1>1, <1>2, <1>3, <2>1 DEF ModesFit
  <1>6. CASE doc \in CliDocs \cup Overrides
    BY <1>1, <1>2, <1>3, <1>6, DocsAssumption DEF ModesFit
  <1> QED BY <1>2, <1>4, <1>5, <1>6

\* A merge of modes is a mode, and the merge of a preference is no weaker
\* than what it is merged into, nor than what it asks for.
LEMMA MergeFits ==
    ASSUME NEW low, NEW high, NEW preference \in BOOLEAN,
           ModesFit(low), ModesFit(high)
    PROVE  ModesFit(MergeTwo(low, high, preference))
  <1> DEFINE m == MergeTwo(low, high, preference)
  <1>1. /\ m.remote = MergeMode(low.remote, high.remote, Ask, preference)
        /\ m.local = MergeMode(low.local, high.local, Allow, preference)
        /\ m.tools = MergeTools(low.tools, high.tools, preference)
    BY MergeFields
  <1> HIDE DEF m
  <1>2. \A a, b \in Modes \cup {None} : \A d \in Modes :
           MergeMode(a, b, d, preference) \in Modes \cup {None}
    BY DocsAssumption DEF MergeMode, Stricter, Modes, Allow, Deny
  <1>3. m.remote \in Modes \cup {None} /\ m.local \in Modes \cup {None}
    BY <1>1, <1>2 DEF ModesFit, Ask, Allow, Deny, Modes
  <1>4. \A t \in DOMAIN m.tools : m.tools[t] \in Modes
    BY <1>1 DEF MergeTools, ModesFit, Stricter
  <1>5. ModesFit(m)
    BY <1>3, <1>4 DEF ModesFit
  <1> QED BY <1>5 DEF m

LEMMA PreferenceMerge ==
    ASSUME NEW floor, NEW over, ModesFit(floor), ModesFit(over),
           NEW preference \in BOOLEAN
    PROVE  preference =>
           LET now == MergeTwo(floor, over, preference)
           IN  /\ ModeOr(now.remote, Ask) >= ModeOr(floor.remote, Ask)
               /\ ModeOr(now.local, Allow) >= ModeOr(floor.local, Allow)
               /\ ModeOr(now.remote, Ask) >= ModeOr(over.remote, Allow)
               /\ ModeOr(now.local, Allow) >= ModeOr(over.local, Allow)
               /\ (floor.restricted \cup over.restricted)
                     \subseteq now.restricted
               /\ (floor.blocked \cup over.blocked) \subseteq now.blocked
               /\ \A t \in DOMAIN floor.tools : now.tools[t] >= floor.tools[t]
               /\ \A t \in DOMAIN over.tools : now.tools[t] >= over.tools[t]
  <1> DEFINE now == MergeTwo(floor, over, preference)
  <1>1. /\ now.remote = MergeMode(floor.remote, over.remote, Ask, preference)
        /\ now.local = MergeMode(floor.local, over.local, Allow, preference)
        /\ now.tools = MergeTools(floor.tools, over.tools, preference)
        /\ now.restricted = floor.restricted \cup over.restricted
        /\ now.blocked = floor.blocked \cup over.blocked
    BY MergeFields
  <1> HIDE DEF now
  <1> SUFFICES ASSUME preference = TRUE
               PROVE  /\ ModeOr(now.remote, Ask) >= ModeOr(floor.remote, Ask)
                      /\ ModeOr(now.local, Allow) >= ModeOr(floor.local, Allow)
                      /\ ModeOr(now.remote, Ask) >= ModeOr(over.remote, Allow)
                      /\ ModeOr(now.local, Allow) >= ModeOr(over.local, Allow)
                      /\ (floor.restricted \cup over.restricted)
                            \subseteq now.restricted
                      /\ (floor.blocked \cup over.blocked)
                            \subseteq now.blocked
                      /\ \A t \in DOMAIN floor.tools :
                            now.tools[t] >= floor.tools[t]
                      /\ \A t \in DOMAIN over.tools :
                            now.tools[t] >= over.tools[t]
    BY DEF now
  <1>2. \A a, b \in Modes \cup {None} : \A d \in Modes :
           LET m == MergeMode(a, b, d, preference)
           IN  ModeOr(m, d) >= ModeOr(a, d) /\ ModeOr(m, d) >= ModeOr(b, Allow)
    BY DocsAssumption DEF MergeMode, Stricter, Modes, Allow, Deny, ModeOr
  <1>3. Ask \in Modes /\ Allow \in Modes
    BY DEF Ask, Allow, Modes, Deny
  <1>4. /\ ModeOr(now.remote, Ask) >= ModeOr(floor.remote, Ask)
        /\ ModeOr(now.local, Allow) >= ModeOr(floor.local, Allow)
        /\ ModeOr(now.remote, Ask) >= ModeOr(over.remote, Allow)
        /\ ModeOr(now.local, Allow) >= ModeOr(over.local, Allow)
    BY <1>1, <1>2, <1>3 DEF ModesFit
  <1>5. /\ \A t \in DOMAIN floor.tools : now.tools[t] >= floor.tools[t]
        /\ \A t \in DOMAIN over.tools : now.tools[t] >= over.tools[t]
    BY <1>1 DEF MergeTools, ModesFit, Stricter, Modes, Allow, Deny
  <1>6. /\ (floor.restricted \cup over.restricted) \subseteq now.restricted
        /\ (floor.blocked \cup over.blocked) \subseteq now.blocked
    BY <1>1
  <1> QED BY <1>4, <1>5, <1>6

\* The layers a successful load keeps are the ones it read.
Layered(p) ==
    \/ got[p] = EmptyDoc /\ pc[p] # "project"
    \/ /\ pc[p] = "project" /\ DOMAIN got[p] = {"global"}
       /\ ModesFit(got[p]["global"])
    \/ /\ pc[p] = "ok" /\ LoadOf(cmd[p]) /\ cmd[p].op = "load"
       /\ DOMAIN got[p] = {"global", "project"}
       /\ ModesFit(got[p]["global"]) /\ ModesFit(got[p]["project"])
    \/ pc[p] = "serving"

Read ==
    /\ got = [p \in Procs |-> got[p]]
    /\ \A p \in Procs : Layered(p)

LEMMA ReadStep ==
    ASSUME Control, Read, [Next]_vars
    PROVE  Read'
  <1>0. /\ pc = [q \in Procs |-> pc[q]] /\ cmd = [q \in Procs |-> cmd[q]]
        /\ got = [q \in Procs |-> got[q]]
        /\ \A q \in Procs : AtWork(q) /\ Layered(q)
    BY DEF Control, Read
  <1>1. \A s \in {"global", "project"} : files[s] # Broken =>
           ModesFit(ReadLayer(files[s]))
    <2>1. ModesFit(DefaultConfig)
      BY ParseFits
    <2> QED BY <2>1, ParseFits DEF ReadLayer, Control, CliFile
  <1>2. ASSUME NEW p \in Procs, NEW l, Goto(p, l),
               \A q \in Procs : q # p => got'[q] = got[q],
               got' = [q \in Procs |-> got'[q]],
               Layered(p)'
        PROVE  Read'
    <2>1. \A q \in Procs : q # p => pc'[q] = pc[q] /\ cmd'[q] = cmd[q]
      BY <1>0, <1>2 DEF Goto
    <2>2. \A q \in Procs : q # p => Layered(q)'
      BY <1>0, <1>2, <2>1 DEF Layered
    <2> QED BY <1>2, <2>2 DEF Read
  <1>3. ASSUME NEW p \in Procs, ReadGlobal(p)
        PROVE  Read'
    <2>1. got[p] = EmptyDoc /\ pc[p] = "global"
      BY <1>0, <1>3 DEF Layered, ReadGlobal
    <2>2. CASE files.global = Broken
      <3>1. Goto(p, "failed") /\ got' = got
        BY <1>3, <2>2 DEF ReadGlobal
      <3>2. pc'[p] = "failed"
        BY <1>0, <3>1 DEF Goto
      <3>3. Layered(p)'
        BY <2>1, <3>1, <3>2 DEF Layered
      <3> QED BY <1>0, <1>2, <3>1, <3>3
    <2>3. CASE files.global # Broken
      <3> DEFINE g == [l \in {"global"} |-> ReadLayer(files.global)]
      <3>1. /\ got' = [got EXCEPT ![p] = g] /\ Goto(p, "project")
        BY <1>3, <2>3 DEF ReadGlobal
      <3>2. DOMAIN g = {"global"} /\ ModesFit(g["global"])
        BY <1>1, <2>3
      <3> HIDE DEF g
      <3>3. got'[p] = g /\ pc'[p] = "project"
        BY <1>0, <3>1 DEF Goto
      <3>4. Layered(p)'
        BY <3>2, <3>3 DEF Layered
      <3> QED BY <1>0, <1>2, <3>1, <3>4
    <2> QED BY <2>2, <2>3
  <1>4. ASSUME NEW p \in Procs, ReadProject(p)
        PROVE  Read'
    <2>1. pc[p] = "project" /\ LoadOf(cmd[p])
      BY <1>0, <1>4 DEF ReadProject, AtWork
    <2>2. PICK l, g : Goto(p, l) /\ got' = [got EXCEPT ![p] = g]
                      /\ l \in {"failed", "discover", "ok"}
                      /\ (g = EmptyDoc \/
                            /\ files.project # Broken /\ l = "ok"
                            /\ cmd[p].op = "load"
                            /\ g = WithLayer(got[p], "project",
                                             ReadLayer(files.project)))
      BY <1>4 DEF ReadProject
    <2>3. got'[p] = g /\ pc'[p] = l
      BY <1>0, <2>2 DEF Goto
    <2>4. CASE g = EmptyDoc
      BY <1>0, <1>2, <2>2, <2>3, <2>4 DEF Layered
    <2>5. CASE g # EmptyDoc
      <3>1. /\ DOMAIN g = DOMAIN got[p] \cup {"project"}
            /\ ModesFit(g["project"])
            /\ \A k \in DOMAIN got[p] : k # "project" => g[k] = got[p][k]
        BY <1>1, <2>2, <2>5 DEF WithLayer
      <3>2. cmd'[p] = cmd[p] /\ cmd[p].op = "load" /\ l = "ok"
        BY <1>0, <2>2, <2>5 DEF Goto, Promises
      <3>3. DOMAIN got[p] = {"global"} /\ ModesFit(got[p]["global"])
        BY <1>0, <2>1 DEF Layered
      <3>4. Layered(p)'
        BY <2>1, <2>3, <3>1, <3>2, <3>3 DEF Layered
      <3> QED BY <1>0, <1>2, <2>2, <3>4
    <2> QED BY <2>4, <2>5
  <1>5. ASSUME NEW p \in Procs, StartRouter(p)
        PROVE  Read'
    <2>1. PICK l : /\ Goto(p, l)
                   /\ \/ l = "failed" /\ got' = got
                      \/ l = "serving" /\ \E g : got' = [got EXCEPT ![p] = g]
      BY <1>5 DEF StartRouter
    <2>2. got[p] = EmptyDoc
      BY <1>0, <1>5 DEF Layered, StartRouter
    <2>3. /\ \A q \in Procs : q # p => got'[q] = got[q]
          /\ got' = [q \in Procs |-> got'[q]]
          /\ pc'[p] = l
      BY <1>0, <2>1 DEF Goto
    <2>4. Layered(p)'
      BY <2>1, <2>2, <2>3 DEF Layered
    <2> QED BY <1>2, <2>1, <2>3, <2>4
  <1>6. ASSUME NEW p \in Procs,
               \/ InitOpen(p) \/ InitWrite(p)
               \/ IgnoreRead(p) \/ IgnoreTruncate(p) \/ IgnoreWrite(p)
               \/ Check(p) \/ ShowLayer(p) \/ EditFile(p)
               \/ Discover(p) \/ EditWrite(p) \/ Quit(p)
        PROVE  Read'
    <2>1. PICK l \in {"write", "failed", "ignore", "ok", "truncate",
                      "ignorewrite", "discover2", "ready"} : Goto(p, l)
      BY <1>6 DEF InitOpen, InitWrite, IgnoreRead, IgnoreTruncate, IgnoreWrite,
         Check, ShowLayer, EditFile, Discover, EditWrite, Quit, End
    <2>2. /\ got' = got
          /\ pc[p] \in {"init", "write", "ignore", "truncate", "ignorewrite",
                         "check", "show", "edit", "discover", "discover2",
                         "editwrite", "ready"}
      BY <1>6 DEF InitOpen, InitWrite, IgnoreRead, IgnoreTruncate, IgnoreWrite,
         Check, ShowLayer, EditFile, Discover, EditWrite, Quit
    <2>3. got[p] = EmptyDoc
      BY <1>0, <2>2 DEF Layered
    <2>4. pc'[p] = l
      BY <1>0, <2>1 DEF Goto
    <2>5. Layered(p)'
      BY <2>1, <2>2, <2>3, <2>4 DEF Layered
    <2> QED BY <1>0, <1>2, <2>1, <2>2, <2>5
  <1>7. ASSUME NEW p \in Procs, NEW c \in Commands, Invoke(p, c)
        PROVE  Read'
    <2>1. c.op \in {"init", "check", "show", "edit", "effective", "chat",
                    "load", "start"}
      BY DEF Commands
    <2>2. /\ pc'[p] # "project" /\ pc[p] = "idle" /\ got' = got
          /\ \A q \in Procs : q # p => pc'[q] = pc[q] /\ cmd'[q] = cmd[q]
      BY <1>0, <1>7, <2>1 DEF Invoke, Idle
    <2>3. got[p] = EmptyDoc
      BY <1>0, <2>2 DEF Layered
    <2> QED BY <1>0, <2>2, <2>3 DEF Read, Layered
  <1>8. ASSUME NEW p \in Procs, NEW c \in ToolCalls, EditRead(p, c)
        PROVE  Read'
    <2>1. got' = got /\ (UNCHANGED <<pc, cmd>> \/ Goto(p, "editwrite"))
          /\ pc[p] = "ready"
      BY <1>8 DEF EditRead
    <2>2. got[p] = EmptyDoc
      BY <1>0, <2>1 DEF Layered
    <2>3. CASE Goto(p, "editwrite")
      <3>1. pc'[p] = "editwrite"
        BY <1>0, <2>3 DEF Goto
      <3>2. Layered(p)'
        BY <2>1, <2>2, <3>1 DEF Layered
      <3> QED BY <1>0, <1>2, <2>1, <2>3, <3>2
    <2>4. CASE UNCHANGED <<pc, cmd>>
      BY <1>0, <2>1, <2>4 DEF Read, Layered
    <2> QED BY <2>1, <2>3, <2>4
  <1>9. CASE UNCHANGED <<pc, cmd, got>>
    BY <1>0, <1>9 DEF Read, Layered
  <1>10. ASSUME NEW p \in Procs,
                \/ BuildRequest(p)
                \/ \E c \in ToolCalls : \/ RefusePath(p, c) \/ ReadFile(p, c)
                                        \/ WriteFile(p, c)
         PROVE  UNCHANGED <<pc, cmd, got>>
    BY <1>10 DEF BuildRequest, RefusePath, ReadFile, WriteFile
  <1>11. ASSUME \/ \E s \in Scopes : \E doc \in Docs(s) \cup {Absent, Broken} :
                      UserSaves(s, doc)
                \/ UserIgnores \/ UNCHANGED vars
                \/ \E r \in Range(Roots), n \in Names, d \in Descriptors :
                      UserChangesSkill(r, n, d)
         PROVE  UNCHANGED <<pc, cmd, got>>
    BY <1>11 DEF UserSaves, UserIgnores, vars, UserChangesSkill
  <1> QED
    BY <1>3, <1>4, <1>5, <1>6, <1>7, <1>8, <1>9, <1>10, <1>11 DEF Next

\* A runtime override never weakens what the configuration files set, and
\* what it tightens is in force, for every three documents: whichever modes,
\* path lists and tool permissions each of them sets or leaves out
\* (merge_mode, merge_tools, merge_privacy).
THEOREM OverridesOnlyTighten == Spec => []PreferenceTightens
  <1>1. Init => Read
    BY DEF Init, Read, Layered, Idle
  <1>2. Read => PreferenceTightens
    <2> SUFFICES ASSUME Read, NEW p \in Procs, pc[p] = "ok",
                        DOMAIN got[p] = {"global", "project"},
                        cmd[p].op = "load", cmd[p].runtime # None
                 PROVE  LET floor == Merge(WithLayer(got[p], "defaults",
                                                     DefaultConfig))
                            over == Parse(cmd[p].runtime)
                            now == Effective(p)
                        IN
                        /\ ModeOr(now.remote, Ask) >= ModeOr(floor.remote, Ask)
                        /\ ModeOr(now.local, Allow)
                             >= ModeOr(floor.local, Allow)
                        /\ ModeOr(now.remote, Ask)
                             >= ModeOr(over.remote, Allow)
                        /\ ModeOr(now.local, Allow)
                             >= ModeOr(over.local, Allow)
                        /\ (floor.restricted \cup over.restricted)
                              \subseteq now.restricted
                        /\ (floor.blocked \cup over.blocked)
                              \subseteq now.blocked
                        /\ \A t \in DOMAIN floor.tools :
                              now.tools[t] >= floor.tools[t]
                        /\ \A t \in DOMAIN over.tools :
                              now.tools[t] >= over.tools[t]
      BY DEF PreferenceTightens
    <2> DEFINE ls == WithLayer(got[p], "defaults", DefaultConfig)
               over == Parse(cmd[p].runtime)
               all == WithLayer(ls, "runtime", over)
               a == MergeTwo(DefaultConfig, DefaultConfig, FALSE)
               b == MergeTwo(a, got[p]["global"], FALSE)
               floor == MergeTwo(b, got[p]["project"], FALSE)
    <2>1. /\ cmd[p].runtime \in Overrides
          /\ ModesFit(got[p]["global"]) /\ ModesFit(got[p]["project"])
      <3>1. DOMAIN EmptyDoc = {}
        BY DEF EmptyDoc
      <3> QED BY <3>1 DEF Read, Layered, LoadOf
    <2>2. ModesFit(over) /\ ModesFit(DefaultConfig)
      BY <2>1, ParseFits
    <2>3. /\ DOMAIN ls = {"defaults", "global", "project"}
          /\ ls["defaults"] = DefaultConfig /\ ls["global"] = got[p]["global"]
          /\ ls["project"] = got[p]["project"]
      BY DEF WithLayer
    <2> HIDE DEF ls, over
    <2>4. /\ DOMAIN all = {"defaults", "global", "project", "runtime"}
          /\ all["defaults"] = DefaultConfig
          /\ all["global"] = got[p]["global"]
          /\ all["project"] = got[p]["project"] /\ all["runtime"] = over
      BY <2>3 DEF WithLayer
    <2> HIDE DEF all
    <2>5. ModesFit(a)
      BY <2>2, MergeFits
    <2> HIDE DEF a
    <2>6. ModesFit(b)
      BY <2>1, <2>5, MergeFits
    <2> HIDE DEF b
    <2>7. ModesFit(floor)
      BY <2>1, <2>6, MergeFits
    <2>8. Merge(ls) = floor
      BY <2>3, MergeOf DEF a, b
    <2>9. Merge(all) = MergeTwo(floor, over, TRUE)
      BY <2>4, MergeOf DEF a, b
    <2>10. Effective(p) = Merge(all)
      BY DEF Effective, LayersOf, Complete, all, ls, over
    <2> HIDE DEF floor
    <2>11. PICK preference \in BOOLEAN : preference = TRUE
      OBVIOUS
    <2>12. Effective(p) = MergeTwo(floor, over, preference)
      BY <2>9, <2>10, <2>11
    <2> QED BY <2>2, <2>7, <2>8, <2>11, <2>12, PreferenceMerge DEF ls, over
  <1> QED BY <1>1, <1>2, ReadStep, ControlInvariant, PTL DEF Spec

-----------------------------------------------------------------------------
(* A router that serves does what its configuration says *)

DoesAsTold(c) ==
    /\ c.rate_limit.enabled => LimiterOn(c)
    /\ c.mode = "remote" => ~c.local_bootstrap_enabled

LEMMA AcceptedDoesAsTold ==
    ASSUME NEW c, RouterErrors(c) = {},
           c.rate_limit \in [enabled : BOOLEAN, period : Nat, burst : Nat]
    PROVE  DoesAsTold(c)
  BY DEF RouterErrors, CheckAuth, CheckRateLimit, DoesAsTold, LimiterOn, Finding

\* What `smista start` makes of a file it could read keeps its rate limit.
LEMMA LimitIsParsed ==
    ASSUME NEW doc \in RouterFile \ {Broken}, NEW flags
    PROVE  LET file == LoadRouter(doc)
               conf == [file EXCEPT !.otel = ResolveOpenTelemetry(@, flags)]
           IN  conf.rate_limit
                 \in [enabled : BOOLEAN, period : Nat, burst : Nat]
  <1> DEFINE file == LoadRouter(doc)
             Limits == [enabled : BOOLEAN, period : Nat, burst : Nat]
  <1>1. /\ {"rate_limit", "otel"} \subseteq DOMAIN DefaultRouterConfig
        /\ DefaultRouterConfig["rate_limit"] \in Limits
    BY DEF DefaultRouterConfig
  <1>2. /\ {"rate_limit", "otel"} \subseteq DOMAIN file
        /\ file["rate_limit"] \in Limits
        /\ file = [s \in DOMAIN file |-> file[s]]
    <2>1. CASE doc = Absent
      <3>1. DefaultRouterConfig = [s \in DOMAIN DefaultRouterConfig |-> DefaultRouterConfig[s]]
        BY DEF DefaultRouterConfig
      <3> QED BY <1>1, <2>1, <3>1 DEF LoadRouter
    <2>2. CASE doc # Absent
      <3>1. file = ParseRouter(doc)
        BY <2>2 DEF LoadRouter
      <3>2. DOMAIN file = DOMAIN DefaultRouterConfig
            /\ file["rate_limit"] = IF "rate_limit" \in DOMAIN doc THEN doc["rate_limit"]
                                    ELSE DefaultRouterConfig["rate_limit"]
        BY <1>1, <3>1 DEF ParseRouter
      <3>3. "rate_limit" \in DOMAIN doc => doc["rate_limit"] \in Limits
        <4>1. CASE doc \in RouterDocs
          BY <4>1, DocsAssumption
        <4>2. CASE doc = EmptyDoc
          BY <4>2 DEF EmptyDoc
        <4>3. CASE doc = DefaultRouterConfig
          BY <1>1, <4>3
        <4> QED BY <2>2, <4>1, <4>2, <4>3 DEF RouterFile
      <3>4. file = [s \in DOMAIN file |-> file[s]]
        BY <3>1 DEF ParseRouter
      <3> QED BY <1>1, <3>2, <3>3, <3>4
    <2> QED BY <2>1, <2>2
  <1> HIDE DEF file
  <1>3. "otel" # "rate_limit"
    OBVIOUS
  <1>4. [file EXCEPT !["otel"] = ResolveOpenTelemetry(@, flags)]["rate_limit"] = file["rate_limit"]
    BY <1>2, <1>3
  <1>5. [file EXCEPT !.otel = ResolveOpenTelemetry(@, flags)].rate_limit \in Limits
    BY <1>2, <1>4
  <1> QED BY <1>5 DEF file

LEMMA ServingStep ==
    ASSUME Control, Read, ServedAsConfigured, [Next]_vars
    PROVE  ServedAsConfigured'
  <1>0. /\ pc = [q \in Procs |-> pc[q]] /\ got = [q \in Procs |-> got[q]]
        /\ \A q \in Procs : pc[q] = "serving" => DoesAsTold(got[q].router)
    BY DEF Control, Read, ServedAsConfigured, DoesAsTold
  <1>1. SUFFICES ASSUME NEW q \in Procs, pc'[q] = "serving"
                 PROVE  DoesAsTold(got'[q].router)
    BY DEF ServedAsConfigured, DoesAsTold
  <1>2. CASE pc[q] = "serving" /\ got'[q] = got[q]
    BY <1>0, <1>2
  <1>3. CASE UNCHANGED <<pc, got>>
    BY <1>0, <1>1, <1>3
  <1>4. ASSUME NEW p \in Procs, StartRouter(p)
        PROVE  DoesAsTold(got'[q].router)
    <2>1. CASE p = q
      <3>1. PICK c : /\ RouterErrors(c) = {}
                     /\ c.rate_limit \in [enabled : BOOLEAN, period : Nat,
                                          burst : Nat]
                     /\ got' = [got EXCEPT ![p] = [l \in {"router"} |-> c]]
        <4>1. pc'[p] # "failed"
          BY <1>1, <2>1
        <4>2. files.router # Broken
          BY <1>0, <1>4, <4>1 DEF StartRouter, Goto
        <4>3. files.router \in RouterFile \ {Broken}
          BY <4>2 DEF Control
        <4> QED BY <1>0, <1>4, <4>1, <4>3, LimitIsParsed DEF StartRouter, Goto
      <3>2. got'[q] = [l \in {"router"} |-> c]
        BY <1>0, <2>1, <3>1
      <3>3. got'[q].router = c
        BY <3>2
      <3> QED BY <3>1, <3>3, AcceptedDoesAsTold
    <2>2. CASE p # q
      <3>1. pc'[q] = pc[q] /\ got'[q] = got[q]
        BY <1>0, <1>4, <2>2 DEF StartRouter, Goto
      <3> QED BY <1>1, <1>2, <3>1
    <2> QED BY <2>1, <2>2
  <1>5. ASSUME NEW p \in Procs, NEW l, Goto(p, l), l # "serving",
               \A r \in Procs : r # p => got'[r] = got[r]
        PROVE  DoesAsTold(got'[q].router)
    <2>1. q # p /\ pc'[q] = pc[q]
      BY <1>0, <1>1, <1>5 DEF Goto
    <2> QED BY <1>1, <1>2, <1>5, <2>1
  <1>6. ASSUME NEW p \in Procs,
               \/ InitOpen(p) \/ InitWrite(p)
               \/ IgnoreRead(p) \/ IgnoreTruncate(p) \/ IgnoreWrite(p)
               \/ Check(p) \/ ShowLayer(p) \/ EditFile(p)
               \/ ReadGlobal(p) \/ ReadProject(p)
               \/ Discover(p) \/ EditWrite(p) \/ Quit(p)
        PROVE  DoesAsTold(got'[q].router)
    <2>1. PICK l \in {"write", "failed", "ignore", "ok", "truncate",
                      "ignorewrite", "project", "discover", "discover2",
                      "ready"} : Goto(p, l)
      BY <1>6 DEF InitOpen, InitWrite, IgnoreRead, IgnoreTruncate, IgnoreWrite,
         Check, ShowLayer, EditFile, ReadGlobal, ReadProject, Discover,
         EditWrite, Quit, End
    <2>2. \A r \in Procs : r # p => got'[r] = got[r]
      BY <1>0, <1>6 DEF InitOpen, InitWrite, IgnoreRead, IgnoreTruncate,
         IgnoreWrite, Check, ShowLayer, EditFile, ReadGlobal, ReadProject,
         Discover, EditWrite, Quit
    <2> QED BY <1>5, <2>1, <2>2
  <1>7. ASSUME NEW p \in Procs, NEW c \in Commands, Invoke(p, c)
        PROVE  DoesAsTold(got'[q].router)
    <2>1. c.op # "serving"
      BY DEF Commands
    <2>2. q # p /\ pc'[q] = pc[q] /\ got' = got
      BY <1>0, <1>1, <1>7, <2>1 DEF Invoke
    <2> QED BY <1>1, <1>2, <2>2
  <1>8. ASSUME NEW p \in Procs, NEW c \in ToolCalls, EditRead(p, c)
        PROVE  DoesAsTold(got'[q].router)
    <2>1. got' = got /\ (UNCHANGED <<pc, got>> \/ Goto(p, "editwrite"))
      BY <1>8 DEF EditRead
    <2> QED BY <1>3, <1>5, <2>1
  <1>9. ASSUME NEW p \in Procs,
               \/ BuildRequest(p)
               \/ \E c \in ToolCalls : \/ RefusePath(p, c) \/ ReadFile(p, c)
                                       \/ WriteFile(p, c)
        PROVE  UNCHANGED <<pc, got>>
    BY <1>9 DEF BuildRequest, RefusePath, ReadFile, WriteFile
  <1>10. ASSUME \/ \E s \in Scopes : \E doc \in Docs(s) \cup {Absent, Broken} :
                      UserSaves(s, doc)
                \/ UserIgnores \/ UNCHANGED vars
                \/ \E r \in Range(Roots), n \in Names, d \in Descriptors :
                      UserChangesSkill(r, n, d)
         PROVE  UNCHANGED <<pc, got>>
    BY <1>10 DEF UserSaves, UserIgnores, vars, UserChangesSkill
  <1> QED
    BY <1>3, <1>4, <1>6, <1>7, <1>8, <1>9, <1>10 DEF Next

\* A router that serves limits the rate if it is told to, and on a remote
\* database nobody can create a local key, for every router.toml and every
\* flag of `smista start` (validate, build_router, ResolveOpenTelemetry).
THEOREM ServedAsAccepted == Spec => []ServedAsConfigured
  <1>1. Init => Read /\ ServedAsConfigured
    BY DEF Init, Read, Layered, ServedAsConfigured, Idle
  <1> QED BY <1>1, ServingStep, ReadStep, ControlInvariant, PTL DEF Spec

-----------------------------------------------------------------------------
(* A request offers the skills on disk *)

Found == Range(Roots) \cup {None}
InProject(n) == IF Usable(skills["project"][n]) THEN "project" ELSE None
OnDisk(n) == IF Usable(skills["project"][n]) THEN "project"
             ELSE IF Usable(skills["global"][n]) THEN "global" ELSE None

Discovering == {"discover2", "ready", "editwrite"}
Chatting == {"ready", "editwrite"}

\* What a chat knows of the skills that did not change since it began.
Knows(p) ==
    /\ pc[p] \notin Discovering => \A n \in Names : store[p][n] = None
    /\ pc[p] = "discover2" =>
          \A n \in Names \ stale[p] : store[p][n] = InProject(n)
    /\ pc[p] \in Chatting =>
          \A n \in Names \ stale[p] : store[p][n] = OnDisk(n)
    /\ request[p] # None =>
          /\ pc[p] \in Chatting
          /\ \A n \in Names \ stale[p] : request[p][n] = OnDisk(n)

Skills ==
    /\ skills \in [Range(Roots) -> [Names -> Descriptors]]
    /\ store \in [Procs -> [Names -> Found]]
    /\ stale \in [Procs -> SUBSET Names]
    /\ request = [p \in Procs |-> request[p]]
    /\ \A p \in Procs : request[p] = None \/ request[p] \in [Names -> Found]
    /\ \A p \in Procs : Knows(p)

LEMMA BothRoots == Range(Roots) = {"project", "global"}
                   /\ Roots[1] = "project" /\ Roots[2] = "global"
  <1>1. DOMAIN Roots = {1, 2} /\ Roots[1] = "project" /\ Roots[2] = "global"
    BY DEF Roots
  <1> QED BY <1>1 DEF Range

\* A step that neither begins nor ends a chat, nor adds to what it knows.
LEMMA KnownStays ==
    ASSUME Skills, UNCHANGED <<skills, store, stale, request>>,
           \A p \in Procs : /\ pc'[p] \in Discovering <=> pc[p] \in Discovering
                            /\ pc'[p] \in Chatting <=> pc[p] \in Chatting
    PROVE  Skills'
  <1>1. \A p \in Procs : pc'[p] = "discover2" => pc[p] = "discover2"
    BY DEF Discovering, Chatting
  <1> QED BY <1>1 DEF Skills, Knows, InProject, OnDisk

\* What one chat learns leaves the others with what they know.
LEMMA OthersKnow ==
    ASSUME Control, Skills, skills' = skills, NEW p \in Procs,
           \A q \in Procs : q # p => pc'[q] = pc[q],
           NEW s \in [Names -> Found], store' = [store EXCEPT ![p] = s],
           NEW t \in SUBSET Names, stale' = [stale EXCEPT ![p] = t],
           NEW r \in [Names -> Found] \cup {None},
           request' = [request EXCEPT ![p] = r],
           Knows(p)'
    PROVE  Skills'
  <1>1. \A q \in Procs : q # p => /\ pc'[q] = pc[q] /\ store'[q] = store[q]
                                  /\ stale'[q] = stale[q]
                                  /\ request'[q] = request[q]
    BY DEF Skills
  <1>2. ASSUME NEW q \in Procs, q # p
        PROVE  Knows(q)'
    <2>1. Knows(q) /\ \A n : InProject(n)' = InProject(n) /\ OnDisk(n)' = OnDisk(n)
      BY DEF Skills, InProject, OnDisk
    <2> QED BY <1>1, <1>2, <2>1 DEF Knows
  <1>3. \A q \in Procs : Knows(q)'
    BY <1>2
  <1>4. /\ store' \in [Procs -> [Names -> Found]]
        /\ stale' \in [Procs -> SUBSET Names]
        /\ request' = [q \in Procs |-> request'[q]]
        /\ \A q \in Procs : request'[q] = None \/ request'[q] \in [Names -> Found]
    BY DEF Skills
  <1>5. Found' = Found
    BY DEF Found, Range, Roots
  <1> QED BY <1>3, <1>4, <1>5 DEF Skills, Range, Roots

LEMMA SkillsStep ==
    ASSUME Control, Skills, [Next]_vars
    PROVE  Skills'
  <1>0. /\ pc = [q \in Procs |-> pc[q]]
        /\ \A q \in Procs : Knows(q)
    BY DEF Control, Skills
  <1>1. ASSUME NEW p \in Procs, Discover(p)
        PROVE  Skills'
    <2> DEFINE root == IF pc[p] = "discover" THEN Roots[1] ELSE Roots[2]
               s == Ingest(store[p], root)
               t == IF pc[p] = "discover" THEN {} ELSE stale[p]
               l == IF pc[p] = "discover" THEN "discover2" ELSE "ready"
    <2>1. /\ store' = [store EXCEPT ![p] = s]
          /\ stale' = [stale EXCEPT ![p] = t]
          /\ request' = request /\ skills' = skills
          /\ Goto(p, l) /\ pc[p] \in {"discover", "discover2"}
      BY <1>1 DEF Discover, fileVars
    <2>2. root \in Range(Roots)
      BY BothRoots
    <2>3. \A n \in Names :
             s[n] = IF store[p][n] = None /\ Usable(skills[root][n])
                    THEN root ELSE store[p][n]
      BY DEF Ingest
    <2>4. s \in [Names -> Found] /\ t \in SUBSET Names
      BY <2>2 DEF Ingest, Found, Skills
    <2>5. request' = [request EXCEPT ![p] = request[p]]
          /\ request[p] \in [Names -> Found] \cup {None}
      BY <2>1 DEF Skills
    <2>6. pc'[p] = l /\ \A q \in Procs : q # p => pc'[q] = pc[q]
      BY <1>0, <2>1 DEF Goto
    <2>7. request[p] = None
      BY <1>0, <2>1 DEF Knows, Chatting
    <2>8. CASE pc[p] = "discover"
      <3>1. \A n \in Names : s[n] = InProject(n)
        BY <1>0, <2>3, <2>8, BothRoots DEF Knows, Discovering, InProject
      <3>2. store'[p] = s /\ request'[p] = None
        BY <2>1, <2>7 DEF Skills
      <3>3. \A n \in Names : InProject(n)' = InProject(n)
        BY <2>1 DEF InProject
      <3> HIDE DEF s
      <3>4. Knows(p)'
        BY <2>6, <2>8, <3>1, <3>2, <3>3 DEF Knows, Discovering, Chatting
      <3> QED BY <2>1, <2>4, <2>5, <2>6, <3>4, OthersKnow
    <2>9. CASE pc[p] = "discover2"
      <3>1. \A n \in Names \ stale[p] : s[n] = OnDisk(n)
        BY <1>0, <2>3, <2>9, BothRoots, WorkspaceAssumption
           DEF Knows, InProject, OnDisk
      <3>2. store'[p] = s /\ request'[p] = None /\ stale'[p] = stale[p]
        BY <2>1, <2>7, <2>9 DEF Skills
      <3>3. \A n \in Names : OnDisk(n)' = OnDisk(n)
        BY <2>1 DEF OnDisk
      <3> HIDE DEF s
      <3>4. Knows(p)'
        BY <2>6, <2>9, <3>1, <3>2, <3>3 DEF Knows, Discovering, Chatting
      <3> QED BY <2>1, <2>4, <2>5, <2>6, <3>4, OthersKnow
    <2> QED BY <2>1, <2>8, <2>9
  <1>2. ASSUME NEW p \in Procs, BuildRequest(p)
        PROVE  Skills'
    <2> DEFINE r == LoadAvailableSkills(p)
    <2>1. /\ UNCHANGED <<skills, store, stale, pc>> /\ pc[p] = "ready"
          /\ request' = [request EXCEPT ![p] = r]
      BY <1>2 DEF BuildRequest, fileVars
    <2>2. \A n \in Names :
             r[n] = IF store[p][n] # None /\ Loadable(skills[store[p][n]][n])
                    THEN store[p][n] ELSE None
      BY DEF LoadAvailableSkills
    <2>3. r \in [Names -> Found]
      BY DEF LoadAvailableSkills, Found, Skills
    <2>4. \A n \in Names \ stale[p] : r[n] = OnDisk(n)
      <3>1. ASSUME NEW n \in Names \ stale[p]
            PROVE  r[n] = OnDisk(n)
        <4>1. store[p][n] = OnDisk(n)
          BY <1>0, <2>1 DEF Knows, Chatting
        <4>2. OnDisk(n) # None => Usable(skills[OnDisk(n)][n])
          BY DEF OnDisk
        <4> QED BY <2>2, <4>1, <4>2 DEF Usable, Loadable
      <3> QED BY <3>1
    <2> HIDE DEF r
    <2>5. request'[p] = r
      BY <2>1 DEF Skills
    <2>6. Knows(p)'
      <3>1. \A n \in Names : OnDisk(n)' = OnDisk(n)
        BY <2>1 DEF OnDisk
      <3> QED BY <1>0, <2>1, <2>4, <2>5, <3>1
              DEF Knows, Discovering, Chatting
    <2>7. /\ store' = [store EXCEPT ![p] = store[p]]
          /\ stale' = [stale EXCEPT ![p] = stale[p]]
          /\ store[p] \in [Names -> Found] /\ stale[p] \in SUBSET Names
      BY <2>1 DEF Skills
    <2> QED BY <2>1, <2>3, <2>6, <2>7, OthersKnow
  <1>3. ASSUME NEW p \in Procs, Quit(p)
        PROVE  Skills'
    <2>1. /\ store' = [store EXCEPT ![p] = [n \in Names |-> None]]
          /\ stale' = [stale EXCEPT ![p] = {}]
          /\ request' = [request EXCEPT ![p] = None]
          /\ Goto(p, "ok") /\ skills' = skills
      BY <1>3 DEF Quit, fileVars
    <2>2. pc'[p] = "ok" /\ \A q \in Procs : q # p => pc'[q] = pc[q]
      BY <1>0, <2>1 DEF Goto
    <2>3. /\ \A n \in Names : store'[p][n] = None
          /\ request'[p] = None
      BY <2>1 DEF Skills
    <2>4. Knows(p)'
      BY <2>2, <2>3 DEF Knows, Discovering, Chatting
    <2>5. [n \in Names |-> None] \in [Names -> Found] /\ {} \in SUBSET Names
      BY DEF Found
    <2> QED BY <2>1, <2>2, <2>4, <2>5, OthersKnow
  <1>4. ASSUME NEW r \in Range(Roots), NEW n \in Names, NEW d \in Descriptors,
               UserChangesSkill(r, n, d)
        PROVE  Skills'
    <2>1. /\ skills' = [skills EXCEPT ![r][n] = d]
          /\ stale' = [p \in Procs |-> IF pc[p] \in Discovering
                                       THEN stale[p] \cup {n} ELSE stale[p]]
          /\ UNCHANGED <<pc, store, request>>
      BY <1>4 DEF UserChangesSkill, Discovering
    <2>2. skills' \in [Range(Roots) -> [Names -> Descriptors]]
      BY <2>1 DEF Skills
    <2>3. \A m \in Names \ {n} : InProject(m)' = InProject(m)
                                 /\ OnDisk(m)' = OnDisk(m)
      <3>1. \A root \in Range(Roots) : \A m \in Names \ {n} :
               skills'[root][m] = skills[root][m]
        BY <2>1 DEF Skills
      <3> QED BY <3>1, BothRoots DEF InProject, OnDisk
    <2>4. \A p \in Procs :
             /\ stale'[p] \in SUBSET Names
             /\ pc[p] \in Discovering =>
                   stale[p] \subseteq stale'[p] /\ n \in stale'[p]
      BY <2>1 DEF Skills
    <2>5. ASSUME NEW p \in Procs
          PROVE  Knows(p)'
      BY <1>0, <2>1, <2>3, <2>4 DEF Knows, Discovering, Chatting
    <2>6. stale' = [p \in Procs |-> stale'[p]]
      BY <2>1
    <2> QED BY <2>1, <2>2, <2>4, <2>5, <2>6 DEF Skills, Range, Roots, Found
  <1>5. ASSUME NEW p \in Procs, NEW l \in {"ready", "editwrite"}, Goto(p, l),
               pc[p] \in Chatting, UNCHANGED <<skills, store, stale, request>>
        PROVE  Skills'
    BY <1>0, <1>5, KnownStays DEF Goto, Chatting, Discovering
  <1>6. ASSUME NEW p \in Procs, pc[p] \notin Discovering,
               NEW l, l \notin Discovering, Goto(p, l),
               UNCHANGED <<skills, store, stale, request>>
        PROVE  Skills'
    BY <1>0, <1>6, KnownStays DEF Goto, Chatting, Discovering
  <1>7. ASSUME NEW p \in Procs,
               \/ InitOpen(p) \/ InitWrite(p)
               \/ IgnoreRead(p) \/ IgnoreTruncate(p) \/ IgnoreWrite(p)
               \/ Check(p) \/ ShowLayer(p) \/ EditFile(p)
               \/ ReadGlobal(p) \/ ReadProject(p) \/ StartRouter(p)
        PROVE  Skills'
    <2>1. /\ UNCHANGED <<skills, store, stale, request>>
          /\ pc[p] \notin Discovering
      BY <1>7 DEF InitOpen, InitWrite, IgnoreRead, IgnoreTruncate, IgnoreWrite,
         Check, ShowLayer, EditFile, ReadGlobal, ReadProject, StartRouter,
         fileVars, chatVars, Discovering
    <2>2. PICK l \in {"write", "failed", "ignore", "ok", "truncate",
                      "ignorewrite", "project", "discover", "serving"} :
             Goto(p, l)
      BY <1>7 DEF InitOpen, InitWrite, IgnoreRead, IgnoreTruncate, IgnoreWrite,
         Check, ShowLayer, EditFile, ReadGlobal, ReadProject, StartRouter, End
    <2> QED BY <1>6, <2>1, <2>2 DEF Discovering
  <1>8. ASSUME NEW p \in Procs, NEW c \in Commands, Invoke(p, c)
        PROVE  Skills'
    <2>1. c.op \notin Discovering
      BY DEF Commands, Discovering
    <2>2. \A q \in Procs : q # p => pc'[q] = pc[q]
      BY <1>0, <1>8 DEF Invoke
    <2>3. pc[p] \notin Discovering /\ pc'[p] \notin Discovering
          /\ UNCHANGED <<skills, store, stale, request>>
      BY <1>0, <1>8, <2>1 DEF Invoke, Idle, Discovering, fileVars, chatVars
    <2> QED BY <2>2, <2>3, KnownStays DEF Chatting, Discovering
  <1>9. ASSUME NEW p \in Procs,
               EditWrite(p) \/ \E c \in ToolCalls :
                  RefusePath(p, c) \/ ReadFile(p, c) \/ WriteFile(p, c)
                  \/ EditRead(p, c)
        PROVE  Skills'
    <2>1. /\ UNCHANGED <<skills, store, stale, request>>
          /\ pc[p] \in Chatting
          /\ \/ pc' = pc
             \/ \E l \in {"ready", "editwrite"} : Goto(p, l)
      BY <1>9 DEF EditWrite, RefusePath, ReadFile, WriteFile, EditRead,
         fileVars, Chatting
    <2> QED BY <1>5, <2>1, KnownStays
  <1>10. CASE UNCHANGED <<skills, store, stale, request, pc>>
    BY <1>10, KnownStays
  <1>11. ASSUME \/ \E s \in Scopes : \E doc \in Docs(s) \cup {Absent, Broken} :
                      UserSaves(s, doc)
                \/ UserIgnores \/ UNCHANGED vars
         PROVE  UNCHANGED <<skills, store, stale, request, pc>>
    BY <1>11 DEF UserSaves, UserIgnores, vars, chatVars
  <1> QED
    BY <1>1, <1>2, <1>3, <1>4, <1>7, <1>8, <1>9, <1>10, <1>11 DEF Next

\* The skills a request offers are the ones on disk, the project's before the
\* global ones, unless their directory changed after the chat began to
\* discover them: for any number of chats and skills, however the user changes
\* the others (SkillStore::discover, load_available_skills).
THEOREM SkillsAreCurrent == Spec => []SkillsOffered
  <1>1. Init => Skills
    BY DEF Init, Skills, Knows, Found, Idle, Discovering, Chatting, Descriptors
  <1>2. Skills => SkillsOffered
    BY DEF Skills, Knows, SkillsOffered, OnDisk
  <1> QED BY <1>1, <1>2, SkillsStep, ControlInvariant, PTL DEF Spec

-----------------------------------------------------------------------------
(* Types *)

Places == {Idle, "init", "write", "ignore", "truncate", "ignorewrite", "check",
           "show", "edit", "global", "project", "start", "serving", "discover",
           "discover2", "ready", "editwrite"} \cup Finished

\* The rest of TypeOK, beside what Control, Read and Skills say.
Typing ==
    /\ \A s \in Scopes : files[s] \in FileStates(s)
    /\ ignore \subseteq {"secrets", "user"}
    /\ pc \in [Procs -> Places]
    /\ \A p \in Procs : pc[p] \notin {Idle} \cup Finished => cmd[p] \in Commands
    /\ \A p \in Procs : DOMAIN got[p] \subseteq {"global", "project", "router"}
    /\ lines \in [Procs -> SUBSET {"secrets", "user"}]
    /\ editing \in [Procs -> ToolPaths \cup {None}]
    /\ calls \in [Procs -> 0 .. MaxCalls]
    /\ edits \in 0 .. MaxEdits

LEMMA TypingStep ==
    ASSUME Control, Read, Typing, [Next]_vars
    PROVE  Typing'
  <1> DEFINE Placed == /\ pc' \in [Procs -> Places]
                       /\ \A p \in Procs : pc'[p] \notin {Idle} \cup Finished
                             => cmd'[p] \in Commands
             FilesFit == \A s \in Scopes : files'[s] \in FileStates(s)
             GotFit == \A p \in Procs :
                          DOMAIN got'[p] \subseteq {"global", "project", "router"}
             LinesFit == /\ ignore' \subseteq {"secrets", "user"}
                         /\ lines' \in [Procs -> SUBSET {"secrets", "user"}]
             RestFits == /\ editing' \in [Procs -> ToolPaths \cup {None}]
                         /\ calls' \in [Procs -> 0 .. MaxCalls]
                         /\ edits' \in 0 .. MaxEdits
  <1>0. /\ pc = [q \in Procs |-> pc[q]] /\ cmd = [q \in Procs |-> cmd[q]]
        /\ got = [q \in Procs |-> got[q]]
        /\ files \in [Scopes -> AnyFile]
    BY DEF Control, Read
  <1>1. Placed
    <2>1. ASSUME NEW p \in Procs, NEW l \in Places, Goto(p, l),
                 pc[p] \notin {Idle} \cup Finished
          PROVE  Placed
      BY <1>0, <2>1 DEF Goto, Typing, Finished
    <2>2. ASSUME NEW p \in Procs, NEW c \in Commands, Invoke(p, c)
          PROVE  Placed
      <3>1. c.op \in {"init", "check", "show", "edit", "effective", "chat",
                      "load", "start"}
        BY DEF Commands
      <3> QED BY <1>0, <2>2, <3>1 DEF Invoke, Typing, Places, Finished
    <2>3. CASE UNCHANGED <<pc, cmd>>
      BY <2>3 DEF Typing
    <2>4. ASSUME NEW p \in Procs,
                 \/ InitOpen(p) \/ InitWrite(p)
                 \/ IgnoreRead(p) \/ IgnoreTruncate(p) \/ IgnoreWrite(p)
                 \/ Check(p) \/ ShowLayer(p) \/ EditFile(p)
                 \/ ReadGlobal(p) \/ ReadProject(p) \/ StartRouter(p)
                 \/ Discover(p) \/ EditWrite(p) \/ Quit(p)
          PROVE  Placed
      <3>1. PICK l \in {"write", "failed", "ignore", "ok", "truncate",
                        "ignorewrite", "project", "discover", "serving",
                        "discover2", "ready"} : Goto(p, l)
        BY <2>4 DEF InitOpen, InitWrite, IgnoreRead, IgnoreTruncate,
           IgnoreWrite, Check, ShowLayer, EditFile, ReadGlobal, ReadProject,
           StartRouter, Discover, EditWrite, Quit, End
      <3>2. pc[p] \notin {Idle} \cup Finished
        BY <2>4 DEF InitOpen, InitWrite, IgnoreRead, IgnoreTruncate,
           IgnoreWrite, Check, ShowLayer, EditFile, ReadGlobal, ReadProject,
           StartRouter, Discover, EditWrite, Quit, Idle, Finished
      <3> QED BY <2>1, <3>1, <3>2 DEF Places, Finished
    <2>5. ASSUME NEW p \in Procs, NEW c \in ToolCalls, EditRead(p, c)
          PROVE  Placed
      <3>1. pc[p] \notin {Idle} \cup Finished
            /\ (UNCHANGED <<pc, cmd>> \/ Goto(p, "editwrite"))
        BY <2>5 DEF EditRead, Idle, Finished
      <3> QED BY <2>1, <2>3, <3>1 DEF Places
    <2>6. ASSUME NEW p \in Procs,
                 \/ BuildRequest(p)
                 \/ \E c \in ToolCalls : \/ RefusePath(p, c) \/ ReadFile(p, c)
                                         \/ WriteFile(p, c)
          PROVE  UNCHANGED <<pc, cmd>>
      BY <2>6 DEF BuildRequest, RefusePath, ReadFile, WriteFile
    <2>7. ASSUME \/ \E s \in Scopes : \E doc \in Docs(s) \cup {Absent, Broken} :
                       UserSaves(s, doc)
                 \/ UserIgnores \/ UNCHANGED vars
                 \/ \E r \in Range(Roots), n \in Names, d \in Descriptors :
                       UserChangesSkill(r, n, d)
          PROVE  UNCHANGED <<pc, cmd>>
      BY <2>7 DEF UserSaves, UserIgnores, vars, UserChangesSkill
    <2> HIDE DEF Placed
    <2> QED BY <2>2, <2>3, <2>4, <2>5, <2>6, <2>7 DEF Next
  <1>2. FilesFit
    <2>1. ASSUME NEW s \in Scopes, NEW doc \in FileStates(s),
                 files' = [files EXCEPT ![s] = doc]
          PROVE  FilesFit
      BY <1>0, <2>1 DEF Typing
    <2>2. CASE files' = files
      BY <2>2 DEF Typing
    <2>3. ASSUME NEW p \in Procs, InitOpen(p) \/ InitWrite(p) \/ EditFile(p)
          PROVE  FilesFit
      <3>1. cmd[p].scope \in Scopes
        BY <2>3 DEF Control, AtWork, InitOf, InitOpen, InitWrite, EditFile
      <3>2. files[cmd[p].scope] \in FileStates(cmd[p].scope)
        BY <3>1 DEF Typing
      <3>3. files' = files \/ \E doc \in FileStates(cmd[p].scope) :
               files' = [files EXCEPT ![cmd[p].scope] = doc]
        BY <2>3, <3>2 DEF InitOpen, InitWrite, EditFile, FileStates
      <3> HIDE DEF FilesFit
      <3> QED BY <2>1, <2>2, <3>1, <3>3
    <2>4. ASSUME NEW s \in Scopes, NEW doc \in Docs(s) \cup {Absent, Broken},
                 UserSaves(s, doc)
          PROVE  FilesFit
      BY <2>1, <2>4 DEF UserSaves, FileStates
    <2>5. ASSUME NEW p \in Procs,
                 \/ \E c \in Commands : Invoke(p, c)
                 \/ IgnoreRead(p) \/ IgnoreTruncate(p) \/ IgnoreWrite(p)
                 \/ Check(p) \/ ShowLayer(p)
                 \/ ReadGlobal(p) \/ ReadProject(p) \/ StartRouter(p)
                 \/ Discover(p) \/ BuildRequest(p) \/ EditWrite(p) \/ Quit(p)
                 \/ \E c \in ToolCalls : \/ RefusePath(p, c) \/ ReadFile(p, c)
                                         \/ WriteFile(p, c) \/ EditRead(p, c)
          PROVE  files' = files
      BY <2>5 DEF Invoke, IgnoreRead, IgnoreTruncate, IgnoreWrite, Check,
         ShowLayer, ReadGlobal, ReadProject, StartRouter, Discover,
         BuildRequest, EditWrite, Quit, RefusePath, ReadFile, WriteFile,
         EditRead, fileVars
    <2>6. ASSUME UserIgnores \/ UNCHANGED vars
                 \/ \E r \in Range(Roots), n \in Names, d \in Descriptors :
                       UserChangesSkill(r, n, d)
          PROVE  files' = files
      BY <2>6 DEF UserIgnores, vars, UserChangesSkill
    <2> HIDE DEF FilesFit
    <2> QED BY <2>2, <2>3, <2>4, <2>5, <2>6 DEF Next
  <1>3. GotFit
    <2>1. ASSUME NEW p \in Procs, NEW g, got' = [got EXCEPT ![p] = g],
                 DOMAIN g \subseteq {"global", "project", "router"}
          PROVE  GotFit
      BY <1>0, <2>1 DEF Typing
    <2>2. CASE got' = got
      BY <2>2 DEF Typing
    <2> HIDE DEF GotFit
    <2>3. ASSUME NEW p \in Procs, ReadGlobal(p)
          PROVE  GotFit
      BY <2>1, <2>2, <2>3 DEF ReadGlobal
    <2>4. ASSUME NEW p \in Procs, ReadProject(p)
          PROVE  GotFit
      <3>1. DOMAIN EmptyDoc = {}
        BY DEF EmptyDoc
      <3>2. PICK g : /\ got' = [got EXCEPT ![p] = g]
                     /\ g = EmptyDoc \/
                        DOMAIN g = DOMAIN got[p] \cup {"project"}
        BY <2>4 DEF ReadProject, WithLayer
      <3>3. DOMAIN got[p] \subseteq {"global", "project", "router"}
        BY DEF Typing
      <3> QED BY <2>1, <3>1, <3>2, <3>3
    <2>5. ASSUME NEW p \in Procs, StartRouter(p)
          PROVE  GotFit
      <3>1. got' = got \/ \E c : got' = [got EXCEPT ![p] = [l \in {"router"} |-> c]]
        BY <2>5 DEF StartRouter
      <3> QED BY <2>1, <2>2, <3>1
    <2>6. ASSUME \/ \E p \in Procs :
                      \/ \E c \in Commands : Invoke(p, c)
                      \/ InitOpen(p) \/ InitWrite(p) \/ EditFile(p)
                      \/ IgnoreRead(p) \/ IgnoreTruncate(p) \/ IgnoreWrite(p)
                      \/ Check(p) \/ ShowLayer(p) \/ Discover(p)
                      \/ BuildRequest(p) \/ EditWrite(p) \/ Quit(p)
                      \/ \E c \in ToolCalls : \/ RefusePath(p, c)
                                              \/ ReadFile(p, c)
                                              \/ WriteFile(p, c)
                                              \/ EditRead(p, c)
                 \/ \E s \in Scopes : \E doc \in Docs(s) \cup {Absent, Broken} :
                       UserSaves(s, doc)
                 \/ UserIgnores \/ UNCHANGED vars
                 \/ \E r \in Range(Roots), n \in Names, d \in Descriptors :
                       UserChangesSkill(r, n, d)
          PROVE  got' = got
      BY <2>6 DEF Invoke, InitOpen, InitWrite, EditFile, IgnoreRead,
         IgnoreTruncate, IgnoreWrite, Check, ShowLayer, Discover, BuildRequest,
         EditWrite, Quit, RefusePath, ReadFile, WriteFile, EditRead, UserSaves,
         UserIgnores, vars, UserChangesSkill
    <2> QED BY <2>2, <2>3, <2>4, <2>5, <2>6 DEF Next
  <1>4. LinesFit
    <2>1. ASSUME NEW p \in Procs,
                 IgnoreRead(p) \/ IgnoreTruncate(p) \/ IgnoreWrite(p)
          PROVE  LinesFit
      BY <2>1 DEF IgnoreRead, IgnoreTruncate, IgnoreWrite, Typing, fileVars
    <2>2. CASE UNCHANGED <<ignore, lines>>
      BY <2>2 DEF Typing
    <2>3. CASE UserIgnores
      BY <2>3 DEF UserIgnores, Typing
    <2>4. ASSUME \/ \E p \in Procs :
                      \/ \E c \in Commands : Invoke(p, c)
                      \/ InitOpen(p) \/ InitWrite(p) \/ EditFile(p)
                      \/ Check(p) \/ ShowLayer(p) \/ Discover(p)
                      \/ ReadGlobal(p) \/ ReadProject(p) \/ StartRouter(p)
                      \/ BuildRequest(p) \/ EditWrite(p) \/ Quit(p)
                      \/ \E c \in ToolCalls : \/ RefusePath(p, c)
                                              \/ ReadFile(p, c)
                                              \/ WriteFile(p, c)
                                              \/ EditRead(p, c)
                 \/ \E s \in Scopes : \E doc \in Docs(s) \cup {Absent, Broken} :
                       UserSaves(s, doc)
                 \/ UNCHANGED vars
                 \/ \E r \in Range(Roots), n \in Names, d \in Descriptors :
                       UserChangesSkill(r, n, d)
          PROVE  UNCHANGED <<ignore, lines>>
      BY <2>4 DEF Invoke, InitOpen, InitWrite, EditFile, Check, ShowLayer,
         Discover, ReadGlobal, ReadProject, StartRouter, BuildRequest,
         EditWrite, Quit, RefusePath, ReadFile, WriteFile, EditRead, UserSaves,
         vars, UserChangesSkill, fileVars
    <2> HIDE DEF LinesFit
    <2> QED BY <2>1, <2>2, <2>3, <2>4 DEF Next
  <1>5. RestFits
    <2>0. MaxCalls \in Nat /\ MaxEdits \in Nat
      BY WorkspaceAssumption
    <2>1. editing' \in [Procs -> ToolPaths \cup {None}]
      <3>1. editing' = editing \/ \E p \in Procs : \E f \in ToolPaths \cup {None} :
               editing' = [editing EXCEPT ![p] = f]
        BY DEF Next, Invoke, InitOpen, InitWrite, EditFile, IgnoreRead,
           IgnoreTruncate, IgnoreWrite, Check, ShowLayer, Discover, ReadGlobal,
           ReadProject, StartRouter, BuildRequest, EditWrite, Quit, RefusePath,
           ReadFile, WriteFile, EditRead, UserSaves, UserIgnores, vars,
           UserChangesSkill, chatVars, ToolPaths
      <3> QED BY <3>1 DEF Typing
    <2>2. calls' \in [Procs -> 0 .. MaxCalls]
      <3>1. \/ calls' = calls
            \/ \E p \in Procs : \/ Counted(p)
                                \/ calls' = [calls EXCEPT ![p] = 0]
        BY DEF Next, Invoke, InitOpen, InitWrite, EditFile, IgnoreRead,
           IgnoreTruncate, IgnoreWrite, Check, ShowLayer, Discover, ReadGlobal,
           ReadProject, StartRouter, BuildRequest, EditWrite, Quit, RefusePath,
           ReadFile, WriteFile, EditRead, UserSaves, UserIgnores, vars,
           UserChangesSkill, chatVars
      <3> QED BY <2>0, <3>1 DEF Typing, Counted
    <2>3. edits' \in 0 .. MaxEdits
      <3>1. \/ edits' = edits
            \/ edits < MaxEdits /\ edits' = edits + 1
        BY DEF Next, Invoke, InitOpen, InitWrite, EditFile, IgnoreRead,
           IgnoreTruncate, IgnoreWrite, Check, ShowLayer, Discover, ReadGlobal,
           ReadProject, StartRouter, BuildRequest, EditWrite, Quit, RefusePath,
           ReadFile, WriteFile, EditRead, UserSaves, UserIgnores, vars,
           UserChangesSkill, chatVars, Edit
      <3> QED BY <2>0, <3>1 DEF Typing
    <2> QED BY <2>1, <2>2, <2>3
  <1> QED BY <1>1, <1>2, <1>3, <1>4, <1>5 DEF Typing, Finished, Scopes,
          FileStates, Docs, Template, Commands, ToolPaths

\* Every variable keeps its type: what the files of the scopes hold, where the
\* invocations are and on which command, what they have read and what they are
\* to write.
THEOREM WorkspaceTypeCorrect == Spec => []TypeOK
  <1>1. Init => Typing /\ Read /\ Skills
    <2> SUFFICES ASSUME Init PROVE Typing /\ Read /\ Skills
      OBVIOUS
    <2>1. Read /\ Skills
      BY DEF Init, Read, Layered, Skills, Knows, Found, Idle,
         Discovering, Chatting, Descriptors
    <2>2. Typing
      BY WorkspaceAssumption
         DEF Init, Typing, FileStates, Places, Finished, EmptyDoc
    <2> QED BY <2>1, <2>2
  <1>2. Typing /\ Skills => TypeOK
    BY DEF Typing, Skills, TypeOK, Found, Places, Idle, Finished
  <1> QED
    BY <1>1, <1>2, TypingStep, ReadStep, SkillsStep,
       ControlInvariant, PTL DEF Spec

=============================================================================
