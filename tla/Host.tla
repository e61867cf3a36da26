-------------------------------- MODULE Host --------------------------------
(***************************************************************************)
(* The processes of one machine: every invocation of the smista binary     *)
(* that shares the router's pidfile and port, and the files of secrets.    *)
(* Sources, under src/crates/smista-cli/src: command/router.rs with        *)
(* router/pidfile.rs and router/process.rs (start, stop), signal.rs,       *)
(* command/cli.rs and client.rs (the chat: status, auto-start, sign-in,    *)
(* credentials), command/{login,apikey,credentials}.rs, credentials.rs and *)
(* credentials/; and the start of the router, smista-router/src/lib.rs and *)
(* web.rs.                                                                 *)
(*                                                                         *)
(* Nothing locks the pidfile or a secrets file, so a command is one action *)
(* for each read or write of them.  A process identifier is free again     *)
(* once its process is gone, and anything may be given it next.            *)
(***************************************************************************)
EXTENDS Naturals, FiniteSets

CONSTANTS
  Pids,           \* process identifiers, numbers
  Commands,       \* the commands launched, records made by Command
  Configs,        \* [local, autoStart, ref, env, enforce], configured; and
                  \* [unlocked, loggedIn], the keyring and an earlier login
  MaxLaunches,    \* bound: processes launched by hand
  MaxCrashes,     \* bound: processes killed
  MaxFaults       \* bound: changes of the keyring, starts that fail

Nobody == 0
NoValue == 0
Scopes == {"local", "global"}

\* The names of secrets: the router's API key, a provider's key, the name a
\* configuration refers to, and the session keys, one for each chat.
SessionKey(p) == <<"e2ee", p>>
Keys == {<<"api", 0>>, <<"provider", 0>>, <<"ref", 0>>}
          \cup {SessionKey(p) : p \in Pids}
ApiKeyName == <<"api", 0>>
ProviderKey == <<"provider", 0>>
RefKey == <<"ref", 0>>

\* Users are numbered as they are made; a secret of a provider is Secret.
Secret == 1
Values == 0..(MaxLaunches + 1)

Edit(scope, key, value) == [scope |-> scope, key |-> key, value |-> value]
NoEdit == Edit("local", ApiKeyName, NoValue)
Command(name, edit) == [name |-> name, edit |-> edit]

ASSUME HostAssumption ==
  /\ Pids \subseteq Nat \ {0} /\ IsFiniteSet(Pids)
  /\ Commands \subseteq
       [name : {"foreground", "start", "stop", "login", "new", "edit",
                "check", "chat", "other"},
        edit : [scope : Scopes, key : {ApiKeyName, ProviderKey},
                value : Values]]
  /\ Configs \subseteq [local : BOOLEAN, autoStart : BOOLEAN, ref : BOOLEAN,
                        env : BOOLEAN, enforce : BOOLEAN, unlocked : BOOLEAN,
                        loggedIn : BOOLEAN]
  /\ {MaxLaunches, MaxCrashes, MaxFaults} \subseteq Nat

VARIABLES
  config,    \* the configuration files, constant
  proc,      \* Pids -> the process with that identifier, or Gone
  pidfile,   \* whether it exists, and the pid in it, or Nobody
  port,      \* the process that listens on the router's port, or Nobody
  files,     \* Scopes -> the entries of its secrets file, or Absent
  keyring,   \* Scopes -> the entries the keyring holds
  unlocked,  \* the keyring answers
  users,     \* how many users the router has made
  sessions,  \* the encrypted sessions, each <<its key, backend of the key>>
  raced,     \* history: two starts overlapped in Pidfile::acquire
  asked,     \* history: the entries the finished edits asked for
  torn,      \* history: scopes whose file met two writers or a killed one
  launches, crashes, faults

vars == <<config, proc, pidfile, port, files, keyring, unlocked, users,
          sessions, raced, asked, torn, launches, crashes, faults>>
secrets == <<files, keyring, asked, torn>>
router == <<pidfile, port, raced>>
bounds == <<launches, crashes, faults>>

NoPidfile == [exists |-> FALSE, pid |-> Nobody]
PidfileOf(p) == [exists |-> TRUE, pid |-> p]

NoEntries == [k \in Keys |-> NoValue]
Absent == [k \in {} |-> NoValue]

\* What an earlier login with the file backend left.
LoggedIn == [NoEntries EXCEPT ![ApiKeyName] = 1]

Gone == [cmd |-> "none", at |-> "gone", scope |-> "local", term |-> FALSE,
         guard |-> FALSE, backend |-> "none", op |-> NoEdit,
         seen |-> NoEntries, key |-> NoValue, pid |-> Nobody]
Fresh(c, at) == [Gone EXCEPT !.cmd = c.name, !.at = at, !.op = c.edit]

Running(p) == proc[p].at # "gone"
At(p, cmd, at) == proc[p].cmd = cmd /\ proc[p].at = at
\* The process goes on; one with nothing more to do is gone.
Moved(r, at) == IF at = "gone" THEN Gone ELSE [r EXCEPT !.at = at]
Goto(p, at) == proc' = [proc EXCEPT ![p] = Moved(@, at)]
Exit(p) == Goto(p, "gone")

Init ==
  /\ config \in Configs
  /\ proc = [p \in Pids |-> Gone]
  /\ pidfile = NoPidfile
  /\ port = Nobody
  /\ files = [s \in Scopes |->
                IF s = "global" /\ config.loggedIn THEN LoggedIn ELSE Absent]
  /\ keyring = [s \in Scopes |-> NoEntries]
  /\ unlocked = config.unlocked
  /\ users = IF config.loggedIn THEN 1 ELSE 0
  /\ sessions = {}
  /\ raced = FALSE
  /\ asked = [s \in Scopes |->
                IF s = "global" /\ config.loggedIn THEN LoggedIn ELSE NoEntries]
  /\ torn = {}
  /\ launches = 0 /\ crashes = 0 /\ faults = 0

\* main: the command is parsed, and its process starts on it.
FirstStep(name) ==
  CASE name \in {"foreground", "start"} -> "check"
    [] name = "stop" -> "read"
    [] name = "new" -> "bootstrap"
    [] name = "other" -> "busy"
    [] OTHER -> "open"

Launch(p, c) ==
  /\ ~Running(p)
  /\ launches < MaxLaunches
  /\ launches' = launches + 1
  /\ proc' = [proc EXCEPT ![p] = Fresh(c, FirstStep(c.name))]
  /\ UNCHANGED <<config, router, secrets, unlocked, users, sessions,
                 crashes, faults>>

-----------------------------------------------------------------------------
(* The router's process: the pidfile around smista_router::run.            *)

\* pidfile::running_pid: an unreadable or stale file names nobody.
RunningPid ==
  IF pidfile.pid \in Pids /\ Running(pidfile.pid) THEN pidfile.pid
  ELSE Nobody

\* start: refuse at once on top of a live pidfile; then install the signal
\* handlers (foreground) or check the configuration and spawn (daemonize).
StartChecks(p) ==
  /\ proc[p].cmd \in {"foreground", "start"} /\ proc[p].at = "check"
  /\ IF RunningPid # Nobody THEN Exit(p)
     ELSE Goto(p, IF proc[p].cmd = "foreground" THEN "install" ELSE "spawn")
  /\ UNCHANGED <<config, router, secrets, unlocked, users, sessions, bounds>>

\* ShutdownSignals::install: from here on a SIGTERM is kept, not fatal.
InstallSignals(p) ==
  /\ At(p, "foreground", "install")
  /\ Goto(p, "acquire")
  /\ UNCHANGED <<config, router, secrets, unlocked, users, sessions, bounds>>

Acquiring(p) == Running(p) /\ proc[p].at \in {"truncatePid", "writePid"}

\* Pidfile::acquire checks again, ...
AcquireChecks(p) ==
  /\ At(p, "foreground", "acquire")
  /\ IF RunningPid # Nobody THEN Exit(p) /\ UNCHANGED raced
     ELSE /\ Goto(p, "truncatePid")
          /\ raced' = (raced \/ \E q \in Pids \ {p} : Acquiring(q))
  /\ UNCHANGED <<config, pidfile, port, secrets, unlocked, users, sessions,
                 bounds>>

\* ... and fs::write opens the file, emptied, then writes the identifier.
AcquireTruncates(p) ==
  /\ At(p, "foreground", "truncatePid")
  /\ pidfile' = PidfileOf(Nobody)
  /\ Goto(p, "writePid")
  /\ UNCHANGED <<config, port, raced, secrets, unlocked, users, sessions,
                 bounds>>

AcquireWrites(p) ==
  /\ At(p, "foreground", "writePid")
  /\ pidfile' = PidfileOf(p)
  /\ proc' = [proc EXCEPT ![p].at = "load", ![p].guard = TRUE]
  /\ UNCHANGED <<config, port, raced, secrets, unlocked, users, sessions,
                 bounds>>

\* A mutant: only a router that got to serve removes its file.
DropPidfileServed(p) ==
  pidfile' = IF proc[p].at = "drop" THEN NoPidfile ELSE pidfile

\* Drop for Pidfile: the file goes, whatever it holds by now.
DropPidfile(p) == pidfile' = IF proc[p].guard THEN NoPidfile ELSE pidfile

\* The configuration is loaded and validated and storage is built; each may
\* fail, and the guard is dropped on the way out.
LoadFails(p) ==
  /\ At(p, "foreground", "load")
  /\ faults < MaxFaults
  /\ faults' = faults + 1
  /\ DropPidfile(p)
  /\ Exit(p)
  /\ UNCHANGED <<config, port, raced, secrets, unlocked, users, sessions,
                 launches, crashes>>

\* Else WebServer::run binds; a port that is taken ends the router.
RouterBinds(p) ==
  /\ At(p, "foreground", "load")
  /\ IF port = Nobody
     THEN /\ port' = p /\ Goto(p, "serve") /\ UNCHANGED pidfile
     ELSE /\ DropPidfile(p) /\ Exit(p) /\ UNCHANGED port
  /\ UNCHANGED <<config, raced, secrets, unlocked, users, sessions, bounds>>

\* A kept signal cancels the token, and the server winds down.
RouterShutsDown(p) ==
  /\ At(p, "foreground", "serve")
  /\ proc[p].term
  /\ port' = Nobody
  /\ Goto(p, "drop")
  /\ UNCHANGED <<config, pidfile, raced, secrets, unlocked, users, sessions,
                 bounds>>

RouterExits(p) ==
  /\ At(p, "foreground", "drop")
  /\ DropPidfile(p)
  /\ Exit(p)
  /\ UNCHANGED <<config, port, raced, secrets, unlocked, users, sessions,
                 bounds>>

\* daemonize: a child that runs the foreground path, and the parent goes on:
\* `smista start` ends, a chat waits for the router.  Without a free
\* identifier the spawn fails.
Daemonize(p) ==
  /\ proc[p].cmd \in {"start", "chat"} /\ proc[p].at = "spawn"
  /\ IF \A q \in Pids : Running(q) THEN Exit(p)
     ELSE \E q \in Pids :
       /\ ~Running(q)
       /\ proc' = [proc EXCEPT
            ![q] = Fresh(Command("foreground", NoEdit), "check"),
            ![p] = Moved(@, IF @.cmd = "start" THEN "gone" ELSE "wait")]
  /\ UNCHANGED <<config, router, secrets, unlocked, users, sessions, bounds>>

\* The parent's own validation of the configuration fails: nothing is spawned.
DaemonizeFails(p) ==
  /\ proc[p].cmd \in {"start", "chat"} /\ proc[p].at = "spawn"
  /\ faults < MaxFaults
  /\ faults' = faults + 1
  /\ Exit(p)
  /\ UNCHANGED <<config, router, secrets, unlocked, users, sessions,
                 launches, crashes>>

\* stop: the pidfile is read, ...
StopReads(p) ==
  /\ At(p, "stop", "read")
  /\ IF pidfile.pid \in Pids
     THEN proc' = [proc EXCEPT ![p].at = "signal", ![p].pid = pidfile.pid]
     ELSE Exit(p)
  /\ UNCHANGED <<config, router, secrets, unlocked, users, sessions, bounds>>

\* The signal is kept by a router that installed its handlers; any other
\* process has the default disposition, and dies.
Handles(q) ==
  proc[q].cmd = "foreground" /\ proc[q].at \notin {"check", "install"}

\* The file a process would leave empty if it died now.
Half(q) == IF proc[q].at = "write" THEN {proc[q].op.scope} ELSE {}

\* ... and process::terminate signals whoever has that identifier now.
StopSignals(p) ==
  /\ At(p, "stop", "signal")
  /\ LET q == proc[p].pid IN
       IF q # p /\ Running(q)
       THEN /\ proc' = [proc EXCEPT
                 ![q] = IF Handles(q) THEN [@ EXCEPT !.term = TRUE] ELSE Gone,
                 ![p] = Gone]
            /\ torn' = torn \cup Half(q)
       ELSE Exit(p) /\ UNCHANGED torn
  /\ UNCHANGED <<config, router, files, keyring, asked, unlocked, users,
                 sessions, bounds>>

-----------------------------------------------------------------------------
(* Secrets: the backend, and reads and edits of one entry.                 *)

Entries(s) == IF files[s] = Absent THEN NoEntries ELSE files[s]

\* What a command does first with its storage, and on which scope.
FirstUse(r) ==
  [r EXCEPT !.at = CASE r.cmd = "edit" -> "readEntries"
                     [] r.cmd = "chat" -> "status"
                     [] OTHER -> "getApi",
            !.scope = "local"]

\* CredentialsStorage::new: the keyring if it answers, else the file, unless
\* the keyring is enforced.  FileSecretStorage::new ensures the global file.
OpenStorage(p) ==
  /\ Running(p) /\ proc[p].at = "open"
  /\ IF unlocked
     THEN proc' = [proc EXCEPT
            ![p] = [FirstUse(@) EXCEPT !.backend = "keyring"]]
     ELSE IF config.enforce THEN Exit(p)
     ELSE proc' = [proc EXCEPT
            ![p] = [IF files["global"] = Absent
                    THEN [@ EXCEPT !.at = "create:opened", !.scope = "global"]
                    ELSE FirstUse(@) EXCEPT !.backend = "file"]]
  /\ UNCHANGED <<config, router, secrets, unlocked, users, sessions, bounds>>

\* ensure_file saw no file where these were about to read.
Creations == {"create:opened", "create:getApi", "create:getProvider",
              "create:getRef", "create:readEntries"}
After(r) ==
  CASE r.at = "create:opened" -> FirstUse(r)
    [] r.at = "create:getApi" -> [r EXCEPT !.at = "getApi"]
    [] r.at = "create:getProvider" -> [r EXCEPT !.at = "getProvider"]
    [] r.at = "create:getRef" -> [r EXCEPT !.at = "getRef"]
    [] OTHER -> [r EXCEPT !.at = "readEntries"]

\* create_file: create_new fails if the file was made since it was looked for.
CreateFile(p) ==
  /\ Running(p) /\ proc[p].at \in Creations
  /\ IF files[proc[p].scope] = Absent
     THEN /\ files' = [files EXCEPT ![proc[p].scope] = NoEntries]
          /\ proc' = [proc EXCEPT ![p] = After(@)]
     ELSE Exit(p) /\ UNCHANGED files
  /\ UNCHANGED <<config, router, keyring, asked, torn, unlocked, users,
                 sessions, bounds>>

\* A read of one scope by the backend of p; it fails on a locked keyring.
Readable(p) == proc[p].backend = "file" \/ unlocked
Stored(p, key) ==
  IF proc[p].backend = "file" THEN Entries(proc[p].scope)[key]
  ELSE keyring[proc[p].scope][key]

(***************************************************************************)
(* CredentialsStorage::get: the project's scope, and on a miss the global  *)
(* one, each a read of its own.  hit and miss are where p goes next; the   *)
(* scope is left on the project's, for the next read.                      *)
(***************************************************************************)
Get(p, at, creation, key, hit, miss) ==
  /\ Running(p) /\ proc[p].at = at
  /\ LET s == proc[p].scope
         v == Stored(p, key)
     IN
     IF ~Readable(p) THEN Exit(p)
     ELSE IF proc[p].backend = "file" /\ files[s] = Absent
     THEN Goto(p, creation)
     ELSE IF v # NoValue
     THEN proc' = [proc EXCEPT
            ![p] = Moved([@ EXCEPT !.scope = "local", !.key = v], hit)]
     ELSE IF s = "local" THEN proc' = [proc EXCEPT ![p].scope = "global"]
     ELSE proc' = [proc EXCEPT
            ![p] = Moved([@ EXCEPT !.scope = "local"], miss)]
  /\ UNCHANGED <<config, router, secrets, unlocked, users, sessions, bounds>>

GetApiKey(p) ==
  Get(p, "getApi", "create:getApi", ApiKeyName,
      IF proc[p].cmd = "chat" THEN "signIn" ELSE "gone",
      IF proc[p].cmd = "login" THEN "bootstrap" ELSE "gone")

\* Where a command goes on after its edit.
Edited(p) == IF proc[p].cmd = "chat" THEN "createSession" ELSE "gone"

\* The keyring replaces or removes one entry in one step.
EditKeyring(p) ==
  /\ Running(p) /\ proc[p].at = "readEntries" /\ proc[p].backend = "keyring"
  /\ LET e == proc[p].op IN
       IF unlocked
       THEN /\ keyring' = [keyring EXCEPT ![e.scope][e.key] = e.value]
            /\ Goto(p, Edited(p))
       ELSE UNCHANGED keyring /\ Exit(p)
  /\ UNCHANGED <<config, router, files, asked, torn, unlocked, users,
                 sessions, bounds>>

\* The processes between their read of a scope and the end of their write.
Editing(s) ==
  {p \in Pids : /\ Running(p) /\ proc[p].at \in {"truncate", "write"}
                /\ proc[p].op.scope = s}

\* put and delete read every entry of the file, ...
ReadEntries(p) ==
  /\ Running(p) /\ proc[p].at = "readEntries" /\ proc[p].backend = "file"
  /\ IF files[proc[p].op.scope] = Absent
     THEN proc' = [proc EXCEPT ![p].at = "create:readEntries",
                               ![p].scope = proc[p].op.scope]
     ELSE proc' = [proc EXCEPT ![p].at = "truncate",
                               ![p].seen = Entries(proc[p].op.scope)]
  /\ torn' = IF Editing(proc[p].op.scope) = {} THEN torn
             ELSE torn \cup {proc[p].op.scope}
  /\ UNCHANGED <<config, router, files, keyring, asked, unlocked, users,
                 sessions, bounds>>

\* ... write_entries empties the file, ...
TruncateEntries(p) ==
  /\ Running(p) /\ proc[p].at = "truncate"
  /\ files' = [files EXCEPT ![proc[p].op.scope] = NoEntries]
  /\ Goto(p, "write")
  /\ UNCHANGED <<config, router, keyring, asked, torn, unlocked, users,
                 sessions, bounds>>

\* A mutant: only the entry of this edit is written.
EntriesToWriteOne(p) ==
  [NoEntries EXCEPT ![proc[p].op.key] = proc[p].op.value]

\* ... and writes what it read with the one entry changed.
EntriesToWrite(p) == [proc[p].seen EXCEPT ![proc[p].op.key] = proc[p].op.value]

WriteEntries(p) ==
  /\ Running(p) /\ proc[p].at = "write"
  /\ LET e == proc[p].op IN
       /\ files' = [files EXCEPT ![e.scope] = EntriesToWrite(p)]
       /\ asked' = [asked EXCEPT ![e.scope][e.key] = e.value]
  /\ proc' = [proc EXCEPT
       ![p] = Moved([@ EXCEPT !.seen = NoEntries, !.op = NoEdit], Edited(p))]
  /\ UNCHANGED <<config, router, keyring, torn, unlocked, users, sessions,
                 bounds>>

-----------------------------------------------------------------------------
(* The commands that talk to the router.  Requests fail without a router.  *)

\* bootstrap makes a user; login stores its key globally, `apikey new` only
\* prints it.
Bootstrap(p) ==
  /\ Running(p) /\ proc[p].at = "bootstrap"
  /\ IF port = Nobody THEN Exit(p) /\ UNCHANGED users
     ELSE /\ users' = users + 1
          /\ proc' = [proc EXCEPT
               ![p] = Moved([@ EXCEPT
                               !.op = Edit("global", ApiKeyName, users + 1)],
                            IF proc[p].cmd = "login" THEN "readEntries"
                            ELSE "gone")]
  /\ UNCHANGED <<config, router, secrets, unlocked, sessions, bounds>>

\* check_and_auto_start_router: a router that answers is taken as it is.
ChatChecks(p) ==
  /\ At(p, "chat", "status")
  /\ IF port # Nobody THEN Goto(p, "getApi")
     ELSE IF config.local /\ config.autoStart THEN Goto(p, "autoStart")
     ELSE Exit(p)
  /\ UNCHANGED <<config, router, secrets, unlocked, users, sessions, bounds>>

\* The starter runs `start`, which refuses on top of a live pidfile.
ChatAutoStarts(p) ==
  /\ At(p, "chat", "autoStart")
  /\ IF RunningPid # Nobody THEN Exit(p) ELSE Goto(p, "spawn")
  /\ UNCHANGED <<config, router, secrets, unlocked, users, sessions, bounds>>

\* wait_for_router: until it answers ...
ChatFindsRouter(p) ==
  /\ At(p, "chat", "wait") /\ port # Nobody
  /\ Goto(p, "getApi")
  /\ UNCHANGED <<config, router, secrets, unlocked, users, sessions, bounds>>

\* ... or WAIT_FOR_ROUTER_TIMEOUT has passed.
ChatGivesUp(p) ==
  /\ At(p, "chat", "wait") /\ port = Nobody
  /\ Exit(p)
  /\ UNCHANGED <<config, router, secrets, unlocked, users, sessions, bounds>>

\* sign_in_router_client: the router must know the user of the key.
ChatSignsIn(p) ==
  /\ At(p, "chat", "signIn")
  /\ IF port # Nobody /\ proc[p].key \in 1..users
     THEN Goto(p, "listProviders") ELSE Exit(p)
  /\ UNCHANGED <<config, router, secrets, unlocked, users, sessions, bounds>>

\* inject_credentials: the router's providers, each with its stored key, ...
ChatListsProviders(p) ==
  /\ At(p, "chat", "listProviders")
  /\ IF port # Nobody THEN Goto(p, "getProvider") ELSE Exit(p)
  /\ UNCHANGED <<config, router, secrets, unlocked, users, sessions, bounds>>

\* ... else the one the configuration refers to: the environment, the store.
GetProviderKey(p) ==
  Get(p, "getProvider", "create:getProvider", ProviderKey, "ready",
      IF config.ref /\ ~config.env THEN "getRef" ELSE "ready")

GetConfigKey(p) ==
  Get(p, "getRef", "create:getRef", RefKey, "ready", "ready")

\* A mutant: the session is created first and the key is stored after it.
CreateKeyLast(p) ==
  /\ At(p, "chat", "ready")
  /\ \A s \in sessions : s[1] # SessionKey(p)
  /\ sessions' = sessions \cup {<<SessionKey(p), proc[p].backend>>}
  /\ proc' = [proc EXCEPT ![p].op = Edit("local", SessionKey(p), Secret),
                          ![p].at = "readEntries"]
  /\ UNCHANGED <<config, router, secrets, unlocked, users, bounds>>

\* init_new_session: the key is made and stored in the project's scope ...
CreateKey(p) ==
  /\ At(p, "chat", "ready")
  /\ \A s \in sessions : s[1] # SessionKey(p)
  /\ proc' = [proc EXCEPT ![p].op = Edit("local", SessionKey(p), Secret),
                          ![p].at = "readEntries"]
  /\ UNCHANGED <<config, router, secrets, unlocked, users, sessions, bounds>>

\* ... before the router hears of the session.
CreateSession(p) ==
  /\ At(p, "chat", "createSession")
  /\ sessions' = IF port = Nobody THEN sessions
                 ELSE sessions \cup {<<SessionKey(p), proc[p].backend>>}
  /\ Exit(p)
  /\ UNCHANGED <<config, router, secrets, unlocked, users, bounds>>

-----------------------------------------------------------------------------
(* The machine.                                                            *)

\* A process is killed: a router leaves its pidfile, an edit its empty file.
Crash(p) ==
  /\ Running(p)
  /\ crashes < MaxCrashes
  /\ crashes' = crashes + 1
  /\ port' = IF port = p THEN Nobody ELSE port
  /\ torn' = torn \cup Half(p)
  /\ Exit(p)
  /\ UNCHANGED <<config, pidfile, raced, files, keyring, asked, unlocked,
                 users, sessions, launches, faults>>

\* Someone else's process ends, and a chat is left.
Finishes(p) ==
  /\ At(p, "other", "busy") \/ At(p, "chat", "ready")
  /\ Exit(p)
  /\ UNCHANGED <<config, router, secrets, unlocked, users, sessions, bounds>>

\* The keyring is locked or unlocked.
KeyringChanges ==
  /\ faults < MaxFaults
  /\ faults' = faults + 1
  /\ unlocked' = ~unlocked
  /\ UNCHANGED <<config, proc, router, secrets, users, sessions, launches,
                 crashes>>

Step(p) ==
  \/ StartChecks(p)
  \/ InstallSignals(p)
  \/ AcquireChecks(p)
  \/ AcquireTruncates(p)
  \/ AcquireWrites(p)
  \/ RouterBinds(p)
  \/ RouterShutsDown(p)
  \/ RouterExits(p)
  \/ Daemonize(p)
  \/ StopReads(p)
  \/ StopSignals(p)
  \/ OpenStorage(p)
  \/ CreateFile(p)
  \/ GetApiKey(p)
  \/ EditKeyring(p)
  \/ ReadEntries(p)
  \/ TruncateEntries(p)
  \/ WriteEntries(p)
  \/ Bootstrap(p)
  \/ ChatChecks(p)
  \/ ChatAutoStarts(p)
  \/ ChatFindsRouter(p)
  \/ ChatGivesUp(p)
  \/ ChatSignsIn(p)
  \/ ChatListsProviders(p)
  \/ GetProviderKey(p)
  \/ GetConfigKey(p)
  \/ CreateSession(p)

Next ==
  \/ \E p \in Pids, c \in Commands : Launch(p, c)
  \/ \E p \in Pids : \/ Step(p)
                     \/ LoadFails(p)
                     \/ DaemonizeFails(p)
                     \/ CreateKey(p)
                     \/ Crash(p)
                     \/ Finishes(p)
  \/ KeyringChanges

Spec == Init /\ [][Next]_vars

-----------------------------------------------------------------------------
(* Properties.                                                             *)

Places == {"gone", "check", "install", "acquire", "truncatePid", "writePid",
           "load", "serve", "drop", "spawn", "wait", "read", "signal",
           "busy", "open", "getApi", "getProvider", "getRef",
           "readEntries", "truncate", "write", "bootstrap", "status",
           "autoStart", "signIn", "listProviders", "ready", "createSession"} \cup Creations

(***************************************************************************)
(* Every piece of state has its type; the port is held by the one process  *)
(* that serves on it, and by none once that process shut down (web.rs run, *)
(* router.rs run_foreground).                                              *)
(***************************************************************************)
TypeOK ==
  /\ config \in Configs
  /\ \A p \in Pids : proc[p].at \in Places
  /\ pidfile \in [exists : BOOLEAN, pid : Pids \cup {Nobody}]
  /\ port \in Pids \cup {Nobody}
  /\ \A p \in Pids : (port = p) <=> proc[p].at = "serve"
  /\ \A s \in Scopes : files[s] \in [Keys -> Values] \cup {Absent}
  /\ keyring \in [Scopes -> [Keys -> Values]]
  /\ users \in 0..(MaxLaunches + 1)
  /\ asked \in [Scopes -> [Keys -> Values]]
  /\ torn \subseteq Scopes
  /\ {unlocked, raced} \subseteq BOOLEAN

(***************************************************************************)
(* Unless two starts once overlapped in Pidfile::acquire, the router that  *)
(* serves is the one the pidfile names, whatever was killed before it, so  *)
(* `smista stop` reaches it and a second start is refused (pidfile.rs,     *)
(* router.rs).                                                             *)
(***************************************************************************)
ServingNamed == port # Nobody /\ ~raced => pidfile.pid = port

(***************************************************************************)
(* A pidfile is there only as long as the process that made it, unless a   *)
(* process was killed or two starts overlapped: a start that fails on any  *)
(* step, and a SIGTERM that arrives during the start, leave none behind    *)
(* (pidfile.rs Drop, router.rs run_foreground, signal.rs).                 *)
(***************************************************************************)
NoneLeftBehind ==
  pidfile.exists /\ ~raced /\ crashes = 0 =>
    \E p \in Pids : proc[p].guard \/ proc[p].at = "writePid"

(***************************************************************************)
(* The pidfile names the router that serves.  docs/configuration/router.md *)
(* says that the router records its process id and refuses to start a      *)
(* second one, and router.rs that the foreground process re-checks this    *)
(* atomically.                                                             *)
(***************************************************************************)
AlwaysNamed == port # Nobody => pidfile.pid = port

(***************************************************************************)
(* The secrets of a scope are those the finished edits asked for, one at a *)
(* time, as long as no two edits of its file overlapped and none was       *)
(* killed between emptying the file and writing it (file.rs put, delete,   *)
(* write_entries).                                                         *)
(***************************************************************************)
SecretsKept ==
  \A s \in Scopes \ torn :
    (\A p \in Editing(s) : proc[p].at # "write") => Entries(s) = asked[s]

(***************************************************************************)
(* An encrypted session the router knows has its key in the store it was   *)
(* made in, also when the chat was killed or the keyring locked on the     *)
(* way (router_client.rs init_new_session, e2ee.rs create_key); a torn     *)
(* secrets file is the one exception.                                      *)
(***************************************************************************)
SessionsReadable ==
  \A s \in sessions :
    IF s[2] = "keyring" THEN keyring["local"][s[1]] # NoValue
    ELSE \/ "local" \in torn
         \/ Entries("local")[s[1]] # NoValue
         \/ \E p \in Editing("local") : proc[p].at = "write"

=============================================================================
