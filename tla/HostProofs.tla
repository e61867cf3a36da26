------------------------------ MODULE HostProofs ------------------------------
(***************************************************************************)
(* Proofs about two parts of the client: they share no state with one      *)
(* another.  Host: the router that serves and its pidfile, the files of    *)
(* secrets, and the keys of encrypted sessions.  Terminal: the interface   *)
(* and the line editor that its prompt implements.                         *)
(***************************************************************************)
EXTENDS Host, Terminal, FoldFacts

-----------------------------------------------------------------------------
(* Types *)

CommandNames == {"none", "foreground", "start", "stop", "login", "new", "edit",
                 "check", "chat", "other"}

EntrySets == [Keys -> Nat]

SessionKeys == {SessionKey(p) : p \in Pids}

\* No command removes the key of a session.
Edits == {e \in [scope : Scopes, key : Keys, value : Nat] :
            e.key \in SessionKeys => e.value # NoValue}

Process ==
  [cmd : CommandNames, at : Places, scope : Scopes, term : BOOLEAN,
   guard : BOOLEAN, backend : {"none", "keyring", "file"}, op : Edits,
   seen : EntrySets, key : Nat, pid : Nat]

\* The identifiers of processes, and none.
Owners == Pids \cup {Nobody}

\* TypeOK without its bounds on numbers; a stop that is about to signal has an
\* identifier to signal.
Typing ==
  /\ config \in Configs
  /\ proc \in [Pids -> Process]
  /\ pidfile \in [exists : BOOLEAN, pid : Owners]
  /\ port \in Owners
  /\ files \in [Scopes -> EntrySets \cup {Absent}]
  /\ keyring \in [Scopes -> EntrySets]
  /\ asked \in [Scopes -> EntrySets]
  /\ torn \in SUBSET Scopes
  /\ unlocked \in BOOLEAN
  /\ raced \in BOOLEAN
  /\ users \in Nat
  /\ crashes \in Nat
  /\ \A p \in Pids : proc[p].at = "signal" => proc[p].pid \in Pids

\* The names the commands use are names of secrets.
LEMMA KeysNamed ==
  /\ {ApiKeyName, ProviderKey, RefKey} \subseteq Keys
  /\ \A p \in Pids : SessionKey(p) \in Keys
  /\ {ApiKeyName, ProviderKey} \cap SessionKeys = {}
  <1>1. {ApiKeyName, ProviderKey} \cap SessionKeys = {}
    BY DEF SessionKeys, SessionKey, ApiKeyName, ProviderKey
  <1> QED BY <1>1 DEF Keys, ApiKeyName, ProviderKey, RefKey

\* No entry of any secret, the edit of nobody, and a process that is gone.
LEMMA NothingTyped ==
  /\ NoEntries \in EntrySets
  /\ NoEdit \in Edits
  /\ Gone \in Process
  <1>1. NoEntries \in EntrySets
    BY DEF NoEntries, EntrySets, NoValue
  <1>2. NoEdit \in Edits
    BY KeysNamed DEF NoEdit, Edit, Edits, Scopes, NoValue
  <1>3. Gone \in Process
    BY <1>1, <1>2 DEF Gone, Process, Places, CommandNames, Scopes, NoValue,
          Nobody
  <1> QED BY <1>1, <1>2, <1>3

\* An absent file has no entries; it is not a file without entries.
LEMMA AbsentIsNoFile == Absent \notin EntrySets
  <1>1. ApiKeyName \in Keys
    BY KeysNamed
  <1>2. \A f \in EntrySets : DOMAIN f = Keys
    BY DEF EntrySets
  <1>3. DOMAIN Absent = {}
    BY DEF Absent
  <1> QED BY <1>1, <1>2, <1>3

\* The entries of a scope, whether or not its file is there.
LEMMA EntriesTyped ==
  ASSUME Typing, NEW s \in Scopes
  PROVE  Entries(s) \in EntrySets
  BY NothingTyped DEF Typing, Entries

\* A command that was launched starts as a process on its first step.
LEMMA FreshTyped ==
  ASSUME NEW c \in Commands \cup {Command("foreground", NoEdit)}
  PROVE  /\ Fresh(c, FirstStep(c.name)) \in Process
         /\ Fresh(c, "check") \in Process
         /\ Fresh(c, FirstStep(c.name)).at \notin
              {"gone", "signal", "truncatePid", "writePid", "load", "serve",
               "drop", "truncate", "write", "readEntries",
               "create:readEntries", "createSession"}
  <1>1. c.name \in CommandNames \ {"none"} /\ c.edit \in Edits
    <2>1. CASE c = Command("foreground", NoEdit)
      BY <2>1, NothingTyped DEF Command, CommandNames
    <2>2. CASE c \in Commands
      BY <2>2, HostAssumption, KeysNamed DEF CommandNames, Edits, Values
    <2> QED BY <2>1, <2>2
  <1>2. FirstStep(c.name) \in {"check", "read", "bootstrap", "busy", "open"}
    BY <1>1 DEF FirstStep, CommandNames
  <1>3. ASSUME NEW at \in Places
        PROVE  Fresh(c, at) \in Process /\ Fresh(c, at).at = at
    BY <1>1, NothingTyped DEF Fresh, Gone, Process
  <1>4. {"check", "read", "bootstrap", "busy", "open"} \subseteq Places
    BY DEF Places
  <1> QED BY <1>2, <1>3, <1>4

\* A process that goes on is a process.
LEMMA MovedTyped ==
  ASSUME NEW r \in Process, NEW at \in Places
  PROVE  Moved(r, at) \in Process /\ Moved(r, at).at = at
  BY NothingTyped DEF Moved, Process, Gone

\* What a storage is first used for, and where an interrupted read goes on.
LEMMA FirstUseTyped ==
  ASSUME NEW r \in Process
  PROVE  /\ FirstUse(r) \in Process
         /\ FirstUse(r).at \in {"readEntries", "status", "getApi"}
         /\ FirstUse(r).at = "readEntries" => r.cmd = "edit"
         /\ FirstUse(r).cmd = r.cmd /\ FirstUse(r).guard = r.guard
         /\ FirstUse(r).op = r.op /\ FirstUse(r).backend = r.backend
  BY DEF FirstUse, Process, Places, Scopes

LEMMA AfterTyped ==
  ASSUME NEW r \in Process, r.at \in Creations
  PROVE  /\ After(r) \in Process
         /\ After(r).at \in {"readEntries", "status", "getApi", "getProvider",
                             "getRef"}
         /\ After(r).at = "readEntries" =>
              r.cmd = "edit" \/ r.at = "create:readEntries"
         /\ After(r).cmd = r.cmd /\ After(r).guard = r.guard
         /\ After(r).op = r.op /\ After(r).backend = r.backend
  BY FirstUseTyped DEF After, Creations, Process, Places

\* A step of one process leaves the others as they are.
LEMMA OneMoves ==
  ASSUME Typing, NEW p \in Pids, NEW r \in Process,
         r.at = "signal" => r.pid \in Pids, proc' = [proc EXCEPT ![p] = r]
  PROVE  /\ proc' \in [Pids -> Process]
         /\ proc'[p] = r /\ \A q \in Pids \ {p} : proc'[q] = proc[q]
         /\ \A q \in Pids : proc'[q].at = "signal" => proc'[q].pid \in Pids
  BY DEF Typing

\* A process that goes to a place goes on as a process.
LEMMA GotoTyped ==
  ASSUME Typing, NEW p \in Pids, NEW at \in Places \ {"signal"}, Goto(p, at)
  PROVE  /\ proc' \in [Pids -> Process]
         /\ proc'[p] = Moved(proc[p], at) /\ proc'[p].at = at
         /\ \A q \in Pids \ {p} : proc'[q] = proc[q]
         /\ \A q \in Pids : proc'[q].at = "signal" => proc'[q].pid \in Pids
  <1>1. proc[p] \in Process
    BY DEF Typing
  <1>2. Moved(proc[p], at) \in Process /\ Moved(proc[p], at).at = at
    BY <1>1, MovedTyped
  <1>3. proc' = [proc EXCEPT ![p] = Moved(proc[p], at)]
    BY DEF Goto
  <1> QED BY <1>2, <1>3, OneMoves

\* A read of a secret ends in one of the places it was told, or in between.
LEMMA GetTyped ==
  ASSUME Typing, NEW p \in Pids, NEW at \in Places,
         NEW creation \in Creations \ {"create:readEntries"}, NEW key \in Keys,
         NEW hit \in Places \ {"signal"}, NEW miss \in Places \ {"signal"},
         Get(p, at, creation, key, hit, miss)
  PROVE  /\ proc' \in [Pids -> Process]
         /\ proc[p].at = at
         /\ proc'[p].at \in {at, creation, hit, miss, "gone"}
         /\ proc'[p].cmd \in {proc[p].cmd, "none"}
         /\ proc'[p].guard => proc[p].guard
         /\ \A q \in Pids \ {p} : proc'[q] = proc[q]
         /\ \A q \in Pids : proc'[q].at = "signal" => proc'[q].pid \in Pids
         /\ UNCHANGED <<config, router, secrets, unlocked, users, sessions,
                        bounds>>
  <1> DEFINE s == proc[p].scope
             v == Stored(p, key)
  <1>1. proc[p] \in Process /\ proc[p].at = at
    BY DEF Typing, Get
  <1>2. /\ creation \in Places /\ "gone" \in Places
        /\ at = "signal" => proc[p].pid \in Pids
    BY <1>1 DEF Places, Creations, Typing
  <1>3. v \in Nat
    <2>1. s \in Scopes
      BY <1>1 DEF Process
    <2>2. Entries(s) \in EntrySets /\ keyring[s] \in EntrySets
      BY <2>1, EntriesTyped DEF Typing
    <2> QED BY <2>2 DEF Stored, EntrySets
  <1>4. UNCHANGED <<config, router, secrets, unlocked, users, sessions, bounds>>
    BY DEF Get
  <1>5. \/ Exit(p)
        \/ Goto(p, creation)
        \/ proc' = [proc EXCEPT
             ![p] = Moved([@ EXCEPT !.scope = "local", !.key = v], hit)]
        \/ proc' = [proc EXCEPT ![p].scope = "global"]
        \/ proc' = [proc EXCEPT ![p] = Moved([@ EXCEPT !.scope = "local"], miss)]
    BY DEF Get
  <1> HIDE DEF v
  <1>6. ASSUME NEW r \in Process, r.at = "signal" => r.pid \in Pids,
               proc' = [proc EXCEPT ![p] = r],
               r.at \in {at, creation, hit, miss, "gone"},
               r.cmd \in {proc[p].cmd, "none"},
               r.guard => proc[p].guard
        PROVE  /\ proc' \in [Pids -> Process]
               /\ proc'[p].at \in {at, creation, hit, miss, "gone"}
               /\ proc'[p].cmd \in {proc[p].cmd, "none"}
               /\ proc'[p].guard => proc[p].guard
               /\ \A q \in Pids \ {p} : proc'[q] = proc[q]
               /\ \A q \in Pids : proc'[q].at = "signal" => proc'[q].pid \in Pids
    BY <1>6, OneMoves, ZenonT(40)
  <1>7. CASE Exit(p)
    <2>1. Moved(proc[p], "gone") \in Process /\ Moved(proc[p], "gone") = Gone
      BY <1>1, <1>2, MovedTyped DEF Moved
    <2> QED BY <1>1, <1>4, <1>6, <1>7, <2>1 DEF Exit, Goto, Gone
  <1>8. CASE Goto(p, creation)
    <2>1. Moved(proc[p], creation) \in Process
          /\ Moved(proc[p], creation).at = creation
      BY <1>1, <1>2, MovedTyped
    <2>2. Moved(proc[p], creation).cmd \in {proc[p].cmd, "none"}
          /\ (Moved(proc[p], creation).guard => proc[p].guard)
      BY <1>1 DEF Moved, Gone, Process
    <2> QED BY <1>1, <1>4, <1>6, <1>8, <2>1, <2>2 DEF Goto, Creations
  <1>9. ASSUME NEW t \in Process, t.cmd = proc[p].cmd, t.guard = proc[p].guard,
               NEW next \in {hit, miss},
               proc' = [proc EXCEPT ![p] = Moved(t, next)]
        PROVE  /\ proc' \in [Pids -> Process]
               /\ proc'[p].at \in {at, creation, hit, miss, "gone"}
               /\ proc'[p].cmd \in {proc[p].cmd, "none"}
               /\ proc'[p].guard => proc[p].guard
               /\ \A q \in Pids \ {p} : proc'[q] = proc[q]
               /\ \A q \in Pids : proc'[q].at = "signal" => proc'[q].pid \in Pids
    <2>1. Moved(t, next) \in Process /\ Moved(t, next).at = next
      BY MovedTyped
    <2>2. Moved(t, next).cmd \in {proc[p].cmd, "none"}
          /\ (Moved(t, next).guard => proc[p].guard)
      BY <1>9 DEF Moved, Gone, Process
    <2> QED BY <1>6, <1>9, <2>1, <2>2
  <1>10. CASE proc' = [proc EXCEPT
               ![p] = Moved([@ EXCEPT !.scope = "local", !.key = v], hit)]
    <2> DEFINE t == [proc[p] EXCEPT !.scope = "local", !.key = v]
    <2>1. t \in Process /\ t.cmd = proc[p].cmd /\ t.guard = proc[p].guard
      BY <1>1, <1>3 DEF Process, Scopes
    <2>2. proc' = [proc EXCEPT ![p] = Moved(t, hit)]
      BY <1>10
    <2> HIDE DEF t
    <2> QED BY <1>1, <1>4, <1>9, <2>1, <2>2
  <1>11. CASE proc' = [proc EXCEPT ![p] = Moved([@ EXCEPT !.scope = "local"], miss)]
    <2> DEFINE t == [proc[p] EXCEPT !.scope = "local"]
    <2>1. t \in Process /\ t.cmd = proc[p].cmd /\ t.guard = proc[p].guard
      BY <1>1 DEF Process, Scopes
    <2>2. proc' = [proc EXCEPT ![p] = Moved(t, miss)]
      BY <1>11
    <2> HIDE DEF t
    <2> QED BY <1>1, <1>4, <1>9, <2>1, <2>2
  <1>12. CASE proc' = [proc EXCEPT ![p].scope = "global"]
    <2> DEFINE t == [proc[p] EXCEPT !.scope = "global"]
    <2>1. /\ t \in Process /\ t.cmd = proc[p].cmd /\ t.guard = proc[p].guard
          /\ t.at = proc[p].at /\ t.pid = proc[p].pid
      BY <1>1 DEF Process, Scopes
    <2>2. proc' = [proc EXCEPT ![p] = t]
      BY <1>12
    <2> HIDE DEF t
    <2> QED BY <1>1, <1>2, <1>4, <1>6, <2>1, <2>2
  <1> QED BY <1>5, <1>7, <1>8, <1>10, <1>11, <1>12

\* Every command, on each of its steps, keeps the types.
LEMMA StepTyping == ASSUME Typing, Next PROVE Typing'
  <1> USE NothingTyped, KeysNamed
  <1> DEFINE Procs == /\ proc' \in [Pids -> Process]
                      /\ \A q \in Pids : proc'[q].at = "signal"
                                           => proc'[q].pid \in Pids
             Rest == UNCHANGED <<config, router, secrets, unlocked, users,
                                 crashes>>
  <1>0. /\ Gone.at # "signal"
        /\ \A p \in Pids : proc[p] \in Process
        /\ \A p \in Pids : proc[p].at = "signal" => proc[p].pid \in Pids
        /\ Pids \subseteq Nat /\ Nobody \notin Pids /\ Nobody \in Nat
    BY HostAssumption DEF Typing, Gone, Nobody
  <1>1. ASSUME NEW p \in Pids, NEW at \in Places \ {"signal"}, Goto(p, at)
        PROVE  Procs
    BY <1>1, GotoTyped
  <1>2. ASSUME NEW p \in Pids, Exit(p) PROVE Procs
    <2>1. "gone" \in Places \ {"signal"}
      BY DEF Places
    <2> QED BY <1>1, <1>2, <2>1 DEF Exit
  <1>3. ASSUME NEW p \in Pids, NEW r \in Process,
               r.at = "signal" => r.pid \in Pids, proc' = [proc EXCEPT ![p] = r]
        PROVE  Procs
    BY <1>3, OneMoves
  <1>4. ASSUME Procs, Rest PROVE Typing'
    BY <1>4 DEF Typing, router, secrets
  <1>5. ASSUME NEW p \in Pids, NEW c \in Commands, Launch(p, c) PROVE Typing'
    <2>1. Fresh(c, FirstStep(c.name)) \in Process
          /\ Fresh(c, FirstStep(c.name)).at # "signal"
      BY FreshTyped
    <2>2. Procs
      BY <1>3, <1>5, <2>1 DEF Launch
    <2> QED BY <1>4, <1>5, <2>2 DEF Launch
  <1>6. ASSUME NEW p \in Pids,
               \/ StartChecks(p) \/ InstallSignals(p) \/ DaemonizeFails(p)
               \/ ChatChecks(p) \/ ChatAutoStarts(p) \/ ChatFindsRouter(p)
               \/ ChatGivesUp(p) \/ ChatSignsIn(p) \/ ChatListsProviders(p)
               \/ Finishes(p)
        PROVE  Typing'
    <2>1. Procs
      BY <1>1, <1>2, <1>6 DEF StartChecks, InstallSignals, DaemonizeFails,
         ChatChecks, ChatAutoStarts, ChatFindsRouter, ChatGivesUp, ChatSignsIn,
         ChatListsProviders, Finishes, Places
    <2> HIDE DEF Procs
    <2>2. Rest
      BY <1>6 DEF StartChecks, InstallSignals, DaemonizeFails,
         ChatChecks, ChatAutoStarts, ChatFindsRouter, ChatGivesUp, ChatSignsIn,
         ChatListsProviders, Finishes, bounds
    <2> QED BY <1>4, <2>1, <2>2
  <1>7. ASSUME NEW p \in Pids,
               \/ AcquireChecks(p) \/ AcquireTruncates(p) \/ LoadFails(p)
               \/ RouterBinds(p) \/ RouterShutsDown(p) \/ RouterExits(p)
               \/ Crash(p)
        PROVE  Typing'
    <2>1. Procs
      BY <1>1, <1>2, <1>7 DEF AcquireChecks, AcquireTruncates, LoadFails,
         RouterBinds, RouterShutsDown, RouterExits, Crash, Places
    <2> HIDE DEF Procs
    <2>2. pidfile' \in [exists : BOOLEAN, pid : Owners] /\ port' \in Owners
      <3>1. pidfile' \in {pidfile, NoPidfile, PidfileOf(Nobody)}
        BY <1>7 DEF AcquireChecks, AcquireTruncates, LoadFails, RouterBinds,
           RouterShutsDown, RouterExits, Crash, DropPidfile, router
      <3>2. {NoPidfile, PidfileOf(Nobody)} \subseteq
              [exists : BOOLEAN, pid : Owners]
        BY DEF NoPidfile, PidfileOf, Owners
      <3>3. port' \in {port, p, Nobody}
        BY <1>7 DEF AcquireChecks, AcquireTruncates, LoadFails, RouterBinds,
           RouterShutsDown, RouterExits, Crash, router
      <3> QED BY <3>1, <3>2, <3>3 DEF Typing, Owners
    <2>3. raced' \in BOOLEAN /\ torn' \in SUBSET Scopes
      <3>1. Half(p) \subseteq Scopes
        BY <1>0 DEF Half, Process, Edits
      <3> QED BY <1>7, <3>1 DEF AcquireChecks, AcquireTruncates, LoadFails,
         RouterBinds, RouterShutsDown, RouterExits, Crash, Typing, secrets
    <2>4. UNCHANGED <<config, files, keyring, asked, unlocked, users>>
          /\ crashes' \in Nat
      BY <1>7 DEF AcquireChecks, AcquireTruncates, LoadFails, RouterBinds,
         RouterShutsDown, RouterExits, Crash, Typing, secrets, bounds
    <2> QED BY <2>1, <2>2, <2>3, <2>4 DEF Typing, Procs
  <1>8. ASSUME NEW p \in Pids, AcquireWrites(p) PROVE Typing'
    <2>1. [proc[p] EXCEPT !.at = "load", !.guard = TRUE] \in Process
      BY <1>0, ZenonT(40) DEF Process, Places
    <2>2. proc' = [proc EXCEPT ![p] =
                     [proc[p] EXCEPT !.at = "load", !.guard = TRUE]]
      BY <1>8 DEF AcquireWrites
    <2>3. Procs
      BY <1>3, <2>1, <2>2, <1>0 DEF Process
    <2> HIDE DEF Procs
    <2>4. pidfile' \in [exists : BOOLEAN, pid : Owners]
      BY <1>8 DEF AcquireWrites, PidfileOf, Owners
    <2> QED BY <1>8, <2>3, <2>4 DEF AcquireWrites, Typing, secrets, bounds, Procs
  <1>9. ASSUME NEW p \in Pids, Daemonize(p) PROVE Typing'
    <2>1. CASE Exit(p)
      BY <1>2, <1>4, <1>9, <2>1 DEF Daemonize, bounds
    <2>2. CASE ~Exit(p)
      <3>1. PICK q \in Pids :
               /\ ~Running(q)
               /\ proc' = [proc EXCEPT
                    ![q] = Fresh(Command("foreground", NoEdit), "check"),
                    ![p] = Moved(@, IF @.cmd = "start" THEN "gone" ELSE "wait")]
        BY <1>9, <2>2 DEF Daemonize
      <3>2. q # p
        BY <1>9, <3>1, SMTT(30) DEF Daemonize, Running
      <3> DEFINE f == Fresh(Command("foreground", NoEdit), "check")
                 r == Moved(proc[p], IF proc[p].cmd = "start" THEN "gone"
                                                              ELSE "wait")
      <3>3. f \in Process /\ f.at # "signal"
        BY FreshTyped DEF Fresh, Gone, Process
      <3>4. r \in Process /\ r.at # "signal"
        BY <1>0, MovedTyped DEF Places
      <3>5. proc' = [proc EXCEPT ![q] = f, ![p] = r]
        BY <3>1, <3>2
      <3> HIDE DEF f, r
      <3>6. Procs
        BY <1>0, <3>3, <3>4, <3>5 DEF Typing
      <3> QED BY <1>4, <1>9, <3>6 DEF Daemonize, bounds
    <2> QED BY <2>1, <2>2
  <1>10. ASSUME NEW p \in Pids, StopReads(p) PROVE Typing'
    <2>1. CASE Exit(p)
      BY <1>2, <1>4, <1>10, <2>1 DEF StopReads, bounds
    <2>2. CASE ~Exit(p)
      <3> DEFINE r == [proc[p] EXCEPT !.at = "signal", !.pid = pidfile.pid]
      <3>1. proc' = [proc EXCEPT ![p] = r] /\ pidfile.pid \in Pids
        BY <1>10, <2>2 DEF StopReads
      <3>2. r \in Process /\ r.pid \in Pids
        BY <1>0, <3>1 DEF Process, Places
      <3> HIDE DEF r
      <3> QED BY <1>3, <1>4, <1>10, <3>1, <3>2 DEF StopReads, bounds
    <2> QED BY <2>1, <2>2
  <1>11. ASSUME NEW p \in Pids, StopSignals(p) PROVE Typing'
    <2> DEFINE q == proc[p].pid
               r == IF Handles(q) THEN [proc[q] EXCEPT !.term = TRUE] ELSE Gone
    <2>1. q \in Pids
      BY <1>0, <1>11 DEF StopSignals, At
    <2>2. CASE Exit(p) /\ torn' = torn
      BY <1>2, <1>4, <1>11, <2>2 DEF StopSignals, bounds, router, secrets
    <2>3. CASE ~(Exit(p) /\ torn' = torn)
      <3>1. /\ q # p /\ proc' = [proc EXCEPT ![q] = r, ![p] = Gone]
            /\ torn' = torn \cup Half(q)
        BY <1>11, <2>3 DEF StopSignals
      <3>2. r \in Process /\ (r.at = "signal" => r.pid \in Pids)
        BY <1>0, <2>1 DEF Process
      <3>3. Half(q) \subseteq Scopes
        BY <1>0, <2>1 DEF Half, Process, Edits
      <3> HIDE DEF q, r
      <3>4. Procs
        BY <1>0, <2>1, <3>1, <3>2 DEF Typing
      <3> HIDE DEF Procs
      <3>5. torn' \in SUBSET Scopes
        BY <3>1, <3>3 DEF Typing
      <3> QED BY <1>11, <3>4, <3>5 DEF StopSignals, Typing, router, bounds, Procs
    <2> QED BY <2>2, <2>3
  <1>12. ASSUME NEW p \in Pids, OpenStorage(p) PROVE Typing'
    <2> DEFINE first == FirstUse(proc[p])
               made == [proc[p] EXCEPT !.at = "create:opened", !.scope = "global"]
    <2>1. first \in Process /\ first.at # "signal"
      BY <1>0, FirstUseTyped
    <2>2. made \in Process /\ made.at # "signal"
      BY <1>0, ZenonT(40) DEF Process, Places, Creations, Scopes
    <2>3. \A b \in {"keyring", "file"}, t \in {first, made} :
             [t EXCEPT !.backend = b] \in Process
             /\ [t EXCEPT !.backend = b].at # "signal"
      BY <2>1, <2>2, ZenonT(40) DEF Process
    <2>4. \/ Exit(p)
          \/ proc' = [proc EXCEPT ![p] = [first EXCEPT !.backend = "keyring"]]
          \/ proc' = [proc EXCEPT ![p] = [first EXCEPT !.backend = "file"]]
          \/ proc' = [proc EXCEPT ![p] = [made EXCEPT !.backend = "file"]]
      BY <1>12 DEF OpenStorage
    <2> HIDE DEF first, made
    <2>5. Procs
      BY <1>2, <1>3, <2>3, <2>4
    <2> QED BY <1>4, <1>12, <2>5 DEF OpenStorage, bounds
  <1>13. ASSUME NEW p \in Pids, CreateFile(p) PROVE Typing'
    <2>1. After(proc[p]) \in Process /\ After(proc[p]).at # "signal"
      BY <1>0, <1>13, AfterTyped DEF CreateFile
    <2>2. Procs
      BY <1>2, <1>3, <1>13, <2>1 DEF CreateFile
    <2> HIDE DEF Procs
    <2>3. files' \in [Scopes -> EntrySets \cup {Absent}]
      BY <1>13 DEF CreateFile, Typing
    <2> QED BY <1>13, <2>2, <2>3 DEF CreateFile, Typing, router, bounds, Procs
  <1>14. ASSUME NEW p \in Pids,
                GetApiKey(p) \/ GetProviderKey(p) \/ GetConfigKey(p)
         PROVE  Typing'
    <2>1. {"getApi", "getProvider", "getRef"} \subseteq Places
      BY DEF Places
    <2>2. {"create:getApi", "create:getProvider", "create:getRef"}
            \subseteq Creations \ {"create:readEntries"}
      BY DEF Creations
    <2>3. PICK at \in Places, creation \in Creations \ {"create:readEntries"}, key \in Keys,
               hit \in Places \ {"signal"}, miss \in Places \ {"signal"} :
            Get(p, at, creation, key, hit, miss)
      <3>1. CASE GetApiKey(p)
        <4>1. /\ (IF proc[p].cmd = "chat" THEN "signIn" ELSE "gone") \in Places \ {"signal"}
              /\ (IF proc[p].cmd = "login" THEN "bootstrap" ELSE "gone")
                    \in Places \ {"signal"}
          BY DEF Places
        <4> QED BY <2>1, <2>2, <3>1, <4>1 DEF GetApiKey
      <3>2. CASE GetProviderKey(p)
        <4>1. /\ "ready" \in Places \ {"signal"}
              /\ (IF config.ref /\ ~config.env THEN "getRef" ELSE "ready")
                    \in Places \ {"signal"}
          BY DEF Places
        <4> QED BY <2>1, <2>2, <3>2, <4>1 DEF GetProviderKey
      <3>3. CASE GetConfigKey(p)
        <4>1. "ready" \in Places \ {"signal"}
          BY DEF Places
        <4> QED BY <2>1, <2>2, <3>3, <4>1 DEF GetConfigKey
      <3> QED BY <1>14, <3>1, <3>2, <3>3
    <2>4. Procs /\ UNCHANGED <<config, router, secrets, unlocked, users, sessions, bounds>>
      BY <2>3, GetTyped
    <2>5. Rest
      BY <2>4 DEF bounds
    <2> QED BY <1>4, <2>4, <2>5
  <1>15. ASSUME NEW p \in Pids, EditKeyring(p) PROVE Typing'
    <2>1. Procs
      BY <1>1, <1>2, <1>15 DEF EditKeyring, Edited, Places
    <2> HIDE DEF Procs
    <2>2. keyring' \in [Scopes -> EntrySets]
      <3>1. /\ proc[p].op.scope \in Scopes /\ proc[p].op.key \in Keys
            /\ proc[p].op.value \in Nat
        BY <1>0 DEF Process, Edits
      <3>2. \/ UNCHANGED keyring
            \/ keyring' = [keyring EXCEPT ![proc[p].op.scope][proc[p].op.key]
                                            = proc[p].op.value]
        BY <1>15 DEF EditKeyring
      <3>3. keyring \in [Scopes -> [Keys -> Nat]]
        BY DEF Typing, EntrySets
      <3>4. CASE UNCHANGED keyring
        BY <3>3, <3>4 DEF EntrySets
      <3>5. ASSUME NEW scope \in Scopes, NEW key \in Keys, NEW value \in Nat,
                   keyring' = [keyring EXCEPT ![scope][key] = value]
            PROVE  keyring' \in [Scopes -> [Keys -> Nat]]
        <4>1. [keyring[scope] EXCEPT ![key] = value] \in [Keys -> Nat]
          BY <3>3
        <4> QED BY <3>3, <3>5, <4>1
      <3> QED BY <3>1, <3>2, <3>4, <3>5 DEF EntrySets
    <2> QED BY <1>15, <2>1, <2>2 DEF EditKeyring, Typing, router, bounds, Procs
  <1>16. ASSUME NEW p \in Pids, ReadEntries(p) PROVE Typing'
    <2> DEFINE e == proc[p].op
               made == [proc[p] EXCEPT !.at = "create:readEntries",
                                       !.scope = e.scope]
               read == [proc[p] EXCEPT !.at = "truncate",
                                       !.seen = Entries(e.scope)]
    <2>1. e.scope \in Scopes
      BY <1>0 DEF Process, Edits
    <2>2. Entries(e.scope) \in EntrySets
      BY <2>1, EntriesTyped
    <2>3. made \in Process /\ made.at # "signal"
      BY <1>0, <2>1, ZenonT(40) DEF Process, Places, Creations
    <2>4. read \in Process /\ read.at # "signal"
      BY <1>0, <2>2 DEF Process, Places
    <2>5. \/ proc' = [proc EXCEPT ![p] = made]
          \/ proc' = [proc EXCEPT ![p] = read]
      BY <1>16 DEF ReadEntries
    <2>6. torn' \in SUBSET Scopes
      BY <1>16, <2>1 DEF ReadEntries, Typing
    <2> HIDE DEF e, made, read
    <2>7. Procs
      BY <1>3, <2>3, <2>4, <2>5
    <2> HIDE DEF Procs
    <2> QED BY <1>16, <2>6, <2>7 DEF ReadEntries, Typing, router, bounds, Procs
  <1>17. ASSUME NEW p \in Pids, TruncateEntries(p) PROVE Typing'
    <2>1. Procs
      BY <1>1, <1>17 DEF TruncateEntries, Places
    <2> HIDE DEF Procs
    <2>2. files' \in [Scopes -> EntrySets \cup {Absent}]
      BY <1>17 DEF TruncateEntries, Typing
    <2> QED BY <1>17, <2>1, <2>2 DEF TruncateEntries, Typing, router, bounds,
            Procs
  <1>18. ASSUME NEW p \in Pids, WriteEntries(p) PROVE Typing'
    <2> DEFINE t == [proc[p] EXCEPT !.seen = NoEntries, !.op = NoEdit]
    <2>1. t \in Process
      BY <1>0 DEF Process
    <2>2. Edited(p) \in Places \ {"signal"}
      BY DEF Edited, Places
    <2>3. proc' = [proc EXCEPT ![p] = Moved(t, Edited(p))]
      BY <1>18 DEF WriteEntries
    <2> HIDE DEF t
    <2>4. Procs
      BY <1>3, <2>1, <2>2, <2>3, MovedTyped
    <2> HIDE DEF Procs
    <2>5. proc[p].op \in Edits /\ proc[p].seen \in EntrySets
      BY <1>0 DEF Process
    <2>6. files' \in [Scopes -> EntrySets \cup {Absent}]
      <3>1. EntriesToWrite(p) \in EntrySets
        BY <2>5 DEF EntriesToWrite, EntrySets, Edits
      <3> QED BY <1>18, <3>1 DEF WriteEntries, Typing
    <2>7. asked' \in [Scopes -> EntrySets]
      BY <1>18, <2>5 DEF WriteEntries, Typing, Edits, EntrySets
    <2> QED BY <1>18, <2>4, <2>6, <2>7 DEF WriteEntries, Typing, router, bounds,
            Procs
  <1>19. ASSUME NEW p \in Pids, Bootstrap(p) PROVE Typing'
    <2> DEFINE t == [proc[p] EXCEPT !.op = Edit("global", ApiKeyName, users + 1)]
               next == IF proc[p].cmd = "login" THEN "readEntries" ELSE "gone"
    <2>1. users \in Nat /\ users' \in Nat
      BY <1>19 DEF Bootstrap, Typing
    <2>2. t \in Process
      <3>1. Edit("global", ApiKeyName, users + 1) \in Edits
        BY <2>1 DEF Edit, Edits, Scopes
      <3> QED BY <1>0, <3>1 DEF Process
    <2>3. Exit(p) \/ proc' = [proc EXCEPT ![p] = Moved(t, next)]
      BY <1>19 DEF Bootstrap
    <2>4. next \in Places \ {"signal"}
      BY DEF Places
    <2> HIDE DEF t, next
    <2>5. Procs
      BY <1>2, <1>3, <2>2, <2>3, <2>4, MovedTyped
    <2> HIDE DEF Procs
    <2> QED BY <1>19, <2>1, <2>5 DEF Bootstrap, Typing, router, bounds, secrets,
            Procs
  <1>20. ASSUME NEW p \in Pids, CreateKey(p) PROVE Typing'
    <2> DEFINE r == [proc[p] EXCEPT !.op = Edit("local", SessionKey(p), Secret),
                                    !.at = "readEntries"]
    <2>1. r \in Process /\ r.at # "signal"
      <3>1. Edit("local", SessionKey(p), Secret) \in Edits
        BY DEF Edit, Edits, Scopes, Secret, NoValue
      <3> QED BY <1>0, <3>1 DEF Process, Places
    <2>2. proc' = [proc EXCEPT ![p] = r]
      BY <1>20 DEF CreateKey
    <2> HIDE DEF r
    <2>3. Procs
      BY <1>3, <2>1, <2>2
    <2> QED BY <1>4, <1>20, <2>3 DEF CreateKey, bounds
  <1>21. ASSUME NEW p \in Pids, CreateSession(p) PROVE Typing'
    BY <1>2, <1>4, <1>21 DEF CreateSession, bounds
  <1>22. ASSUME KeyringChanges PROVE Typing'
    BY <1>22 DEF KeyringChanges, Typing, router, secrets
  <1> QED BY <1>5, <1>6, <1>7, <1>8, <1>9, <1>10, <1>11, <1>12, <1>13, <1>14,
             <1>15, <1>16, <1>17, <1>18, <1>19, <1>20, <1>21, <1>22
          DEF Next, Step

\* Every piece of state of the machine has its type throughout.
LEMMA TypingInvariant == Spec => []Typing
  <1>1. Init => Typing
    <2> SUFFICES ASSUME Init PROVE Typing
      OBVIOUS
    <2>1. proc \in [Pids -> Process] /\ \A p \in Pids : proc[p].at # "signal"
      BY NothingTyped DEF Init, Gone
    <2>2. pidfile \in [exists : BOOLEAN, pid : Owners] /\ port \in Owners
      BY DEF Init, NoPidfile, Owners
    <2>3. LoggedIn \in EntrySets
      BY NothingTyped, KeysNamed DEF LoggedIn, EntrySets
    <2>4. /\ files \in [Scopes -> EntrySets \cup {Absent}]
          /\ keyring \in [Scopes -> EntrySets]
          /\ asked \in [Scopes -> EntrySets]
      BY <2>3, NothingTyped DEF Init
    <2>5. config \in Configs /\ unlocked \in BOOLEAN
      BY HostAssumption DEF Init
    <2>6. torn \in SUBSET Scopes /\ raced \in BOOLEAN /\ users \in Nat
          /\ crashes \in Nat
      BY DEF Init
    <2> QED BY <2>1, <2>2, <2>4, <2>5, <2>6 DEF Typing
  <1>2. Typing /\ [Next]_vars => Typing'
    <2>1. ASSUME Typing, UNCHANGED vars PROVE Typing'
      BY <2>1 DEF vars, Typing
    <2> QED BY <2>1, StepTyping
  <1> QED BY <1>1, <1>2, PTL DEF Spec

-----------------------------------------------------------------------------
(* Steps that are of no consequence to the pidfile or the secrets *)

RouterPlaces == {"truncatePid", "writePid", "load", "serve", "drop"}

\* Where a chat is while it stores the key of its session.
KeyPlaces == {"create:readEntries", "readEntries", "createSession"}

\* A process that is about to change neither the pidfile nor a secrets file.
Minor(r) ==
  /\ r.at \notin RouterPlaces \cup {"truncate", "write"}
  /\ r.cmd = "chat" => r.at \notin KeyPlaces

\* Nothing shared changes, and only such processes move.
Quiet ==
  /\ \A q \in Pids :
       \/ proc'[q] = proc[q]
       \/ /\ Minor(proc[q]) /\ Minor(proc'[q])
          /\ proc'[q].guard => proc[q].guard
  /\ UNCHANGED <<router, secrets, sessions, crashes>>

\* Going from one such place to another.
LEMMA GotoQuiet ==
  ASSUME Typing, NEW p \in Pids, NEW at \in Places, Goto(p, at),
         Minor(proc[p]),
         at \notin RouterPlaces \cup {"signal", "truncate", "write"} \cup KeyPlaces,
         UNCHANGED <<router, secrets, sessions, crashes>>
  PROVE  Quiet
  <1>1. /\ proc'[p] = Moved(proc[p], at) /\ proc'[p].at = at
        /\ \A q \in Pids \ {p} : proc'[q] = proc[q]
    BY GotoTyped
  <1>2. proc[p] \in Process
    BY DEF Typing
  <1>3. Moved(proc[p], at).guard => proc[p].guard
    BY <1>2 DEF Moved, Gone, Process
  <1> QED BY <1>1, <1>3 DEF Quiet, Minor

\* So are a launch, the checks of a start, the reads of secrets and the
\* requests that change nothing here.
LEMMA QuietSteps ==
  ASSUME Typing, NEW p \in Pids,
         \/ \E c \in Commands : Launch(p, c)
         \/ StartChecks(p) \/ InstallSignals(p) \/ Daemonize(p)
         \/ DaemonizeFails(p) \/ StopReads(p) \/ OpenStorage(p)
         \/ GetApiKey(p) \/ GetProviderKey(p) \/ GetConfigKey(p)
         \/ Bootstrap(p) \/ ChatChecks(p) \/ ChatAutoStarts(p)
         \/ ChatFindsRouter(p) \/ ChatGivesUp(p) \/ ChatSignsIn(p)
         \/ ChatListsProviders(p) \/ Finishes(p)
  PROVE  Quiet
  <1> USE DEF RouterPlaces, KeyPlaces
  <1> DEFINE Still == UNCHANGED <<router, secrets, sessions, crashes>>
  <1>0. /\ \A q \in Pids : proc[q] \in Process
        /\ ~Gone.guard /\ Minor(Gone)
    BY DEF Typing, Gone, Minor
  <1>1. ASSUME Exit(p), Minor(proc[p]), Still PROVE Quiet
    <2>1. "gone" \in Places
      BY DEF Places
    <2> QED BY <1>1, <2>1, GotoQuiet DEF Exit
  <1>2. ASSUME NEW r, proc' = [proc EXCEPT ![p] = r], Minor(proc[p]), Minor(r),
               r.guard => proc[p].guard, Still
        PROVE  Quiet
    BY <1>2 DEF Quiet, Typing
  <1>3. ASSUME NEW c \in Commands, Launch(p, c) PROVE Quiet
    <2> DEFINE r == Fresh(c, FirstStep(c.name))
    <2>1. Minor(proc[p])
      BY <1>3 DEF Launch, Running, Minor
    <2>2. Minor(r)
      BY FreshTyped DEF Minor
    <2>3. r.guard = FALSE
      BY DEF Fresh, Gone
    <2>4. proc' = [proc EXCEPT ![p] = r] /\ Still
      BY <1>3 DEF Launch
    <2> HIDE DEF r
    <2> QED BY <1>2, <2>1, <2>2, <2>3, <2>4
  <1>4. CASE \/ StartChecks(p) \/ InstallSignals(p) \/ DaemonizeFails(p)
             \/ ChatChecks(p) \/ ChatAutoStarts(p) \/ ChatFindsRouter(p)
             \/ ChatGivesUp(p) \/ ChatSignsIn(p) \/ ChatListsProviders(p)
             \/ Finishes(p)
    <2>1. Still /\ Minor(proc[p])
      BY <1>4 DEF StartChecks, InstallSignals, DaemonizeFails, ChatChecks,
         ChatAutoStarts, ChatFindsRouter, ChatGivesUp, ChatSignsIn,
         ChatListsProviders, Finishes, bounds, Minor, At
    <2>2. \/ Exit(p)
          \/ \E at \in {"install", "spawn", "acquire", "getApi", "autoStart",
                        "listProviders", "getProvider"} : Goto(p, at)
      BY <1>4 DEF StartChecks, InstallSignals, DaemonizeFails, ChatChecks,
         ChatAutoStarts, ChatFindsRouter, ChatGivesUp, ChatSignsIn,
         ChatListsProviders, Finishes
    <2> HIDE DEF Still
    <2>3. ASSUME NEW at \in {"install", "spawn", "acquire", "getApi",
                             "autoStart", "listProviders", "getProvider"},
                 Goto(p, at)
          PROVE  Quiet
      <3>1. /\ at \in Places
            /\ at \notin RouterPlaces \cup {"signal", "truncate", "write"}
                           \cup KeyPlaces
        BY DEF Places
      <3> QED BY <2>1, <2>3, <3>1, GotoQuiet DEF Still
    <2> QED BY <1>1, <2>1, <2>2, <2>3
  <1>5. CASE Daemonize(p)
    <2>1. Still /\ Minor(proc[p]) /\ Running(p)
      BY <1>5 DEF Daemonize, Minor, Running, bounds
    <2>2. CASE Exit(p)
      BY <1>1, <2>1, <2>2
    <2>3. CASE ~Exit(p)
      <3>1. PICK q \in Pids :
               /\ ~Running(q)
               /\ proc' = [proc EXCEPT
                    ![q] = Fresh(Command("foreground", NoEdit), "check"),
                    ![p] = Moved(@, IF @.cmd = "start" THEN "gone" ELSE "wait")]
        BY <1>5, <2>3 DEF Daemonize
      <3>2. q # p
        BY <2>1, <3>1
      <3> DEFINE f == Fresh(Command("foreground", NoEdit), "check")
                 r == Moved(proc[p], IF proc[p].cmd = "start" THEN "gone"
                                                              ELSE "wait")
      <3>3. Minor(f) /\ ~f.guard
        BY DEF Fresh, Gone, Minor, Command
      <3>4. Minor(r) /\ (r.guard => proc[p].guard)
        BY <1>0 DEF Moved, Gone, Minor, Process
      <3>5. proc' = [proc EXCEPT ![q] = f, ![p] = r]
        BY <3>1, <3>2
      <3>6. Minor(proc[q])
        BY <3>1 DEF Running, Minor
      <3> HIDE DEF f, r
      <3> QED BY <2>1, <3>2, <3>3, <3>4, <3>5, <3>6 DEF Quiet, Typing
    <2> QED BY <2>2, <2>3
  <1>6. CASE StopReads(p)
    <2>1. Still /\ Minor(proc[p])
      BY <1>6 DEF StopReads, At, Minor, bounds
    <2>2. CASE Exit(p)
      BY <1>1, <2>1, <2>2
    <2>3. CASE ~Exit(p)
      <3> DEFINE r == [proc[p] EXCEPT !.at = "signal", !.pid = pidfile.pid]
      <3>1. proc' = [proc EXCEPT ![p] = r]
        BY <1>6, <2>3 DEF StopReads
      <3>2. Minor(r) /\ (r.guard => proc[p].guard)
        BY <1>0 DEF Minor, Process
      <3> HIDE DEF r
      <3> QED BY <1>2, <2>1, <3>1, <3>2
    <2> QED BY <2>2, <2>3
  <1>7. CASE OpenStorage(p)
    <2> DEFINE first == FirstUse(proc[p])
               made == [proc[p] EXCEPT !.at = "create:opened", !.scope = "global"]
    <2>1. Still /\ Minor(proc[p])
      BY <1>7 DEF OpenStorage, Minor, bounds
    <2>2. \A b \in {"keyring", "file"} :
             /\ Minor([first EXCEPT !.backend = b])
             /\ [first EXCEPT !.backend = b].guard => proc[p].guard
      <3>1. /\ first \in Process /\ first.at \in {"readEntries", "status", "getApi"}
            /\ first.at = "readEntries" => first.cmd = "edit"
            /\ first.guard = proc[p].guard
        BY <1>0, FirstUseTyped
      <3> HIDE DEF first
      <3> QED BY <3>1 DEF Process, Minor
    <2>3. /\ Minor([made EXCEPT !.backend = "file"])
          /\ [made EXCEPT !.backend = "file"].guard => proc[p].guard
      BY <1>0 DEF Process, Minor
    <2>4. \/ Exit(p)
          \/ proc' = [proc EXCEPT ![p] = [first EXCEPT !.backend = "keyring"]]
          \/ proc' = [proc EXCEPT ![p] = [first EXCEPT !.backend = "file"]]
          \/ proc' = [proc EXCEPT ![p] = [made EXCEPT !.backend = "file"]]
      BY <1>7 DEF OpenStorage
    <2> HIDE DEF first, made
    <2> QED BY <1>1, <1>2, <2>1, <2>2, <2>3, <2>4
  <1>8. CASE GetApiKey(p) \/ GetProviderKey(p) \/ GetConfigKey(p)
    <2>1. /\ proc[p].at \in {"getApi", "getProvider", "getRef"}
          /\ proc'[p].at \in {"getApi", "getProvider", "getRef", "ready",
                              "create:getApi", "create:getProvider",
                              "create:getRef", "signIn", "bootstrap", "gone"}
          /\ proc'[p].guard => proc[p].guard
          /\ \A q \in Pids \ {p} : proc'[q] = proc[q]
          /\ UNCHANGED <<config, router, secrets, unlocked, users, sessions,
                         bounds>>
      <3> USE KeysNamed
      <3>1. CASE GetApiKey(p)
        <4> DEFINE hit == IF proc[p].cmd = "chat" THEN "signIn" ELSE "gone"
                   miss == IF proc[p].cmd = "login" THEN "bootstrap" ELSE "gone"
        <4>1. Get(p, "getApi", "create:getApi", ApiKeyName, hit, miss)
          BY <3>1 DEF GetApiKey
        <4>2. hit \in {"signIn", "gone"} /\ miss \in {"bootstrap", "gone"}
          OBVIOUS
        <4>3. {"getApi", "signIn", "bootstrap", "gone"} \subseteq Places
          BY DEF Places
        <4> HIDE DEF hit, miss
        <4>4. /\ proc[p].at = "getApi"
              /\ proc'[p].at \in {"getApi", "create:getApi", hit, miss, "gone"}
              /\ proc'[p].guard => proc[p].guard
              /\ \A q \in Pids \ {p} : proc'[q] = proc[q]
              /\ UNCHANGED <<config, router, secrets, unlocked, users, sessions,
                             bounds>>
          BY <4>1, <4>2, <4>3, GetTyped DEF Creations
        <4> QED BY <4>2, <4>4
      <3>2. CASE GetProviderKey(p)
        <4> DEFINE miss == IF config.ref /\ ~config.env THEN "getRef" ELSE "ready"
        <4>1. Get(p, "getProvider", "create:getProvider", ProviderKey, "ready",
                  miss)
          BY <3>2 DEF GetProviderKey
        <4>2. miss \in {"getRef", "ready"}
          OBVIOUS
        <4>3. {"getProvider", "ready", "getRef"} \subseteq Places
          BY DEF Places
        <4> HIDE DEF miss
        <4>4. /\ proc[p].at = "getProvider"
              /\ proc'[p].at \in {"getProvider", "create:getProvider", "ready",
                                  miss, "gone"}
              /\ proc'[p].guard => proc[p].guard
              /\ \A q \in Pids \ {p} : proc'[q] = proc[q]
              /\ UNCHANGED <<config, router, secrets, unlocked, users, sessions,
                             bounds>>
          BY <4>1, <4>2, <4>3, GetTyped DEF Creations
        <4> QED BY <4>2, <4>4
      <3>3. CASE GetConfigKey(p)
        BY <3>3, GetTyped, SMTT(30) DEF GetConfigKey, Creations, Places
      <3> QED BY <1>8, <3>1, <3>2, <3>3
    <2> QED BY <2>1 DEF Quiet, Minor, bounds
  <1>9. CASE Bootstrap(p)
    <2> DEFINE t == [proc[p] EXCEPT !.op = Edit("global", ApiKeyName, users + 1)]
               next == IF proc[p].cmd = "login" THEN "readEntries" ELSE "gone"
    <2>1. Still /\ Minor(proc[p])
      BY <1>9 DEF Bootstrap, Minor, bounds
    <2>2. Exit(p) \/ proc' = [proc EXCEPT ![p] = Moved(t, next)]
      BY <1>9 DEF Bootstrap
    <2>3. t.cmd = proc[p].cmd /\ t.guard = proc[p].guard
          /\ \A at : [t EXCEPT !.at = at].at = at
                     /\ [t EXCEPT !.at = at].cmd = t.cmd
                     /\ [t EXCEPT !.at = at].guard = t.guard
      BY <1>0 DEF Process
    <2> HIDE DEF t
    <2>4. Minor(Moved(t, next)) /\ (Moved(t, next).guard => proc[p].guard)
      BY <1>0, <2>3 DEF Moved, Minor
    <2> HIDE DEF next
    <2> QED BY <1>1, <1>2, <2>1, <2>2, <2>4
  <1> QED BY <1>3, <1>4, <1>5, <1>6, <1>7, <1>8, <1>9

-----------------------------------------------------------------------------
(* The router that serves and its pidfile *)

\* The pidfile is this process's to write or to remove.
Holds(p) == proc[p].guard \/ proc[p].at \in {"truncatePid", "writePid"}

\* What a process is doing says whether it holds the pidfile or the port.
Roles ==
  \A p \in Pids :
    /\ proc[p].at \in RouterPlaces => proc[p].cmd = "foreground"
    /\ proc[p].guard <=> proc[p].at \in {"load", "serve", "drop"}
    /\ (port = p) <=> proc[p].at = "serve"

\* Unless two starts overlapped, one process holds the pidfile, and it names
\* the one that wrote it.
Alone ==
  ~raced => \A p, q \in Pids : Holds(p) /\ Holds(q) => p = q

Named == ~raced => \A p \in Pids : proc[p].guard => pidfile = PidfileOf(p)

\* A process that is killed while it holds nothing leaves no pidfile.
Pidfiles == Roles /\ Alone /\ Named /\ NoneLeftBehind

\* Steps away from the pidfile and the port disturb none of this.
LEMMA AsideStep ==
  ASSUME Typing, Pidfiles,
         \A q \in Pids :
            \/ /\ proc'[q].at = proc[q].at /\ proc'[q].cmd = proc[q].cmd
               /\ proc'[q].guard = proc[q].guard
            \/ /\ {proc[q].at, proc'[q].at} \cap RouterPlaces = {}
               /\ proc'[q].guard => proc[q].guard,
         UNCHANGED <<pidfile, port, raced>>, crashes' >= crashes
  PROVE  Pidfiles'
  <1> USE DEF RouterPlaces
  <1>1. Roles'
    BY DEF Pidfiles, Roles
  <1>2. \A q \in Pids : Holds(q)' => Holds(q)
    BY DEF Holds
  <1>3. Alone' /\ Named'
    BY <1>2 DEF Pidfiles, Alone, Named
  <1>4. NoneLeftBehind'
    <2>1. \A q \in Pids : proc[q].guard \/ proc[q].at = "writePid"
                            => proc'[q].guard \/ proc'[q].at = "writePid"
      BY DEF Pidfiles, Roles
    <2>2. crashes' = 0 => crashes = 0
      BY DEF Typing
    <2> QED BY <2>1, <2>2 DEF Pidfiles, NoneLeftBehind
  <1> QED BY <1>1, <1>3, <1>4 DEF Pidfiles

\* The router's own steps, a signal and a crash keep the pidfile in order.
LEMMA PidfileStep == ASSUME Typing, Pidfiles, Next PROVE Pidfiles'
  <1> USE DEF RouterPlaces
  <1> DEFINE Aside(q) ==
         \/ /\ proc'[q].at = proc[q].at /\ proc'[q].cmd = proc[q].cmd
            /\ proc'[q].guard = proc[q].guard
         \/ /\ {proc[q].at, proc'[q].at} \cap RouterPlaces = {}
            /\ proc'[q].guard => proc[q].guard
  <1>0. /\ \A q \in Pids : proc[q] \in Process
        /\ Pids \subseteq Nat /\ Nobody \notin Pids /\ crashes \in Nat
        /\ Gone.at = "gone" /\ Gone.guard = FALSE
        /\ raced \in BOOLEAN
    BY HostAssumption DEF Typing, Gone, Nobody
  <1>1. ASSUME Quiet PROVE Pidfiles'
    <2>1. \A q \in Pids : Aside(q)
      BY <1>1 DEF Quiet, Minor
    <2> QED BY <1>0, <1>1, <2>1, AsideStep DEF Quiet, router
  <1>2. ASSUME NEW p \in Pids, NEW at \in Places \ RouterPlaces, Goto(p, at),
               at # "signal", proc[p].at \notin RouterPlaces
        PROVE  \A q \in Pids : Aside(q)
    <2>1. /\ proc'[p] = Moved(proc[p], at) /\ proc'[p].at = at
          /\ \A q \in Pids \ {p} : proc'[q] = proc[q]
      BY <1>2, GotoTyped
    <2>2. Moved(proc[p], at).guard => proc[p].guard
      BY <1>0 DEF Moved, Process
    <2> QED BY <1>2, <2>1, <2>2
  <1>3. ASSUME NEW p \in Pids, NEW r, proc' = [proc EXCEPT ![p] = r],
               {proc[p].at, r.at} \cap RouterPlaces = {},
               r.guard => proc[p].guard
        PROVE  \A q \in Pids : Aside(q)
    BY <1>3 DEF Typing
  <1>4. ASSUME NEW p \in Pids,
               CreateFile(p) \/ EditKeyring(p) \/ ReadEntries(p)
                 \/ TruncateEntries(p) \/ WriteEntries(p) \/ CreateKey(p)
                 \/ CreateSession(p)
        PROVE  Pidfiles'
    <2> DEFINE Procs == \A q \in Pids : Aside(q)
    <2>1. CASE EditKeyring(p) \/ TruncateEntries(p) \/ CreateSession(p)
      <3>1. Procs
        BY <1>2, <2>1 DEF EditKeyring, TruncateEntries, CreateSession, Edited,
           Exit, Places, At
      <3> QED BY <1>0, <2>1, <3>1, AsideStep DEF EditKeyring, TruncateEntries,
           CreateSession, router, bounds
    <2>2. CASE CreateFile(p)
      <3>1. CASE Exit(p)
        BY <1>0, <1>2, <2>2, <3>1, AsideStep DEF CreateFile, Exit, Creations,
           Places, router, bounds
      <3>2. CASE ~Exit(p)
        <4>1. /\ proc' = [proc EXCEPT ![p] = After(proc[p])]
              /\ proc[p].at \in Creations
          BY <2>2, <3>2 DEF CreateFile
        <4>2. After(proc[p]).at \notin RouterPlaces
              /\ (After(proc[p]).guard => proc[p].guard)
          BY <1>0, <4>1, AfterTyped
        <4>3. Procs
          BY <1>3, <4>1, <4>2 DEF Creations
        <4> QED BY <1>0, <2>2, <4>3, AsideStep DEF CreateFile, router, bounds
      <3> QED BY <3>1, <3>2
    <2>3. CASE ReadEntries(p)
      <3> DEFINE e == proc[p].op
                 made == [proc[p] EXCEPT !.at = "create:readEntries",
                                         !.scope = e.scope]
                 read == [proc[p] EXCEPT !.at = "truncate",
                                         !.seen = Entries(e.scope)]
      <3>1. \/ proc' = [proc EXCEPT ![p] = made]
            \/ proc' = [proc EXCEPT ![p] = read]
        BY <2>3 DEF ReadEntries
      <3>2. \A r \in {made, read} : r.at \notin RouterPlaces
                                    /\ (r.guard => proc[p].guard)
        BY <1>0 DEF Process
      <3> HIDE DEF made, read
      <3>3. Procs
        BY <1>3, <2>3, <3>1, <3>2 DEF ReadEntries
      <3> QED BY <1>0, <2>3, <3>3, AsideStep DEF ReadEntries, router, bounds
    <2>4. CASE WriteEntries(p)
      <3> DEFINE t == [proc[p] EXCEPT !.seen = NoEntries, !.op = NoEdit]
      <3>1. t \in Process /\ t.guard = proc[p].guard
        BY <1>0, NothingTyped DEF Process
      <3>2. proc' = [proc EXCEPT ![p] = Moved(t, Edited(p))]
        BY <2>4 DEF WriteEntries
      <3> HIDE DEF t
      <3>3. /\ Moved(t, Edited(p)).at \notin RouterPlaces
            /\ Moved(t, Edited(p)).guard => proc[p].guard
        BY <1>0, <3>1 DEF Moved, Edited, Process
      <3>4. Procs
        BY <1>3, <2>4, <3>2, <3>3 DEF WriteEntries
      <3> QED BY <1>0, <2>4, <3>4, AsideStep DEF WriteEntries, router, bounds
    <2>5. CASE CreateKey(p)
      <3> DEFINE r == [proc[p] EXCEPT !.op = Edit("local", SessionKey(p), Secret),
                                      !.at = "readEntries"]
      <3>1. proc' = [proc EXCEPT ![p] = r] /\ proc[p].at = "ready"
        BY <2>5 DEF CreateKey, At
      <3>2. r.at \notin RouterPlaces /\ (r.guard => proc[p].guard)
        BY <1>0 DEF Process
      <3> HIDE DEF r
      <3>3. Procs
        BY <1>3, <3>1, <3>2
      <3>4. UNCHANGED <<pidfile, port, raced, crashes>>
        BY <2>5 DEF CreateKey, router, bounds
      <3> QED BY <1>0, <3>3, <3>4, AsideStep
    <2> QED BY <1>4, <2>1, <2>2, <2>3, <2>4, <2>5
  <1>5. ASSUME KeyringChanges PROVE Pidfiles'
    BY <1>0, <1>5, AsideStep DEF KeyringChanges, router
  <1>6. ASSUME NEW p \in Pids, StopSignals(p) PROVE Pidfiles'
    <2> DEFINE q == proc[p].pid
    <2>1. q \in Pids /\ proc[p].at = "signal"
      BY <1>6 DEF StopSignals, At, Typing
    <2>2. CASE Exit(p)
      BY <1>0, <1>2, <1>6, <2>1, <2>2, AsideStep DEF StopSignals, Exit, Places,
         router, bounds
    <2>3. CASE ~Exit(p)
      <3> DEFINE r == IF Handles(q) THEN [proc[q] EXCEPT !.term = TRUE] ELSE Gone
      <3>1. q # p /\ proc' = [proc EXCEPT ![q] = r, ![p] = Gone]
        BY <1>6, <2>3 DEF StopSignals
      <3>2. \/ /\ r.at = proc[q].at /\ r.cmd = proc[q].cmd
               /\ r.guard = proc[q].guard
            \/ proc[q].at \notin RouterPlaces /\ r = Gone
        BY <1>0, <2>1 DEF Handles, Process, Pidfiles, Roles
      <3> HIDE DEF q, r
      <3>3. \A x \in Pids : Aside(x)
        BY <1>0, <2>1, <3>1, <3>2 DEF Typing
      <3> QED BY <1>0, <1>6, <3>3, AsideStep DEF StopSignals, router, bounds
    <2> QED BY <2>2, <2>3
  <1>7. ASSUME NEW p \in Pids, Crash(p) PROVE Pidfiles'
    <2>1. proc' = [proc EXCEPT ![p] = Gone]
      BY <1>7 DEF Crash, Exit, Goto, Moved
    <2>2. /\ port' = (IF port = p THEN Nobody ELSE port)
          /\ crashes' = crashes + 1 /\ UNCHANGED <<pidfile, raced>>
      BY <1>7 DEF Crash
    <2>3. proc'[p] = Gone /\ \A q \in Pids \ {p} : proc'[q] = proc[q]
      BY <2>1 DEF Typing
    <2>4. Roles'
      BY <1>0, <2>2, <2>3 DEF Pidfiles, Roles
    <2>5. Alone' /\ Named'
      BY <1>0, <2>2, <2>3 DEF Pidfiles, Alone, Named, Holds
    <2>6. NoneLeftBehind'
      BY <1>0, <2>2 DEF NoneLeftBehind
    <2> QED BY <2>4, <2>5, <2>6 DEF Pidfiles
  <1>8. ASSUME NEW p \in Pids, AcquireChecks(p) PROVE Pidfiles'
    <2>1. CASE Exit(p) /\ UNCHANGED raced
      <3>1. proc[p].at = "acquire" /\ UNCHANGED <<pidfile, port, raced, crashes>>
        BY <1>8, <2>1 DEF AcquireChecks, At, bounds
      <3>2. "gone" \in Places \ RouterPlaces
        BY DEF Places
      <3>3. \A q \in Pids : Aside(q)
        BY <1>2, <2>1, <3>1, <3>2 DEF Exit
      <3> QED BY <1>0, <3>1, <3>3, AsideStep
    <2>2. CASE ~(Exit(p) /\ UNCHANGED raced)
      <3>1. /\ RunningPid = Nobody /\ proc[p].at = "acquire"
            /\ proc[p].cmd = "foreground" /\ Goto(p, "truncatePid")
            /\ raced' = (raced \/ \E q \in Pids \ {p} : Acquiring(q))
            /\ UNCHANGED <<pidfile, port, crashes>>
        BY <1>8, <2>2 DEF AcquireChecks, At, bounds
      <3>2. proc' = [proc EXCEPT ![p].at = "truncatePid"]
        BY <3>1 DEF Goto, Moved
      <3>3. /\ proc'[p].at = "truncatePid" /\ proc'[p].cmd = "foreground"
            /\ proc'[p].guard = proc[p].guard
            /\ \A q \in Pids \ {p} : proc'[q] = proc[q]
        BY <1>0, <3>1, <3>2 DEF Typing, Process
      <3>4. Roles'
        BY <3>1, <3>3 DEF Pidfiles, Roles
      <3>5. ~raced' => \A q \in Pids \ {p} : ~Holds(q)
        <4> SUFFICES ASSUME ~raced', NEW q \in Pids \ {p}, Holds(q) PROVE FALSE
          OBVIOUS
        <4>1. ~raced /\ ~Acquiring(q)
          BY <3>1
        <4>2. proc[q].guard
          BY <4>1 DEF Holds, Acquiring, Running
        <4>3. pidfile = PidfileOf(q) /\ Running(q)
          BY <4>1, <4>2 DEF Pidfiles, Named, Roles, Running
        <4> QED BY <1>0, <3>1, <4>3 DEF RunningPid, PidfileOf
      <3>6. Alone'
        BY <3>3, <3>5 DEF Alone, Holds
      <3>7. ~proc[p].guard
        BY <3>1 DEF Pidfiles, Roles
      <3>8. Named'
        BY <1>0, <3>1, <3>3, <3>7 DEF Pidfiles, Named
      <3>9. NoneLeftBehind'
        BY <1>0, <3>1, <3>3 DEF Pidfiles, NoneLeftBehind
      <3> QED BY <3>4, <3>6, <3>8, <3>9 DEF Pidfiles
    <2> QED BY <2>1, <2>2
  <1>9. ASSUME NEW p \in Pids, AcquireTruncates(p) \/ AcquireWrites(p)
        PROVE  Pidfiles'
    <2>1. /\ proc[p].at \in {"truncatePid", "writePid"}
          /\ proc[p].cmd = "foreground"
          /\ UNCHANGED <<port, raced, crashes>>
      BY <1>9 DEF AcquireTruncates, AcquireWrites, At, bounds
    <2>2. /\ \/ /\ proc'[p].at = "writePid" /\ pidfile' = PidfileOf(Nobody)
                /\ proc'[p].guard = proc[p].guard
             \/ /\ proc'[p].at = "load" /\ proc'[p].guard
                /\ pidfile' = PidfileOf(p)
          /\ proc'[p].cmd = proc[p].cmd
          /\ \A q \in Pids \ {p} : proc'[q] = proc[q]
      BY <1>0, <1>9 DEF AcquireTruncates, AcquireWrites, Goto, Moved, Typing,
         Process
    <2>3. ~proc[p].guard /\ port # p /\ Holds(p)
      BY <2>1 DEF Pidfiles, Roles, Holds
    <2>4. Roles'
      BY <2>1, <2>2, <2>3 DEF Pidfiles, Roles
    <2>5. ~raced => \A q \in Pids \ {p} : ~Holds(q)
      BY <2>3 DEF Pidfiles, Alone
    <2>6. Alone' /\ Named'
      BY <2>1, <2>2, <2>3, <2>5 DEF Alone, Named, Holds
    <2>7. NoneLeftBehind'
      BY <2>2 DEF NoneLeftBehind
    <2> QED BY <2>4, <2>6, <2>7 DEF Pidfiles
  <1>10. ASSUME NEW p \in Pids, LoadFails(p) \/ RouterBinds(p) \/ RouterExits(p),
                Exit(p), DropPidfile(p), UNCHANGED <<port, raced, crashes>>
         PROVE  Pidfiles'
    <2>1. proc[p].at \in {"load", "drop"}
      BY <1>10 DEF LoadFails, RouterBinds, RouterExits, At
    <2>2. proc[p].guard /\ pidfile' = NoPidfile
      BY <1>10, <2>1 DEF Pidfiles, Roles, DropPidfile
    <2>3. proc'[p] = Gone /\ \A q \in Pids \ {p} : proc'[q] = proc[q]
      BY <1>10 DEF Exit, Goto, Moved, Typing
    <2>4. Roles'
      BY <1>0, <1>10, <2>1, <2>3 DEF Pidfiles, Roles
    <2>5. Alone'
      BY <1>0, <1>10, <2>3 DEF Pidfiles, Alone, Holds
    <2>6. ~raced => \A q \in Pids \ {p} : ~Holds(q)
      BY <2>2 DEF Pidfiles, Alone, Holds
    <2>7. Named'
      BY <1>0, <1>10, <2>3, <2>6 DEF Named, Holds
    <2>8. NoneLeftBehind'
      BY <2>2 DEF NoneLeftBehind, NoPidfile
    <2> QED BY <2>4, <2>5, <2>7, <2>8 DEF Pidfiles
  <1>11. ASSUME NEW p \in Pids, LoadFails(p) \/ RouterExits(p) PROVE Pidfiles'
    BY <1>10, <1>11 DEF LoadFails, RouterExits, bounds
  <1>12. ASSUME NEW p \in Pids, RouterBinds(p) \/ RouterShutsDown(p)
         PROVE  Pidfiles'
    <2>1. CASE Exit(p) /\ RouterBinds(p) /\ UNCHANGED port
      <3>1. DropPidfile(p) /\ UNCHANGED <<raced, crashes>>
        <4>1. port # Nobody
          <5>1. proc'[p].at # "serve"
            BY <1>0, <2>1 DEF Exit, Goto, Moved, Typing
          <5> QED BY <2>1, <5>1, GotoTyped DEF RouterBinds, Places
        <4> QED BY <2>1, <4>1 DEF RouterBinds, bounds
      <3> QED BY <1>10, <2>1, <3>1
    <2>2. CASE ~(Exit(p) /\ RouterBinds(p) /\ UNCHANGED port)
      <3>1. /\ UNCHANGED <<pidfile, raced, crashes>>
            /\ \/ /\ proc[p].at = "load" /\ Goto(p, "serve")
                  /\ port = Nobody /\ port' = p
               \/ /\ proc[p].at = "serve" /\ Goto(p, "drop") /\ port' = Nobody
        BY <1>12, <2>2 DEF RouterBinds, RouterShutsDown, At, bounds
      <3>2. /\ proc'[p].cmd = proc[p].cmd /\ proc'[p].guard = proc[p].guard
            /\ \/ /\ proc[p].at = "load" /\ proc'[p].at = "serve"
                  /\ port = Nobody /\ port' = p
               \/ /\ proc[p].at = "serve" /\ proc'[p].at = "drop"
                  /\ port' = Nobody
            /\ \A q \in Pids \ {p} : proc'[q] = proc[q]
        BY <1>0, <3>1 DEF Goto, Moved, Typing, Process
      <3>3. Roles'
        BY <1>0, <3>1, <3>2 DEF Pidfiles, Roles
      <3>4. \A q \in Pids : Holds(q)' => Holds(q)
        BY <3>2 DEF Holds
      <3>5. Alone' /\ Named'
        BY <3>1, <3>2, <3>4 DEF Pidfiles, Alone, Named
      <3>6. NoneLeftBehind'
        <4>1. \A q \in Pids : proc[q].guard \/ proc[q].at = "writePid"
                               => proc'[q].guard \/ proc'[q].at = "writePid"
          BY <3>2
        <4> QED BY <3>1, <4>1 DEF Pidfiles, NoneLeftBehind
      <3> QED BY <3>3, <3>5, <3>6 DEF Pidfiles
    <2> QED BY <2>1, <2>2
  <1> HIDE DEF Aside
  <1>13. ASSUME NEW p \in Pids, Step(p) PROVE Pidfiles'
    BY <1>1, <1>4, <1>6, <1>8, <1>9, <1>11, <1>12, <1>13, QuietSteps DEF Step
  <1>14. ASSUME NEW p \in Pids,
                LoadFails(p) \/ DaemonizeFails(p) \/ CreateKey(p) \/ Crash(p)
                  \/ Finishes(p)
         PROVE  Pidfiles'
    BY <1>1, <1>4, <1>7, <1>11, <1>14, QuietSteps
  <1>15. ASSUME NEW p \in Pids, NEW c \in Commands, Launch(p, c) PROVE Pidfiles'
    BY <1>1, <1>15, QuietSteps
  <1> QED BY <1>5, <1>13, <1>14, <1>15 DEF Next

\* Pidfiles is inductive.
LEMMA PidfilesInvariant == Spec => []Pidfiles
  <1>1. Init => Pidfiles
    BY HostAssumption DEF Init, Pidfiles, Roles, Alone, Named, NoneLeftBehind,
       Holds, Gone, NoPidfile, RouterPlaces, Nobody
  <1>2. Typing /\ Pidfiles /\ [Next]_vars => Pidfiles'
    <2>1. ASSUME Pidfiles, UNCHANGED vars PROVE Pidfiles'
      BY <2>1 DEF vars, Pidfiles, Roles, Alone, Named, NoneLeftBehind, Holds
    <2> QED BY <2>1, PidfileStep
  <1> QED BY <1>1, <1>2, TypingInvariant, PTL DEF Spec

\* Unless two starts overlapped in Pidfile::acquire, the router that serves is
\* the one the pidfile names, so a stop reaches it and a second start is
\* refused, whatever crashed and whoever was given its identifier.
THEOREM PidfileNamesTheRouter == Spec => []ServingNamed
  <1>1. Typing /\ Pidfiles => ServingNamed
    BY DEF Typing, Owners, Pidfiles, Roles, Named, ServingNamed, PidfileOf
  <1> QED BY <1>1, TypingInvariant, PidfilesInvariant, PTL

\* Without a crash or overlapping starts no pidfile outlives the process that
\* made it: every early return of run_foreground drops the guard.
THEOREM NoPidfileIsLeft == Spec => []NoneLeftBehind
  <1>1. Pidfiles => NoneLeftBehind
    BY DEF Pidfiles
  <1> QED BY <1>1, PidfilesInvariant, PTL

-----------------------------------------------------------------------------
(* The files of secrets *)

EditPlaces == {"truncate", "write"}

\* As long as the edits of a file did not overlap and none was killed on it,
\* the one that edits it read what the edits before it asked for.
Files ==
  /\ \A s \in Scopes \ torn : \A p, q \in Editing(s) :
        p = q /\ proc[p].seen = asked[s]
  /\ SecretsKept

\* Steps that leave the entries disturb none of this, also when an edit that
\* has not emptied its file yet is given up.
LEMMA FilesAside ==
  ASSUME Files,
         \A q \in Pids :
            \/ /\ proc'[q].at = proc[q].at /\ proc'[q].op = proc[q].op
               /\ proc'[q].seen = proc[q].seen
            \/ /\ proc'[q].at \notin EditPlaces
               /\ proc[q].at = "write" => proc[q].op.scope \in torn',
         torn \subseteq torn', UNCHANGED asked,
         \A s \in Scopes : Entries(s)' = Entries(s)
  PROVE  Files'
  <1> USE DEF EditPlaces
  <1> SUFFICES ASSUME NEW s \in Scopes \ torn'
               PROVE  /\ \A p, q \in Editing(s)' :
                            p = q /\ proc'[p].seen = asked[s]
                      /\ (\A p \in Editing(s)' : proc'[p].at # "write")
                            => Entries(s)' = asked[s]
    BY DEF Files, SecretsKept
  <1>1. ASSUME NEW p \in Editing(s)'
        PROVE  /\ p \in Editing(s) /\ proc'[p].at = proc[p].at
               /\ proc'[p].seen = proc[p].seen
    BY <1>1 DEF Editing, Running
  <1>2. ASSUME NEW p \in Editing(s), proc[p].at = "write"
        PROVE  p \in Editing(s)' /\ proc'[p].at = "write"
    BY <1>2 DEF Editing, Running
  <1>3. \A p, q \in Editing(s)' : p = q /\ proc'[p].seen = asked[s]
    BY <1>1 DEF Files
  <1>4. ASSUME \A p \in Editing(s)' : proc'[p].at # "write"
        PROVE  Entries(s)' = asked[s]
    BY <1>2, <1>4 DEF Files, SecretsKept
  <1> QED BY <1>3, <1>4

\* A step that moves a process which is not between the read and the write of
\* a file to a place that is not, either.
LEMMA FilesMove ==
  ASSUME Typing, Files, NEW p \in Pids, NEW r, proc' = [proc EXCEPT ![p] = r],
         {proc[p].at, r.at} \cap EditPlaces = {}, UNCHANGED secrets
  PROVE  Files'
  <1>1. /\ proc'[p] = r
        /\ \A q \in Pids \ {p} : proc'[q] = proc[q]
    BY DEF Typing
  <1>2. \A s \in Scopes : Entries(s)' = Entries(s)
    BY DEF Entries, secrets
  <1> QED BY <1>1, <1>2, FilesAside DEF secrets, EditPlaces

\* Only edits change the files; each writes what the last one left, with its
\* one entry changed.
LEMMA FilesStep == ASSUME Typing, Files, Next PROVE Files'
  <1> USE DEF EditPlaces
  <1>0. /\ \A q \in Pids : proc[q] \in Process
        /\ Gone.at = "gone"
    BY DEF Typing, Gone
  <1>1. ASSUME Quiet PROVE Files'
    <2>1. \A s \in Scopes : Entries(s)' = Entries(s)
      BY <1>1 DEF Quiet, Entries, secrets
    <2> QED BY <1>1, <2>1, FilesAside DEF Quiet, Minor, secrets
  <1>2. ASSUME NEW p \in Pids, NEW at, Goto(p, at),
               {proc[p].at, at} \cap EditPlaces = {}, UNCHANGED secrets
        PROVE  Files'
    <2>1. Moved(proc[p], at).at \notin EditPlaces
      BY <1>0, <1>2 DEF Moved, Process
    <2> QED BY <1>2, <2>1, FilesMove DEF Goto
  <1>3. ASSUME NEW p \in Pids,
               \/ AcquireChecks(p) \/ AcquireTruncates(p) \/ LoadFails(p)
               \/ RouterBinds(p) \/ RouterShutsDown(p) \/ RouterExits(p)
               \/ CreateSession(p)
        PROVE  Files'
    <2>1. /\ \E at \in {"gone", "truncatePid", "writePid", "serve", "drop"} :
               Goto(p, at)
          /\ proc[p].at \notin EditPlaces
          /\ UNCHANGED secrets
      BY <1>3 DEF AcquireChecks, AcquireTruncates, LoadFails, RouterBinds,
         RouterShutsDown, RouterExits, CreateSession, Exit, At
    <2> QED BY <1>2, <2>1
  <1>4. ASSUME NEW p \in Pids, AcquireWrites(p) \/ CreateKey(p) PROVE Files'
    <2> DEFINE load == [proc[p] EXCEPT !.at = "load", !.guard = TRUE]
               made == [proc[p] EXCEPT
                          !.op = Edit("local", SessionKey(p), Secret),
                          !.at = "readEntries"]
    <2>1. proc' = [proc EXCEPT ![p] = load] \/ proc' = [proc EXCEPT ![p] = made]
      BY <1>4 DEF AcquireWrites, CreateKey
    <2>2. {load.at, made.at} \cap EditPlaces = {}
      BY <1>0 DEF Process
    <2>3. proc[p].at \notin EditPlaces /\ UNCHANGED secrets
      BY <1>4 DEF AcquireWrites, CreateKey, At
    <2> HIDE DEF load, made
    <2> QED BY <2>1, <2>2, <2>3, FilesMove
  <1>5. ASSUME NEW p \in Pids, StopSignals(p) PROVE Files'
    <2> DEFINE q == proc[p].pid
    <2>1. q \in Pids /\ proc[p].at = "signal"
      BY <1>5 DEF StopSignals, At, Typing
    <2>2. UNCHANGED <<asked, files>> /\ \A s \in Scopes : Entries(s)' = Entries(s)
      BY <1>5 DEF StopSignals, Entries
    <2>3. CASE Exit(p) /\ UNCHANGED torn
      BY <1>2, <1>5, <2>1, <2>3 DEF StopSignals, Exit, secrets
    <2>4. CASE ~(Exit(p) /\ UNCHANGED torn)
      <3> DEFINE r == IF Handles(q) THEN [proc[q] EXCEPT !.term = TRUE] ELSE Gone
      <3>1. q # p /\ proc' = [proc EXCEPT ![q] = r, ![p] = Gone]
            /\ torn' = torn \cup Half(q)
        BY <1>5, <2>4 DEF StopSignals
      <3>2. \/ r.at = proc[q].at /\ r.op = proc[q].op /\ r.seen = proc[q].seen
            \/ r = Gone
        BY <1>0, <2>1 DEF Process
      <3>3. proc[q].at = "write" => proc[q].op.scope \in torn'
        BY <3>1 DEF Half
      <3> HIDE DEF q, r
      <3>4. \A x \in Pids :
               \/ /\ proc'[x].at = proc[x].at /\ proc'[x].op = proc[x].op
                  /\ proc'[x].seen = proc[x].seen
               \/ /\ proc'[x].at \notin EditPlaces
                  /\ proc[x].at = "write" => proc[x].op.scope \in torn'
        BY <1>0, <2>1, <3>1, <3>2, <3>3 DEF Typing
      <3> QED BY <2>2, <3>1, <3>4, FilesAside
    <2> QED BY <2>3, <2>4
  <1>6. ASSUME NEW p \in Pids, Crash(p) PROVE Files'
    <2>1. proc' = [proc EXCEPT ![p] = Gone] /\ torn' = torn \cup Half(p)
          /\ UNCHANGED <<asked, files>>
      BY <1>6 DEF Crash, Exit, Goto, Moved
    <2>2. proc[p].at = "write" => proc[p].op.scope \in torn'
      BY <2>1 DEF Half
    <2>3. \A x \in Pids :
             \/ /\ proc'[x].at = proc[x].at /\ proc'[x].op = proc[x].op
                /\ proc'[x].seen = proc[x].seen
             \/ /\ proc'[x].at \notin EditPlaces
                /\ proc[x].at = "write" => proc[x].op.scope \in torn'
      BY <1>0, <2>1, <2>2 DEF Typing
    <2>4. \A s \in Scopes : Entries(s)' = Entries(s)
      BY <2>1 DEF Entries
    <2> QED BY <2>1, <2>3, <2>4, FilesAside
  <1>7. ASSUME NEW p \in Pids, CreateFile(p) PROVE Files'
    <2>1. CASE Exit(p) /\ UNCHANGED files
      BY <1>2, <1>7, <2>1 DEF CreateFile, Creations, Exit, secrets
    <2>2. CASE ~(Exit(p) /\ UNCHANGED files)
      <3>1. /\ files[proc[p].scope] = Absent
            /\ files' = [files EXCEPT ![proc[p].scope] = NoEntries]
            /\ proc' = [proc EXCEPT ![p] = After(proc[p])]
            /\ proc[p].at \in Creations
            /\ UNCHANGED <<asked, torn>>
        BY <1>7, <2>2 DEF CreateFile
      <3>2. After(proc[p]).at \notin EditPlaces
        BY <1>0, <3>1, AfterTyped
      <3>3. \A s \in Scopes : Entries(s)' = Entries(s)
        BY <3>1, NothingTyped, AbsentIsNoFile DEF Entries, Typing
      <3>4. \A x \in Pids :
               \/ proc'[x] = proc[x]
               \/ {proc[x].at, proc'[x].at} \cap EditPlaces = {}
        BY <3>1, <3>2 DEF Typing, Creations
      <3> QED BY <3>1, <3>3, <3>4, FilesAside
    <2> QED BY <2>1, <2>2
  <1>8. ASSUME NEW p \in Pids, EditKeyring(p) PROVE Files'
    <2>1. /\ Goto(p, "gone") \/ Goto(p, "createSession")
          /\ proc[p].at = "readEntries"
          /\ UNCHANGED <<files, asked, torn>>
      BY <1>8 DEF EditKeyring, Edited, Exit
    <2>2. /\ proc'[p].at \notin EditPlaces
          /\ \A q \in Pids \ {p} : proc'[q] = proc[q]
      BY <2>1, GotoTyped DEF Places
    <2>3. \A s \in Scopes : Entries(s)' = Entries(s)
      BY <2>1 DEF Entries
    <2> QED BY <2>1, <2>2, <2>3, FilesAside
  <1>9. ASSUME NEW p \in Pids, ReadEntries(p) PROVE Files'
    <2> DEFINE e == proc[p].op
               made == [proc[p] EXCEPT !.at = "create:readEntries",
                                       !.scope = e.scope]
               read == [proc[p] EXCEPT !.at = "truncate",
                                       !.seen = Entries(e.scope)]
    <2>1. /\ proc[p].at = "readEntries" /\ UNCHANGED <<files, asked>>
          /\ torn' = IF Editing(e.scope) = {} THEN torn ELSE torn \cup {e.scope}
          /\ \A s \in Scopes : Entries(s)' = Entries(s)
      BY <1>9 DEF ReadEntries, Entries
    <2>2. made.at \notin EditPlaces
      BY <1>0 DEF Process
    <2>3. /\ read.at = "truncate" /\ read.op = e
          /\ read.seen = Entries(e.scope)
      BY <1>0 DEF Process
    <2>4. CASE proc' = [proc EXCEPT ![p] = made]
      <3> HIDE DEF made
      <3>1. /\ proc'[p].at \notin EditPlaces
            /\ \A q \in Pids \ {p} : proc'[q] = proc[q]
        BY <2>2, <2>4 DEF Typing
      <3> QED BY <2>1, <3>1, FilesAside
    <2>5. CASE proc' = [proc EXCEPT ![p] = read]
      <3> HIDE DEF read
      <3>1. /\ proc'[p] = read
            /\ \A q \in Pids \ {p} : proc'[q] = proc[q]
        BY <2>5 DEF Typing
      <3> SUFFICES ASSUME NEW s \in Scopes \ torn'
                   PROVE  /\ \A x, y \in Editing(s)' :
                                x = y /\ proc'[x].seen = asked[s]
                          /\ (\A x \in Editing(s)' : proc'[x].at # "write")
                                => Entries(s)' = asked[s]
        BY <2>1 DEF Files, SecretsKept
      <3>2. CASE s = e.scope
        <4>1. Editing(s) = {} /\ s \notin torn
          BY <2>1, <3>2
        <4>2. \A x \in Editing(s)' : x = p
          BY <3>1, <4>1 DEF Editing, Running
        <4>3. Entries(s) = asked[s]
          BY <4>1 DEF Files, SecretsKept
        <4> QED BY <2>1, <2>3, <3>1, <3>2, <4>2, <4>3
      <3>3. CASE s # e.scope
        <4>1. s \notin torn
          BY <2>1
        <4>2. \A x \in Pids : x \in Editing(s)' <=> x \in Editing(s)
          BY <2>1, <2>3, <3>1, <3>3 DEF Editing, Running
        <4>3. p \notin Editing(s)
          BY <2>1 DEF Editing
        <4>4. Editing(s) \subseteq Pids /\ Editing(s)' \subseteq Pids
          BY DEF Editing
        <4>5. \A x \in Editing(s) : proc'[x] = proc[x]
          BY <3>1, <4>3, <4>4
        <4> QED BY <2>1, <4>1, <4>2, <4>4, <4>5 DEF Files, SecretsKept
      <3> QED BY <3>2, <3>3
    <2>6. \/ proc' = [proc EXCEPT ![p] = made]
          \/ proc' = [proc EXCEPT ![p] = read]
      BY <1>9 DEF ReadEntries
    <2> QED BY <2>4, <2>5, <2>6
  <1>10. ASSUME NEW p \in Pids, TruncateEntries(p) PROVE Files'
    <2> DEFINE e == proc[p].op
    <2>1. /\ proc[p].at = "truncate" /\ UNCHANGED <<asked, torn>>
          /\ files' = [files EXCEPT ![e.scope] = NoEntries]
          /\ proc' = [proc EXCEPT ![p].at = "write"]
      BY <1>10 DEF TruncateEntries, Goto, Moved
    <2>2. /\ proc'[p].at = "write" /\ proc'[p].op = e
          /\ proc'[p].seen = proc[p].seen
          /\ \A q \in Pids \ {p} : proc'[q] = proc[q]
      BY <1>0, <2>1 DEF Typing, Process
    <2>3. \A s \in Scopes : Editing(s)' = Editing(s)
      BY <2>1, <2>2 DEF Editing, Running
    <2>4. \A s \in Scopes \ {e.scope} : Entries(s)' = Entries(s)
      BY <2>1 DEF Entries, Typing
    <2>5. p \in Editing(e.scope)
      BY <2>1 DEF Editing, Running
    <2>6. \A s \in Scopes : Editing(s) \subseteq Pids
      BY DEF Editing
    <2>7. \A s \in Scopes \ {e.scope} : p \notin Editing(s)
      BY DEF Editing
    <2>8. \A s \in Scopes \ torn' : \A x, y \in Editing(s)' :
             x = y /\ proc'[x].seen = asked'[s]
      BY <2>1, <2>2, <2>3, <2>6 DEF Files
    <2>9. SecretsKept'
      <3> SUFFICES ASSUME NEW s \in Scopes \ torn',
                          \A x \in Editing(s)' : proc'[x].at # "write"
                   PROVE  Entries(s)' = asked'[s]
        BY DEF SecretsKept
      <3>1. s # e.scope
        BY <2>2, <2>3, <2>5
      <3>2. \A x \in Editing(s) : proc[x].at # "write"
        BY <2>2, <2>3, <2>6, <2>7, <3>1
      <3> QED BY <2>1, <2>4, <3>1, <3>2 DEF Files, SecretsKept
    <2> QED BY <2>8, <2>9 DEF Files
  <1>11. ASSUME NEW p \in Pids, WriteEntries(p) PROVE Files'
    <2> DEFINE e == proc[p].op
               t == [proc[p] EXCEPT !.seen = NoEntries, !.op = NoEdit]
    <2>1. /\ proc[p].at = "write" /\ UNCHANGED torn
          /\ files' = [files EXCEPT ![e.scope] = EntriesToWrite(p)]
          /\ asked' = [asked EXCEPT ![e.scope][e.key] = e.value]
          /\ proc' = [proc EXCEPT ![p] = Moved(t, Edited(p))]
      BY <1>11 DEF WriteEntries
    <2>2. Moved(t, Edited(p)).at \notin EditPlaces
      <3>1. t \in Process
        BY <1>0, NothingTyped DEF Process
      <3> HIDE DEF t
      <3> QED BY <1>0, <3>1 DEF Moved, Edited, Process
    <2> HIDE DEF t
    <2>3. /\ proc'[p].at \notin EditPlaces
          /\ \A q \in Pids \ {p} : proc'[q] = proc[q]
      BY <2>1, <2>2 DEF Typing
    <2>4. e.scope \in Scopes /\ e.key \in Keys /\ e.value \in Nat
          /\ proc[p].seen \in EntrySets
      BY <1>0 DEF Process, Edits
    <2>5. p \in Editing(e.scope) /\ \A s \in Scopes : Editing(s) \subseteq Pids
      BY <2>1 DEF Editing, Running
    <2> SUFFICES ASSUME NEW s \in Scopes \ torn
                 PROVE  /\ \A x, y \in Editing(s)' :
                              x = y /\ proc'[x].seen = asked'[s]
                        /\ (\A x \in Editing(s)' : proc'[x].at # "write")
                              => Entries(s)' = asked'[s]
      BY <2>1 DEF Files, SecretsKept
    <2>6. CASE s = e.scope
      <3>1. \A x \in Editing(s) : x = p /\ proc[p].seen = asked[s]
        BY <2>5, <2>6 DEF Files
      <3>2. Editing(s)' = {}
        <4>1. \A x \in Pids : x \in Editing(s)' => x \in Editing(s) /\ x # p
          BY <2>3 DEF Editing, Running
        <4>2. Editing(s)' \subseteq Pids
          BY DEF Editing
        <4> QED BY <3>1, <4>1, <4>2
      <3>3. proc[p].seen = asked[s]
        BY <2>5, <2>6, <3>1
      <3>4. EntriesToWrite(p) = [asked[s] EXCEPT ![e.key] = e.value]
        BY <3>3 DEF EntriesToWrite
      <3>5. asked'[s] = [asked[s] EXCEPT ![e.key] = e.value]
        BY <2>1, <2>4, <2>6 DEF Typing
      <3>6. files'[s] = EntriesToWrite(p)
        BY <2>1, <2>4, <2>6 DEF Typing
      <3>7. EntriesToWrite(p) # Absent
        <4>1. EntriesToWrite(p) \in EntrySets
          BY <2>4 DEF EntriesToWrite, EntrySets
        <4> QED BY <4>1, AbsentIsNoFile
      <3>8. Entries(s)' = asked'[s]
        BY <3>4, <3>5, <3>6, <3>7 DEF Entries
      <3> QED BY <3>2, <3>8
    <2>7. CASE s # e.scope
      <3>1. files'[s] = files[s] /\ asked'[s] = asked[s]
        BY <2>1, <2>4, <2>7 DEF Typing
      <3>2. Entries(s)' = Entries(s)
        BY <3>1 DEF Entries
      <3>3. p \notin Editing(s)
        BY <2>7 DEF Editing
      <3>4. \A x \in Pids : x \in Editing(s)' <=> x \in Editing(s)
        BY <2>3, <3>3 DEF Editing, Running
      <3>5. Editing(s)' \subseteq Pids
        BY DEF Editing
      <3>6. \A x \in Editing(s) : proc'[x] = proc[x]
        BY <2>3, <2>5, <3>3
      <3> QED BY <2>5, <3>1, <3>2, <3>4, <3>5, <3>6 DEF Files, SecretsKept
    <2> QED BY <2>6, <2>7
  <1>12. ASSUME KeyringChanges PROVE Files'
    <2>1. UNCHANGED <<proc, secrets>> /\ \A s \in Scopes : Entries(s)' = Entries(s)
      BY <1>12 DEF KeyringChanges, secrets, Entries
    <2> QED BY <2>1, FilesAside DEF secrets
  <1>13. ASSUME NEW p \in Pids, Step(p) PROVE Files'
    BY <1>1, <1>3, <1>4, <1>5, <1>7, <1>8, <1>9, <1>10, <1>11, <1>13, QuietSteps
       DEF Step
  <1>14. ASSUME NEW p \in Pids,
                \/ LoadFails(p) \/ DaemonizeFails(p) \/ CreateKey(p)
                \/ Crash(p) \/ Finishes(p) \/ \E c \in Commands : Launch(p, c)
         PROVE  Files'
    BY <1>1, <1>3, <1>4, <1>6, <1>14, QuietSteps
  <1> QED BY <1>12, <1>13, <1>14 DEF Next

\* Files is inductive.
LEMMA FilesInvariant == Spec => []Files
  <1>1. Init => Files
    <2> SUFFICES ASSUME Init PROVE Files
      OBVIOUS
    <2>1. \A s \in Scopes : Editing(s) = {}
      BY DEF Init, Editing, Running, Gone
    <2>2. LoggedIn \in EntrySets
      BY NothingTyped, KeysNamed DEF LoggedIn, EntrySets
    <2>3. \A s \in Scopes : Entries(s) = asked[s]
      BY <2>2, NothingTyped, AbsentIsNoFile DEF Init, Entries
    <2> QED BY <2>1, <2>3 DEF Files, SecretsKept
  <1>2. Typing /\ Files /\ [Next]_vars => Files'
    <2>1. ASSUME Files, UNCHANGED vars PROVE Files'
      <3>1. \A s \in Scopes : Entries(s)' = Entries(s)
        BY <2>1 DEF vars, Entries
      <3> QED BY <2>1, <3>1, FilesAside DEF vars
    <2> QED BY <2>1, FilesStep
  <1> QED BY <1>1, <1>2, TypingInvariant, PTL DEF Spec

\* The secrets of a scope are those the finished edits asked for, unless two
\* edits of its file overlapped or one was killed before it wrote: nothing
\* else that reads, creates or empties the file loses an entry.
THEOREM FinishedEditsAreKept == Spec => []SecretsKept
  <1>1. Files => SecretsKept
    BY DEF Files
  <1> QED BY <1>1, FilesInvariant, PTL

-----------------------------------------------------------------------------
(* The keys of encrypted sessions *)

\* The store of this backend was given the key and not told to remove it.
KeyStored(key, backend) ==
  IF backend = "keyring" THEN keyring["local"][key] # NoValue
  ELSE "local" \in torn \/ asked["local"][key] # NoValue

\* A chat stores the key of its session before it creates the session.
KeyOf(p) ==
  /\ proc[p].at \in EditPlaces => proc[p].backend = "file"
  /\ proc[p].cmd = "chat" =>
       /\ proc[p].at \in {"create:readEntries", "readEntries"} \cup EditPlaces
            => proc[p].op = Edit("local", SessionKey(p), Secret)
       /\ proc[p].at = "createSession" =>
            KeyStored(SessionKey(p), proc[p].backend)

KeyFirst ==
  /\ \A p \in Pids : KeyOf(p)
  /\ \A s \in sessions : s[1] \in SessionKeys /\ KeyStored(s[1], s[2])

\* No step takes the key of a session out of its store.
LEMMA KeysStay ==
  ASSUME Typing, Next, NEW key \in SessionKeys, NEW backend,
         KeyStored(key, backend)
  PROVE  KeyStored(key, backend)'
  <1>1. /\ key \in Keys /\ \A q \in Pids : proc[q].op \in Edits
        /\ \A e \in Edits : e.scope \in Scopes /\ e.key \in Keys
                            /\ (e.key = key => e.value # NoValue)
    BY KeysNamed DEF Typing, Process, Edits, SessionKeys
  <1>2. /\ torn \subseteq torn'
        /\ \E q \in Pids :
             asked' \in {asked, [asked EXCEPT
               ![proc[q].op.scope][proc[q].op.key] = proc[q].op.value]}
        /\ \E q \in Pids :
             keyring' \in {keyring, [keyring EXCEPT
               ![proc[q].op.scope][proc[q].op.key] = proc[q].op.value]}
    <2>1. Pids # {}
      BY DEF SessionKeys
    <2>2. CASE UNCHANGED secrets
      BY <2>1, <2>2 DEF secrets
    <2>3. ASSUME NEW p \in Pids, StopSignals(p) \/ Crash(p) \/ CreateFile(p)
                                   \/ ReadEntries(p) \/ TruncateEntries(p)
          PROVE  torn \subseteq torn' /\ UNCHANGED <<asked, keyring>>
      BY <2>3 DEF StopSignals, Crash, CreateFile, ReadEntries, TruncateEntries
    <2>4. ASSUME NEW p \in Pids, EditKeyring(p)
          PROVE  /\ UNCHANGED <<asked, torn>>
                 /\ keyring' \in {keyring, [keyring EXCEPT
                     ![proc[p].op.scope][proc[p].op.key] = proc[p].op.value]}
      BY <2>4 DEF EditKeyring
    <2>5. ASSUME NEW p \in Pids, WriteEntries(p)
          PROVE  /\ UNCHANGED <<keyring, torn>>
                 /\ asked' = [asked EXCEPT
                     ![proc[p].op.scope][proc[p].op.key] = proc[p].op.value]
      BY <2>5 DEF WriteEntries
    <2>6. ASSUME NEW p \in Pids,
                 \/ AcquireChecks(p) \/ AcquireTruncates(p) \/ AcquireWrites(p)
                 \/ LoadFails(p) \/ RouterBinds(p) \/ RouterShutsDown(p)
                 \/ RouterExits(p) \/ CreateKey(p) \/ CreateSession(p)
          PROVE  UNCHANGED secrets
      BY <2>6 DEF AcquireChecks, AcquireTruncates, AcquireWrites, LoadFails,
         RouterBinds, RouterShutsDown, RouterExits, CreateKey, CreateSession
    <2>7. CASE Quiet \/ KeyringChanges
      BY <2>2, <2>7 DEF Quiet, KeyringChanges
    <2>8. ASSUME NEW p \in Pids, Step(p), ~Quiet
          PROVE  \/ UNCHANGED secrets \/ StopSignals(p) \/ CreateFile(p)
                 \/ ReadEntries(p) \/ TruncateEntries(p) \/ EditKeyring(p)
                 \/ WriteEntries(p)
      BY <2>6, <2>8, QuietSteps DEF Step
    <2>9. CASE \E p \in Pids : Step(p)
      BY <2>2, <2>3, <2>4, <2>5, <2>7, <2>8, <2>9
    <2>10. ASSUME NEW p \in Pids,
                  \/ LoadFails(p) \/ DaemonizeFails(p) \/ CreateKey(p)
                  \/ Crash(p) \/ Finishes(p) \/ \E c \in Commands : Launch(p, c)
           PROVE  Quiet \/ UNCHANGED secrets \/ Crash(p)
      BY <2>6, <2>10, QuietSteps
    <2>11. CASE \E p \in Pids :
                  \/ LoadFails(p) \/ DaemonizeFails(p) \/ CreateKey(p)
                  \/ Crash(p) \/ Finishes(p) \/ \E c \in Commands : Launch(p, c)
      BY <2>2, <2>3, <2>7, <2>10, <2>11
    <2> QED BY <2>7, <2>9, <2>11 DEF Next
  <1>3. ASSUME NEW f \in [Scopes -> EntrySets], NEW q \in Pids, NEW g,
               g \in {f, [f EXCEPT
                  ![proc[q].op.scope][proc[q].op.key] = proc[q].op.value]},
               f["local"][key] # NoValue
        PROVE  g["local"][key] # NoValue
    <2> DEFINE e == proc[q].op
    <2>1. e.scope \in Scopes /\ e.key \in Keys /\ (e.key = key => e.value # NoValue)
      BY <1>1
    <2>2. g = f \/ g = [f EXCEPT ![e.scope][e.key] = e.value]
      BY <1>3
    <2> HIDE DEF e
    <2> QED BY <1>1, <1>3, <2>1, <2>2 DEF EntrySets, Scopes
  <1>5. asked["local"][key] # NoValue => asked'["local"][key] # NoValue
    <2>1. asked \in [Scopes -> EntrySets]
      BY DEF Typing
    <2> QED BY <1>2, <1>3, <2>1
  <1>6. keyring["local"][key] # NoValue => keyring'["local"][key] # NoValue
    <2>1. keyring \in [Scopes -> EntrySets]
      BY DEF Typing
    <2> QED BY <1>2, <1>3, <2>1
  <1> QED BY <1>2, <1>5, <1>6 DEF KeyStored

\* A key that is stored stays where it is while its process stands still.
LEMMA KeyFirstAside ==
  ASSUME Typing, KeyFirst, Next, UNCHANGED sessions,
         \A q \in Pids :
            \/ /\ proc'[q].at = proc[q].at /\ proc'[q].op = proc[q].op
               /\ proc'[q].cmd = proc[q].cmd
               /\ proc'[q].backend = proc[q].backend
            \/ KeyOf(q)'
  PROVE  KeyFirst'
  <1>1. ASSUME NEW p \in Pids,
               proc'[p].at = proc[p].at, proc'[p].op = proc[p].op,
               proc'[p].cmd = proc[p].cmd, proc'[p].backend = proc[p].backend
        PROVE  KeyOf(p)'
    <2>1. ASSUME proc[p].cmd = "chat", proc[p].at = "createSession"
          PROVE  KeyStored(SessionKey(p), proc[p].backend)'
      <3>1. KeyStored(SessionKey(p), proc[p].backend)
        BY <2>1 DEF KeyFirst, KeyOf
      <3>2. PICK b : b = proc[p].backend
        OBVIOUS
      <3>3. KeyStored(SessionKey(p), b)'
        BY <3>1, <3>2, KeysStay DEF SessionKeys
      <3> QED BY <1>1, <3>2, <3>3 DEF KeyStored
    <2> QED BY <1>1, <2>1 DEF KeyFirst, KeyOf
  <1>2. ASSUME NEW s \in sessions'
        PROVE  s[1] \in SessionKeys /\ KeyStored(s[1], s[2])'
    BY <1>2, KeysStay DEF KeyFirst
  <1> QED BY <1>1, <1>2 DEF KeyFirst

\* Every step on the way to the session keeps the key's edit, and a step to
\* createSession has just stored it.
LEMMA KeyFirstStep == ASSUME Typing, KeyFirst, Next PROVE KeyFirst'
  <1> USE DEF EditPlaces
  <1> DEFINE Aside(q) ==
         \/ /\ proc'[q].at = proc[q].at /\ proc'[q].op = proc[q].op
            /\ proc'[q].cmd = proc[q].cmd
            /\ proc'[q].backend = proc[q].backend
         \/ KeyOf(q)'
  <1>0. /\ \A q \in Pids : proc[q] \in Process
        /\ Gone.at = "gone"
    BY DEF Typing, Gone
  <1>1. ASSUME Quiet PROVE KeyFirst'
    <2>1. \A q \in Pids : Aside(q)
      BY <1>1 DEF Quiet, Minor, KeyOf, KeyPlaces
    <2> QED BY <1>1, <2>1, KeyFirstAside DEF Quiet
  <1>2. ASSUME NEW p \in Pids, NEW r, proc' = [proc EXCEPT ![p] = r],
               KeyOf(p)', UNCHANGED sessions
        PROVE  KeyFirst'
    <2>1. \A q \in Pids : Aside(q)
      BY <1>2 DEF Typing
    <2> QED BY <1>2, <2>1, KeyFirstAside
  <1>3. ASSUME NEW p \in Pids, NEW at, at \notin EditPlaces \cup KeyPlaces,
               Goto(p, at), UNCHANGED sessions
        PROVE  KeyFirst'
    <2>1. Moved(proc[p], at).at = at
      BY <1>0 DEF Moved, Process
    <2>2. KeyOf(p)'
      BY <1>3, <2>1 DEF Goto, KeyOf, KeyPlaces, Typing
    <2> QED BY <1>2, <1>3, <2>2 DEF Goto
  <1>4. ASSUME NEW p \in Pids,
               \/ AcquireChecks(p) \/ AcquireTruncates(p) \/ LoadFails(p)
               \/ RouterBinds(p) \/ RouterShutsDown(p) \/ RouterExits(p)
               \/ Crash(p)
        PROVE  KeyFirst'
    <2>1. /\ \E at \in {"gone", "truncatePid", "writePid", "serve", "drop"} :
               Goto(p, at)
          /\ UNCHANGED sessions
      BY <1>4 DEF AcquireChecks, AcquireTruncates, LoadFails, RouterBinds,
         RouterShutsDown, RouterExits, Crash, Exit
    <2> QED BY <1>3, <2>1 DEF KeyPlaces
  <1>5. ASSUME NEW p \in Pids, Exit(p), UNCHANGED sessions PROVE KeyFirst'
    BY <1>3, <1>5 DEF Exit, KeyPlaces
  <1>6. ASSUME NEW p \in Pids, AcquireWrites(p) PROVE KeyFirst'
    <2> DEFINE r == [proc[p] EXCEPT !.at = "load", !.guard = TRUE]
    <2>1. proc' = [proc EXCEPT ![p] = r] /\ UNCHANGED sessions
      BY <1>6 DEF AcquireWrites
    <2>2. r.at = "load"
      BY <1>0 DEF Process
    <2> HIDE DEF r
    <2>3. KeyOf(p)'
      BY <2>1, <2>2 DEF KeyOf, Typing
    <2> QED BY <1>2, <2>1, <2>3
  <1>7. ASSUME NEW p \in Pids, StopSignals(p) PROVE KeyFirst'
    <2> DEFINE q == proc[p].pid
    <2>1. q \in Pids /\ proc[p].at = "signal" /\ UNCHANGED sessions
      BY <1>7 DEF StopSignals, At, Typing
    <2>2. CASE Exit(p)
      BY <1>5, <2>1, <2>2
    <2>3. CASE ~Exit(p)
      <3> DEFINE r == IF Handles(q) THEN [proc[q] EXCEPT !.term = TRUE] ELSE Gone
      <3>1. q # p /\ proc' = [proc EXCEPT ![q] = r, ![p] = Gone]
        BY <1>7, <2>3 DEF StopSignals
      <3>2. \/ /\ r.at = proc[q].at /\ r.op = proc[q].op
               /\ r.cmd = proc[q].cmd /\ r.backend = proc[q].backend
            \/ r.at = "gone"
        BY <1>0, <2>1 DEF Process
      <3> HIDE DEF q, r
      <3>3. /\ proc'[p].at = "gone" /\ proc'[q] = r
            /\ \A x \in Pids \ {p, q} : proc'[x] = proc[x]
        BY <1>0, <2>1, <3>1 DEF Typing
      <3>4. \A x \in Pids : proc'[x].at = "gone" => KeyOf(x)'
        BY DEF KeyOf
      <3>5. \A x \in Pids : Aside(x)
        BY <3>2, <3>3, <3>4
      <3> QED BY <2>1, <3>5, KeyFirstAside
    <2> QED BY <2>2, <2>3
  <1>8. ASSUME KeyringChanges PROVE KeyFirst'
    BY <1>8, KeyFirstAside DEF KeyringChanges
  <1>9. ASSUME NEW p \in Pids, CreateFile(p) PROVE KeyFirst'
    <2>1. UNCHANGED sessions
      BY <1>9 DEF CreateFile
    <2>2. CASE ~Exit(p)
      <3>1. proc' = [proc EXCEPT ![p] = After(proc[p])]
            /\ proc[p].at \in Creations
        BY <1>9, <2>2 DEF CreateFile
      <3>2. /\ After(proc[p]).at \notin EditPlaces \cup {"createSession",
                                                         "create:readEntries"}
            /\ After(proc[p]).at = "readEntries" /\ After(proc[p]).cmd = "chat"
                 => proc[p].at = "create:readEntries"
            /\ After(proc[p]).cmd = proc[p].cmd /\ After(proc[p]).op = proc[p].op
        BY <1>0, <3>1, AfterTyped
      <3>3. proc'[p] = After(proc[p])
        BY <3>1 DEF Typing
      <3>4. KeyOf(p)'
        BY <3>2, <3>3 DEF KeyOf, KeyFirst
      <3> QED BY <1>2, <2>1, <3>1, <3>4
    <2> QED BY <1>5, <2>1, <2>2
  <1>10. ASSUME NEW p \in Pids, ReadEntries(p) PROVE KeyFirst'
    <2> DEFINE e == proc[p].op
               made == [proc[p] EXCEPT !.at = "create:readEntries",
                                       !.scope = e.scope]
               read == [proc[p] EXCEPT !.at = "truncate",
                                       !.seen = Entries(e.scope)]
    <2>1. /\ proc[p].at = "readEntries" /\ proc[p].backend = "file"
          /\ UNCHANGED sessions
          /\ \E r \in {made, read} : proc' = [proc EXCEPT ![p] = r]
      BY <1>10 DEF ReadEntries
    <2>2. \A r \in {made, read} :
             /\ r.at \in {"create:readEntries", "truncate"} /\ r.op = e
             /\ r.cmd = proc[p].cmd /\ r.backend = proc[p].backend
      BY <1>0 DEF Process
    <2> HIDE DEF made, read
    <2>3. PICK r \in {made, read} : proc' = [proc EXCEPT ![p] = r]
      BY <2>1
    <2>4. KeyOf(p)'
      BY <2>1, <2>2, <2>3 DEF KeyOf, KeyFirst, Typing
    <2> QED BY <1>2, <2>1, <2>3, <2>4
  <1>11. ASSUME NEW p \in Pids, TruncateEntries(p) PROVE KeyFirst'
    <2> DEFINE r == [proc[p] EXCEPT !.at = "write"]
    <2>1. /\ proc[p].at = "truncate" /\ UNCHANGED sessions
          /\ proc' = [proc EXCEPT ![p] = r]
      BY <1>11 DEF TruncateEntries, Goto, Moved
    <2>2. /\ r.at = "write" /\ r.op = proc[p].op /\ r.cmd = proc[p].cmd
          /\ r.backend = proc[p].backend
      BY <1>0 DEF Process
    <2> HIDE DEF r
    <2>3. KeyOf(p)'
      BY <2>1, <2>2 DEF KeyOf, KeyFirst, Typing
    <2> QED BY <1>2, <2>1, <2>3
  <1>12. ASSUME NEW p \in Pids, WriteEntries(p) PROVE KeyFirst'
    <2> DEFINE t == [proc[p] EXCEPT !.seen = NoEntries, !.op = NoEdit]
               e == proc[p].op
    <2>1. /\ proc[p].at = "write" /\ UNCHANGED <<sessions, torn>>
          /\ asked' = [asked EXCEPT ![e.scope][e.key] = e.value]
          /\ proc' = [proc EXCEPT ![p] = Moved(t, Edited(p))]
      BY <1>12 DEF WriteEntries
    <2>2. CASE proc[p].cmd = "chat"
      <3>1. Edited(p) = "createSession" /\ proc[p].backend = "file"
            /\ e = Edit("local", SessionKey(p), Secret)
        BY <2>1, <2>2 DEF Edited, KeyFirst, KeyOf
      <3>2. /\ Moved(t, "createSession").at = "createSession"
            /\ Moved(t, "createSession").backend = "file"
        BY <1>0, <3>1 DEF Moved, Process
      <3> HIDE DEF t
      <3>3. proc'[p].at = "createSession" /\ proc'[p].backend = "file"
        BY <2>1, <3>1, <3>2 DEF Typing
      <3>4. asked'["local"][SessionKey(p)] # NoValue
        BY <2>1, <3>1, KeysNamed DEF Edit, Typing, EntrySets, Scopes, Secret,
           NoValue
      <3>5. KeyStored(SessionKey(p), proc[p].backend)'
        BY <3>3, <3>4 DEF KeyStored
      <3>6. KeyOf(p)'
        BY <3>3, <3>5 DEF KeyOf
      <3> QED BY <1>2, <2>1, <3>6
    <2>3. CASE proc[p].cmd # "chat"
      <3>1. proc' = [proc EXCEPT ![p] = Gone]
        BY <2>1, <2>3 DEF Edited, Moved
      <3>2. KeyOf(p)'
        BY <1>0, <3>1 DEF KeyOf, Typing
      <3> QED BY <1>2, <2>1, <3>1, <3>2
    <2> QED BY <2>2, <2>3
  <1>13. ASSUME NEW p \in Pids, EditKeyring(p) PROVE KeyFirst'
    <2> DEFINE e == proc[p].op
    <2>1. /\ proc[p].at = "readEntries" /\ proc[p].backend = "keyring"
          /\ UNCHANGED sessions
      BY <1>13 DEF EditKeyring
    <2>2. CASE ~Exit(p)
      <3>1. /\ keyring' = [keyring EXCEPT ![e.scope][e.key] = e.value]
            /\ proc[p].cmd = "chat" /\ Goto(p, "createSession")
        BY <1>13, <2>2 DEF EditKeyring, Edited, Exit
      <3>2. e = Edit("local", SessionKey(p), Secret)
        BY <2>1, <3>1 DEF KeyFirst, KeyOf
      <3> DEFINE r == Moved(proc[p], "createSession")
      <3>3. r.at = "createSession" /\ r.backend = "keyring"
        BY <1>0, <2>1 DEF Moved, Process
      <3>4. proc' = [proc EXCEPT ![p] = r]
        BY <3>1 DEF Goto
      <3> HIDE DEF r
      <3>5. proc'[p].at = "createSession" /\ proc'[p].backend = "keyring"
        BY <3>3, <3>4 DEF Typing
      <3>6. keyring'["local"][SessionKey(p)] # NoValue
        BY <3>1, <3>2, KeysNamed DEF Edit, Typing, EntrySets, Scopes, Secret,
           NoValue
      <3>7. KeyStored(SessionKey(p), proc[p].backend)'
        BY <3>5, <3>6 DEF KeyStored
      <3>8. KeyOf(p)'
        BY <3>5, <3>7 DEF KeyOf
      <3> QED BY <1>2, <2>1, <3>4, <3>8
    <2> QED BY <1>5, <2>1, <2>2
  <1>14. ASSUME NEW p \in Pids, CreateKey(p) PROVE KeyFirst'
    <2> DEFINE r == [proc[p] EXCEPT !.op = Edit("local", SessionKey(p), Secret),
                                    !.at = "readEntries"]
    <2>1. proc' = [proc EXCEPT ![p] = r] /\ UNCHANGED sessions
      BY <1>14 DEF CreateKey
    <2>2. r.at = "readEntries" /\ r.op = Edit("local", SessionKey(p), Secret)
      BY <1>0 DEF Process
    <2> HIDE DEF r
    <2>3. KeyOf(p)'
      BY <2>1, <2>2 DEF KeyOf, Typing
    <2> QED BY <1>2, <2>1, <2>3
  <1>15. ASSUME NEW p \in Pids, CreateSession(p) PROVE KeyFirst'
    <2>1. /\ proc[p].cmd = "chat" /\ proc[p].at = "createSession" /\ Exit(p)
          /\ UNCHANGED secrets
          /\ \A s \in sessions' : s \in sessions
                                  \/ s = <<SessionKey(p), proc[p].backend>>
      BY <1>15 DEF CreateSession, At
    <2>2. KeyStored(SessionKey(p), proc[p].backend)
      BY <2>1 DEF KeyFirst, KeyOf
    <2>3. ASSUME NEW s \in sessions'
          PROVE  s[1] \in SessionKeys /\ KeyStored(s[1], s[2])'
      <3>1. s[1] \in SessionKeys /\ KeyStored(s[1], s[2])
        BY <2>1, <2>2, <2>3 DEF KeyFirst, SessionKeys
      <3> QED BY <3>1, KeysStay
    <2>4. proc' = [proc EXCEPT ![p] = Gone]
      BY <2>1 DEF Exit, Goto, Moved
    <2>5. ASSUME NEW q \in Pids PROVE KeyOf(q)'
      <3>1. proc'[q] = proc[q] \/ proc'[q].at = "gone"
        BY <1>0, <2>4 DEF Typing
      <3>2. KeyOf(q)
        BY DEF KeyFirst
      <3> QED BY <2>1, <3>1, <3>2 DEF KeyOf, KeyStored, secrets
    <2> QED BY <2>3, <2>5 DEF KeyFirst
  <1> HIDE DEF Aside
  <1>16. ASSUME NEW p \in Pids, Step(p) PROVE KeyFirst'
    BY <1>1, <1>4, <1>6, <1>7, <1>9, <1>10, <1>11, <1>12, <1>13, <1>15, <1>16,
       QuietSteps DEF Step
  <1>17. ASSUME NEW p \in Pids,
                \/ LoadFails(p) \/ DaemonizeFails(p) \/ CreateKey(p)
                \/ Crash(p) \/ Finishes(p) \/ \E c \in Commands : Launch(p, c)
         PROVE  KeyFirst'
    BY <1>1, <1>4, <1>14, <1>17, QuietSteps
  <1> QED BY <1>8, <1>16, <1>17 DEF Next

\* The router is told of an encrypted session only when its key is stored, and
\* no command takes it away again: a chat that is killed, or finds the keyring
\* locked, leaves a key without a session and never the other way round.
THEOREM SessionKeysAreStored == Spec => []SessionsReadable
  <1>1. Init => KeyFirst
    <2> SUFFICES ASSUME Init PROVE KeyFirst
      OBVIOUS
    <2>1. \A p \in Pids : KeyOf(p)
      BY DEF Init, KeyOf, Gone, EditPlaces
    <2> QED BY <2>1 DEF Init, KeyFirst
  <1>2. Typing /\ KeyFirst /\ [Next]_vars => KeyFirst'
    <2>1. ASSUME KeyFirst, UNCHANGED vars PROVE KeyFirst'
      <3>1. \A p \in Pids : KeyOf(p)'
        BY <2>1 DEF vars, KeyFirst, KeyOf, KeyStored
      <3> QED BY <2>1, <3>1 DEF vars, KeyFirst, KeyStored
    <2> QED BY <2>1, KeyFirstStep
  <1>3. KeyFirst /\ Files => SessionsReadable
    <2> SUFFICES ASSUME KeyFirst, Files, NEW s \in sessions,
                        s[2] # "keyring", "local" \notin torn,
                        \A p \in Editing("local") : proc[p].at # "write"
                 PROVE  Entries("local")[s[1]] # NoValue
      BY DEF SessionsReadable, KeyFirst, KeyStored
    <2>1. asked["local"][s[1]] # NoValue
      BY DEF KeyFirst, KeyStored
    <2>2. Entries("local") = asked["local"]
      BY DEF Files, SecretsKept, Scopes
    <2> QED BY <2>1, <2>2
  <1> QED BY <1>1, <1>2, <1>3, TypingInvariant, FilesInvariant, PTL DEF Spec

-----------------------------------------------------------------------------
(* Terminal: parts of sequences *)

\* A part of a sequence.
LEMMA Slice ==
    ASSUME NEW S, NEW s \in Seq(S), NEW m \in 1 .. Len(s) + 1, NEW n \in m - 1 .. Len(s)
    PROVE  /\ SubSeq(s, m, n) \in Seq(S) /\ Len(SubSeq(s, m, n)) = n - m + 1
           /\ \A i \in 1 .. n - m + 1 : SubSeq(s, m, n)[i] = s[m + i - 1]
  <1>1. Len(s) \in Nat /\ \A i \in 1 .. Len(s) : s[i] \in S
    BY LenProperties, ElementOfSeq
  <1>2. m \in Int /\ n \in Int /\ \A i \in m .. n : i \in 1 .. Len(s)
    BY <1>1
  <1>3. \A i \in m .. n : s[i] \in S
    BY <1>1, <1>2
  <1>4. /\ SubSeq(s, m, n) \in Seq(S)
        /\ Len(SubSeq(s, m, n)) = IF m <= n THEN n - m + 1 ELSE 0
        /\ \A i \in 1 .. n - m + 1 : SubSeq(s, m, n)[i] = s[m + i - 1]
    BY <1>2, <1>3, SubSeqProperties
  <1> QED BY <1>1, <1>2, <1>4

\* What comes before place n + 1, and what follows.
LEMMA Cut ==
    ASSUME NEW S, NEW s \in Seq(S), NEW n \in 0 .. Len(s)
    PROVE  /\ SubSeq(s, 1, n) \in Seq(S) /\ Len(SubSeq(s, 1, n)) = n
           /\ \A i \in 1 .. n : SubSeq(s, 1, n)[i] = s[i]
           /\ SubSeq(s, n + 1, Len(s)) \in Seq(S)
           /\ Len(SubSeq(s, n + 1, Len(s))) = Len(s) - n
           /\ \A i \in 1 .. Len(s) - n : SubSeq(s, n + 1, Len(s))[i] = s[n + i]
  <1>1. Len(s) \in Nat /\ n \in 0 .. Len(s)
    BY LenProperties
  <1>2. /\ SubSeq(s, 1, n) \in Seq(S) /\ Len(SubSeq(s, 1, n)) = n
        /\ \A i \in 1 .. n : SubSeq(s, 1, n)[i] = s[i]
    <2>1. 1 \in 1 .. Len(s) + 1 /\ n \in 1 - 1 .. Len(s) /\ n - 1 + 1 = n
      BY <1>1
    <2>2. \A i \in 1 .. n : 1 + i - 1 = i
      BY <1>1
    <2> QED BY <2>1, <2>2, Slice
  <1>3. PICK m \in 1 .. Len(s) + 1 : m = n + 1
    BY <1>1
  <1>4. PICK k \in m - 1 .. Len(s) : k = Len(s)
    BY <1>1, <1>3
  <1>5. /\ SubSeq(s, m, k) \in Seq(S) /\ Len(SubSeq(s, m, k)) = k - m + 1
        /\ \A i \in 1 .. k - m + 1 : SubSeq(s, m, k)[i] = s[m + i - 1]
    BY Slice
  <1>6. k - m + 1 = Len(s) - n /\ \A i \in 1 .. Len(s) - n : m + i - 1 = n + i
    BY <1>1, <1>3, <1>4
  <1>7. SubSeq(s, m, k) = SubSeq(s, n + 1, Len(s))
    BY <1>3, <1>4
  <1>8. /\ SubSeq(s, n + 1, Len(s)) \in Seq(S)
        /\ Len(SubSeq(s, n + 1, Len(s))) = Len(s) - n
        /\ \A i \in 1 .. Len(s) - n : SubSeq(s, n + 1, Len(s))[i] = s[n + i]
    BY <1>5, <1>6, <1>7
  <1> QED BY <1>2, <1>8

\* What is typed or pasted behind the first n characters.
Spliced(s, n, u) == SubSeq(s, 1, n) \o u \o SubSeq(s, n + 1, Len(s))

LEMMA Splice ==
    ASSUME NEW S, NEW s \in Seq(S), NEW n \in 0 .. Len(s), NEW u \in Seq(S)
    PROVE  /\ Spliced(s, n, u) \in Seq(S)
           /\ Len(Spliced(s, n, u)) = Len(s) + Len(u)
           /\ \A i \in 1 .. Len(s) + Len(u) :
                Spliced(s, n, u)[i] = IF i <= n THEN s[i]
                                      ELSE IF i <= n + Len(u) THEN u[i - n]
                                      ELSE s[i - Len(u)]
  <1> DEFINE a == SubSeq(s, 1, n)
             b == SubSeq(s, n + 1, Len(s))
  <1>1. Len(s) \in Nat /\ Len(u) \in Nat /\ n \in 0 .. Len(s)
    BY LenProperties
  <1>2. a \in Seq(S) /\ Len(a) = n /\ \A i \in 1 .. n : a[i] = s[i]
    BY Cut
  <1>3. /\ b \in Seq(S) /\ Len(b) = Len(s) - n
        /\ \A i \in 1 .. Len(s) - n : b[i] = s[n + i]
    BY Cut
  <1> HIDE DEF a, b
  <1>4. /\ a \o u \in Seq(S) /\ Len(a \o u) = n + Len(u)
        /\ \A i \in 1 .. n + Len(u) : (a \o u)[i] = IF i <= n THEN a[i] ELSE u[i - n]
    BY <1>2, ConcatProperties
  <1>5. /\ (a \o u) \o b \in Seq(S) /\ Len((a \o u) \o b) = Len(s) + Len(u)
        /\ \A i \in 1 .. Len(s) + Len(u) :
             ((a \o u) \o b)[i] = IF i <= n + Len(u) THEN (a \o u)[i] ELSE b[i - (n + Len(u))]
    <2>1. /\ (a \o u) \o b \in Seq(S) /\ Len((a \o u) \o b) = Len(a \o u) + Len(b)
          /\ \A i \in 1 .. Len(a \o u) + Len(b) :
               ((a \o u) \o b)[i] = IF i <= Len(a \o u) THEN (a \o u)[i] ELSE b[i - Len(a \o u)]
      BY <1>3, <1>4, ConcatProperties
    <2>2. Len(a \o u) = n + Len(u) /\ Len(b) = Len(s) - n
      BY <1>3, <1>4
    <2>3. (n + Len(u)) + (Len(s) - n) = Len(s) + Len(u)
      BY <1>1
    <2> QED BY <2>1, <2>2, <2>3
  <1>6. Spliced(s, n, u) = (a \o u) \o b
    BY DEF Spliced, a, b
  <1>7. ASSUME NEW i \in 1 .. Len(s) + Len(u)
        PROVE  ((a \o u) \o b)[i] = IF i <= n THEN s[i]
                                   ELSE IF i <= n + Len(u) THEN u[i - n]
                                   ELSE s[i - Len(u)]
    <2>1. CASE i <= n
      BY <1>1, <1>2, <1>4, <1>5, <2>1
    <2>2. CASE ~(i <= n) /\ i <= n + Len(u)
      BY <1>1, <1>4, <1>5, <2>2
    <2>3. CASE ~(i <= n + Len(u))
      <3>1. /\ i - (n + Len(u)) \in 1 .. Len(s) - n /\ ~(i <= n)
            /\ n + (i - (n + Len(u))) = i - Len(u)
        BY <1>1, <2>3
      <3>2. ((a \o u) \o b)[i] = b[i - (n + Len(u))]
        BY <1>5, <2>3
      <3>3. b[i - (n + Len(u))] = s[i - Len(u)]
        BY <1>3, <3>1
      <3> QED BY <2>3, <3>1, <3>2, <3>3
    <2> QED BY <2>1, <2>2, <2>3
  <1> QED BY <1>5, <1>6, <1>7

\* Without the character at place n.
LEMMA Removal ==
    ASSUME NEW S, NEW s \in Seq(S), NEW n \in 1 .. Len(s)
    PROVE  /\ RemoveAt(s, n) \in Seq(S) /\ Len(RemoveAt(s, n)) = Len(s) - 1
           /\ \A i \in 1 .. Len(s) - 1 : RemoveAt(s, n)[i] = IF i < n THEN s[i] ELSE s[i + 1]
  <1> DEFINE a == SubSeq(s, 1, n - 1)
             b == SubSeq(s, n + 1, Len(s))
  <1>1. Len(s) \in Nat /\ n \in 1 .. Len(s)
    BY LenProperties
  <1>2. a \in Seq(S) /\ Len(a) = n - 1 /\ \A i \in 1 .. n - 1 : a[i] = s[i]
    <2>1. n - 1 \in 0 .. Len(s)
      BY <1>1
    <2> QED BY <2>1, Cut
  <1>3. /\ b \in Seq(S) /\ Len(b) = Len(s) - n
        /\ \A i \in 1 .. Len(s) - n : b[i] = s[n + i]
    <2>1. n \in 0 .. Len(s)
      BY <1>1
    <2> QED BY <2>1, Cut
  <1> HIDE DEF a, b
  <1>4. /\ a \o b \in Seq(S) /\ Len(a \o b) = (n - 1) + (Len(s) - n)
        /\ \A i \in 1 .. (n - 1) + (Len(s) - n) :
             (a \o b)[i] = IF i <= n - 1 THEN a[i] ELSE b[i - (n - 1)]
    <2>1. /\ a \o b \in Seq(S) /\ Len(a \o b) = Len(a) + Len(b)
          /\ \A i \in 1 .. Len(a) + Len(b) :
               (a \o b)[i] = IF i <= Len(a) THEN a[i] ELSE b[i - Len(a)]
      BY <1>2, <1>3, ConcatProperties
    <2>2. Len(a) = n - 1 /\ Len(b) = Len(s) - n
      BY <1>2, <1>3
    <2> QED BY <2>1, <2>2
  <1>5. RemoveAt(s, n) = a \o b /\ (n - 1) + (Len(s) - n) = Len(s) - 1
    BY <1>1 DEF RemoveAt, a, b
  <1>6. ASSUME NEW i \in 1 .. Len(s) - 1
        PROVE  (a \o b)[i] = IF i < n THEN s[i] ELSE s[i + 1]
    <2>1. CASE i < n
      BY <1>1, <1>2, <1>4, <1>5, <2>1
    <2>2. CASE ~(i < n)
      <3>1. /\ i - (n - 1) \in 1 .. Len(s) - n /\ ~(i <= n - 1)
            /\ n + (i - (n - 1)) = i + 1
        BY <1>1, <2>2
      <3> QED BY <1>3, <1>4, <1>5, <2>2, <3>1
    <2> QED BY <2>1, <2>2
  <1> QED BY <1>4, <1>5, <1>6

\* One character before the others, and without it.
LEMMA Before ==
    ASSUME NEW S, NEW s \in Seq(S), NEW c \in S
    PROVE  /\ <<c>> \o s \in Seq(S) /\ Len(<<c>> \o s) = Len(s) + 1
           /\ (<<c>> \o s)[1] = c /\ <<c>> \o s # <<>> /\ Head(<<c>> \o s) = c
           /\ \A i \in 1 .. Len(s) : (<<c>> \o s)[i + 1] = s[i]
           /\ Tail(<<c>> \o s) = s
  <1> DEFINE t == <<c>> \o s
  <1>1. Len(s) \in Nat /\ <<c>> \in Seq(S) /\ Len(<<c>>) = 1 /\ <<c>>[1] = c
    BY LenProperties
  <1>2. /\ t \in Seq(S) /\ Len(t) = Len(s) + 1
        /\ \A i \in 1 .. 1 + Len(s) : t[i] = IF i <= 1 THEN <<c>>[i] ELSE s[i - 1]
    BY <1>1, ConcatProperties
  <1> HIDE DEF t
  <1>3. t[1] = c /\ \A i \in 1 .. Len(s) : t[i + 1] = s[i]
    <2>1. \A i \in 1 .. Len(s) : i + 1 \in 1 .. 1 + Len(s) /\ ~(i + 1 <= 1) /\ (i + 1) - 1 = i
      BY <1>1
    <2>2. 1 \in 1 .. 1 + Len(s)
      BY <1>1
    <2> QED BY <1>1, <1>2, <2>1, <2>2
  <1>4. t # <<>>
    BY <1>1, <1>2
  <1>5. Head(t) = c
    BY <1>2, <1>3, <1>4
  <1>6. Tail(t) = s
    <2>1. /\ Tail(t) \in Seq(S) /\ Len(Tail(t)) = Len(s)
          /\ \A i \in 1 .. Len(Tail(t)) : Tail(t)[i] = t[i + 1]
      BY <1>1, <1>2, <1>4, HeadTailProperties
    <2> QED BY <1>3, <2>1, SeqEqual
  <1> QED BY <1>2, <1>3, <1>4, <1>5, <1>6 DEF t

LEMMA Behind ==
    ASSUME NEW S, NEW s \in Seq(S), s # <<>>
    PROVE  <<s[1]>> \o Tail(s) = s
  <1>1. /\ Tail(s) \in Seq(S) /\ Len(Tail(s)) = Len(s) - 1
        /\ \A i \in 1 .. Len(Tail(s)) : Tail(s)[i] = s[i + 1]
    BY HeadTailProperties
  <1>2. Len(s) \in Nat \ {0}
    BY EmptySeq
  <1>3. s[1] \in S
    BY <1>2, ElementOfSeq
  <1> DEFINE t == <<s[1]>> \o Tail(s)
  <1>4. /\ t \in Seq(S) /\ Len(t) = Len(s) /\ t[1] = s[1]
        /\ \A i \in 1 .. Len(Tail(s)) : t[i + 1] = Tail(s)[i]
    BY <1>1, <1>2, <1>3, Before
  <1> HIDE DEF t
  <1>5. ASSUME NEW i \in 1 .. Len(t)
        PROVE  t[i] = s[i]
    <2>1. CASE i = 1
      BY <1>4, <2>1
    <2>2. CASE i # 1
      <3>1. i - 1 \in 1 .. Len(Tail(s)) /\ (i - 1) + 1 = i
        BY <1>1, <1>2, <1>4, <2>2
      <3> QED BY <1>1, <1>4, <3>1
    <2> QED BY <2>1, <2>2
  <1>6. t = s
    BY <1>4, <1>5, SeqEqual
  <1> QED BY <1>6 DEF t

\* The slash of a command goes before what its text becomes.
LEMMA SpliceBehind ==
    ASSUME NEW S, NEW s \in Seq(S), NEW n \in 0 .. Len(s), NEW u \in Seq(S), NEW c \in S
    PROVE  <<c>> \o Spliced(s, n, u) = Spliced(<<c>> \o s, n + 1, u)
  <1> DEFINE t == Spliced(s, n, u)
             w == <<c>> \o s
             l == <<c>> \o t
             r == Spliced(w, n + 1, u)
  <1>1. Len(s) \in Nat /\ Len(u) \in Nat /\ n \in 0 .. Len(s)
    BY LenProperties
  <1>2. /\ t \in Seq(S) /\ Len(t) = Len(s) + Len(u)
        /\ \A i \in 1 .. Len(s) + Len(u) :
             t[i] = IF i <= n THEN s[i] ELSE IF i <= n + Len(u) THEN u[i - n] ELSE s[i - Len(u)]
    BY Splice
  <1>3. /\ w \in Seq(S) /\ Len(w) = Len(s) + 1 /\ w[1] = c
        /\ \A i \in 1 .. Len(s) : w[i + 1] = s[i]
    BY Before
  <1> HIDE DEF t, w
  <1>4. /\ l \in Seq(S) /\ Len(l) = Len(t) + 1 /\ l[1] = c
        /\ \A i \in 1 .. Len(t) : l[i + 1] = t[i]
    BY <1>2, Before
  <1>5. /\ r \in Seq(S) /\ Len(r) = Len(w) + Len(u)
        /\ \A i \in 1 .. Len(w) + Len(u) :
             r[i] = IF i <= n + 1 THEN w[i]
                    ELSE IF i <= (n + 1) + Len(u) THEN u[i - (n + 1)] ELSE w[i - Len(u)]
    <2>1. PICK k \in 0 .. Len(w) : k = n + 1
      BY <1>1, <1>3
    <2>2. /\ Spliced(w, k, u) \in Seq(S) /\ Len(Spliced(w, k, u)) = Len(w) + Len(u)
          /\ \A i \in 1 .. Len(w) + Len(u) :
               Spliced(w, k, u)[i] = IF i <= k THEN w[i]
                                     ELSE IF i <= k + Len(u) THEN u[i - k] ELSE w[i - Len(u)]
      <3>1. w \in Seq(S)
        BY <1>3
      <3> QED BY <3>1, Splice
    <2> QED BY <2>1, <2>2
  <1> HIDE DEF l, r
  <1>6. ASSUME NEW i \in 1 .. Len(l)
        PROVE  l[i] = r[i]
    <2>1. i \in 1 .. Len(w) + Len(u) /\ i \in Nat
      BY <1>1, <1>2, <1>3, <1>4
    <2>2. CASE i = 1
      BY <1>1, <1>3, <1>4, <1>5, <2>1, <2>2
    <2>3. CASE i # 1
      <3>1. PICK j \in 1 .. Len(t) : i = j + 1
        <4>1. i - 1 \in 1 .. Len(t) /\ (i - 1) + 1 = i
          BY <1>1, <1>2, <1>4, <2>1, <2>3
        <4> QED BY <4>1
      <3>2. l[i] = t[j] /\ j \in 1 .. Len(s) + Len(u)
        BY <1>2, <1>4, <3>1
      <3>3. CASE j <= n
        <4>1. i <= n + 1 /\ j \in 1 .. Len(s)
          BY <1>1, <3>1, <3>2, <3>3
        <4> QED BY <1>2, <1>3, <1>5, <2>1, <3>1, <3>2, <3>3, <4>1
      <3>4. CASE ~(j <= n) /\ j <= n + Len(u)
        <4>1. ~(i <= n + 1) /\ i <= (n + 1) + Len(u) /\ i - (n + 1) = j - n
          BY <1>1, <3>1, <3>2, <3>4
        <4> QED BY <1>2, <1>5, <2>1, <3>2, <3>4, <4>1
      <3>5. CASE ~(j <= n) /\ ~(j <= n + Len(u))
        <4>1. /\ ~(i <= n + 1) /\ ~(i <= (n + 1) + Len(u))
              /\ i - Len(u) = (j - Len(u)) + 1 /\ j - Len(u) \in 1 .. Len(s)
          BY <1>1, <3>1, <3>2, <3>5
        <4> QED BY <1>2, <1>3, <1>5, <2>1, <3>2, <3>5, <4>1
      <3> QED BY <3>3, <3>4, <3>5
    <2> QED BY <2>2, <2>3
  <1>7. Len(l) = Len(r)
    BY <1>1, <1>2, <1>3, <1>4, <1>5
  <1>8. l = r
    BY <1>4, <1>5, <1>6, <1>7, SeqEqual
  <1> QED BY <1>8 DEF l, r, t, w

LEMMA RemovalBehind ==
    ASSUME NEW S, NEW s \in Seq(S), NEW n \in 1 .. Len(s), NEW c \in S
    PROVE  <<c>> \o RemoveAt(s, n) = RemoveAt(<<c>> \o s, n + 1)
  <1> DEFINE t == RemoveAt(s, n)
             w == <<c>> \o s
             l == <<c>> \o t
             r == RemoveAt(w, n + 1)
  <1>1. Len(s) \in Nat /\ n \in 1 .. Len(s)
    BY LenProperties
  <1>2. /\ t \in Seq(S) /\ Len(t) = Len(s) - 1
        /\ \A i \in 1 .. Len(s) - 1 : t[i] = IF i < n THEN s[i] ELSE s[i + 1]
    BY Removal
  <1>3. /\ w \in Seq(S) /\ Len(w) = Len(s) + 1 /\ w[1] = c
        /\ \A i \in 1 .. Len(s) : w[i + 1] = s[i]
    BY Before
  <1> HIDE DEF t, w
  <1>4. /\ l \in Seq(S) /\ Len(l) = Len(t) + 1 /\ l[1] = c
        /\ \A i \in 1 .. Len(t) : l[i + 1] = t[i]
    BY <1>2, Before
  <1>5. /\ r \in Seq(S) /\ Len(r) = Len(w) - 1
        /\ \A i \in 1 .. Len(w) - 1 : r[i] = IF i < n + 1 THEN w[i] ELSE w[i + 1]
    <2>1. n + 1 \in 1 .. Len(w)
      BY <1>1, <1>3
    <2> QED BY <1>3, <2>1, Removal
  <1> HIDE DEF l, r
  <1>6. ASSUME NEW i \in 1 .. Len(l)
        PROVE  l[i] = r[i]
    <2>1. i \in 1 .. Len(w) - 1 /\ i \in Nat
      BY <1>1, <1>2, <1>3, <1>4
    <2>2. CASE i = 1
      BY <1>1, <1>3, <1>4, <1>5, <2>1, <2>2
    <2>3. CASE i # 1
      <3>1. PICK j \in 1 .. Len(t) : i = j + 1
        <4>1. i - 1 \in 1 .. Len(t) /\ (i - 1) + 1 = i
          BY <1>1, <1>2, <1>4, <2>1, <2>3
        <4> QED BY <4>1
      <3>2. l[i] = t[j] /\ j \in 1 .. Len(s) - 1
        BY <1>2, <1>4, <3>1
      <3>3. CASE j < n
        <4>1. i < n + 1 /\ j \in 1 .. Len(s)
          BY <1>1, <3>1, <3>2, <3>3
        <4> QED BY <1>2, <1>3, <1>5, <2>1, <3>1, <3>2, <3>3, <4>1
      <3>4. CASE ~(j < n)
        <4>1. ~(i < n + 1) /\ i + 1 = (j + 1) + 1 /\ j + 1 \in 1 .. Len(s)
          BY <1>1, <3>1, <3>2, <3>4
        <4> QED BY <1>2, <1>3, <1>5, <2>1, <3>2, <3>4, <4>1
      <3> QED BY <3>3, <3>4
    <2> QED BY <2>2, <2>3
  <1>7. Len(l) = Len(r)
    BY <1>1, <1>2, <1>3, <1>4, <1>5
  <1>8. l = r
    BY <1>4, <1>5, <1>6, <1>7, SeqEqual
  <1> QED BY <1>8 DEF l, r, t, w

\* A text is pasted character by character.
LEMMA SpliceMore ==
    ASSUME NEW S, NEW s \in Seq(S), NEW n \in 0 .. Len(s), NEW u \in Seq(S), NEW c \in S
    PROVE  Spliced(Spliced(s, n, u), n + Len(u), <<c>>) = Spliced(s, n, Append(u, c))
  <1> DEFINE t == Spliced(s, n, u)
             v == Append(u, c)
             l == Spliced(t, n + Len(u), <<c>>)
             r == Spliced(s, n, v)
  <1>1. Len(s) \in Nat /\ Len(u) \in Nat /\ n \in 0 .. Len(s)
    BY LenProperties
  <1>2. /\ t \in Seq(S) /\ Len(t) = Len(s) + Len(u)
        /\ \A i \in 1 .. Len(s) + Len(u) :
             t[i] = IF i <= n THEN s[i] ELSE IF i <= n + Len(u) THEN u[i - n] ELSE s[i - Len(u)]
    BY Splice
  <1>3. /\ v \in Seq(S) /\ Len(v) = Len(u) + 1 /\ v[Len(u) + 1] = c
        /\ \A i \in 1 .. Len(u) : v[i] = u[i]
    BY AppendProperties
  <1>4. <<c>> \in Seq(S) /\ Len(<<c>>) = 1 /\ <<c>>[1] = c
    OBVIOUS
  <1> HIDE DEF t, v
  <1>5. /\ l \in Seq(S) /\ Len(l) = Len(t) + 1
        /\ \A i \in 1 .. Len(t) + 1 :
             l[i] = IF i <= n + Len(u) THEN t[i]
                    ELSE IF i <= (n + Len(u)) + 1 THEN <<c>>[i - (n + Len(u))] ELSE t[i - 1]
    <2>1. PICK k \in 0 .. Len(t) : k = n + Len(u)
      BY <1>1, <1>2
    <2>2. PICK o \in Seq(S) : o = <<c>> /\ Len(o) = 1
      BY <1>4
    <2>3. /\ Spliced(t, k, o) \in Seq(S) /\ Len(Spliced(t, k, o)) = Len(t) + Len(o)
          /\ \A i \in 1 .. Len(t) + Len(o) :
               Spliced(t, k, o)[i] = IF i <= k THEN t[i]
                                     ELSE IF i <= k + Len(o) THEN o[i - k] ELSE t[i - Len(o)]
      <3>1. t \in Seq(S)
        BY <1>2
      <3> QED BY <3>1, Splice
    <2> QED BY <2>1, <2>2, <2>3
  <1>6. /\ r \in Seq(S) /\ Len(r) = Len(s) + Len(v)
        /\ \A i \in 1 .. Len(s) + Len(v) :
             r[i] = IF i <= n THEN s[i] ELSE IF i <= n + Len(v) THEN v[i - n] ELSE s[i - Len(v)]
    BY <1>3, Splice, ZenonT(40)
  <1> HIDE DEF l, r
  <1>7. ASSUME NEW i \in 1 .. Len(l)
        PROVE  l[i] = r[i]
    <2>1. i \in 1 .. Len(t) + 1 /\ i \in 1 .. Len(s) + Len(v) /\ i \in Nat
      BY <1>1, <1>2, <1>3, <1>5
    <2>2. CASE i <= n
      <3>1. i <= n + Len(u) /\ i \in 1 .. Len(s) + Len(u)
        BY <1>1, <2>1, <2>2
      <3> QED BY <1>2, <1>5, <1>6, <2>1, <2>2, <3>1
    <2>3. CASE ~(i <= n) /\ i <= n + Len(u)
      <3>1. i \in 1 .. Len(s) + Len(u) /\ i <= n + Len(v) /\ i - n \in 1 .. Len(u)
        BY <1>1, <1>3, <2>1, <2>3
      <3> QED BY <1>2, <1>3, <1>5, <1>6, <2>1, <2>3, <3>1
    <2>4. CASE i = n + Len(u) + 1
      <3>1. /\ ~(i <= n) /\ ~(i <= n + Len(u)) /\ i <= (n + Len(u)) + 1 /\ i <= n + Len(v)
            /\ i - (n + Len(u)) = 1 /\ i - n = Len(u) + 1
        BY <1>1, <1>3, <2>4
      <3>2. l[i] = c
        BY <1>4, <1>5, <2>1, <3>1
      <3>3. r[i] = c
        BY <1>3, <1>6, <2>1, <3>1
      <3> QED BY <3>2, <3>3
    <2>5. CASE i > n + Len(u) + 1
      <3>1. /\ ~(i <= n) /\ ~(i <= n + Len(u)) /\ ~(i <= (n + Len(u)) + 1) /\ ~(i <= n + Len(v))
            /\ i - 1 \in 1 .. Len(s) + Len(u) /\ (i - 1) - Len(u) = i - Len(v)
            /\ ~(i - 1 <= n) /\ ~(i - 1 <= n + Len(u))
        BY <1>1, <1>2, <1>3, <2>1, <2>5
      <3>2. l[i] = t[i - 1]
        BY <1>5, <2>1, <3>1
      <3>3. t[i - 1] = s[(i - 1) - Len(u)]
        BY <1>2, <3>1
      <3>4. r[i] = s[i - Len(v)]
        BY <1>6, <2>1, <3>1
      <3> QED BY <3>1, <3>2, <3>3, <3>4
    <2>6. i <= n \/ (~(i <= n) /\ i <= n + Len(u)) \/ i = n + Len(u) + 1 \/ i > n + Len(u) + 1
      BY <1>1, <2>1
    <2> QED BY <2>2, <2>3, <2>4, <2>5, <2>6
  <1>8. Len(l) = Len(r)
    BY <1>1, <1>2, <1>3, <1>5, <1>6
  <1>9. l = r
    BY <1>5, <1>6, <1>7, <1>8, SeqEqual
  <1> QED BY <1>9 DEF l, r, t, v

\* At the end of a text.
LEMMA SpliceLast ==
    ASSUME NEW S, NEW s \in Seq(S), NEW u \in Seq(S)
    PROVE  Spliced(s, Len(s), u) = s \o u
  <1>1. Len(s) \in Nat
    BY LenProperties
  <1>2. SubSeq(s, 1, Len(s)) = s /\ SubSeq(s, Len(s) + 1, Len(s)) = <<>>
    BY <1>1, SubSeqFull, SubSeqEmpty
  <1>3. s \o u \in Seq(S)
    BY ConcatProperties
  <1>4. (s \o u) \o <<>> = s \o u
    BY <1>3, ConcatEmptySeq
  <1> QED BY <1>2, <1>4 DEF Spliced

\* insert, at the cursor.
LEMMA OneSpliced ==
    ASSUME NEW s, NEW n \in Nat, NEW c
    PROVE  InsertAt(s, n + 1, c) = Spliced(s, n, <<c>>)
  <1>1. (n + 1) - 1 = n
    OBVIOUS
  <1> QED BY <1>1 DEF InsertAt, Spliced

-----------------------------------------------------------------------------
(* Terminal: the keys of the prompt, on its rendered text *)

PromptType ==
    [kind : {"Empty", "Text", "Command", "File"}, input : Texts, cursor : Nat, parsed : Texts,
     start : Nat, command : BOOLEAN, matches : Seq(Paths), selected : Nat]

PathChars == UNION {Range(path) : path \in Paths}

\* What a mention under completion is: at the end of the text, behind an "@".
Mention(p) ==
    /\ p.cursor = Len(p.input)
    /\ p.start \in 1 .. Len(p.input) /\ p.input[p.start] = AtSign
    /\ \A i \in p.start + 1 .. Len(p.input) : p.input[i] \in White => p.input[i] \in PathChars
    /\ p.command => p.start > 1 /\ p.input[1] = Slash

GoodPrompt(p) ==
    /\ p \in PromptType /\ p.cursor <= Len(p.input)
    /\ p.matches # <<>> => p.selected < Len(p.matches)
    /\ p.kind = "Empty" => p = EmptyPrompt
    /\ p.kind = "Command" => p.parsed = p.input
    /\ p.kind = "File" => Mention(p)

Matched(p) == p.kind = "File" => p.matches = FileMatches(Query(p))

LEMMA Alphabet ==
    {Slash, AtSign, Space} \subseteq Chars /\ White \subseteq Chars /\ Slash # AtSign
  <1>1. Slash # AtSign
    BY Zenon DEF Slash, AtSign
  <1> QED BY <1>1 DEF Chars, White

LEMMA PromptTyped ==
    ASSUME NEW p \in PromptType
    PROVE  /\ p.input \in Texts /\ p.parsed \in Texts /\ p.matches \in Seq(Paths)
           /\ {p.cursor, p.start, p.selected, Len(p.input), Len(p.matches)} \subseteq Nat
           /\ p.command \in BOOLEAN /\ p.kind \in {"Empty", "Text", "Command", "File"}
  BY LenProperties DEF PromptType, Texts

\* The prompts that the code builds anew.
LEMMA NewPrompts ==
    /\ GoodPrompt(EmptyPrompt) /\ EmptyPrompt.kind = "Empty"
    /\ Rendered(EmptyPrompt) = <<>> /\ CursorPosition(EmptyPrompt) = 0
    /\ \A s \in Texts :
         /\ GoodPrompt(TextPrompt(s)) /\ TextPrompt(s).kind = "Text"
         /\ Rendered(TextPrompt(s)) = s /\ CursorPosition(TextPrompt(s)) = Len(s)
         /\ GoodPrompt(CommandPrompt(s)) /\ CommandPrompt(s).kind = "Command"
         /\ Rendered(CommandPrompt(s)) = <<Slash>> \o s
         /\ CursorPosition(CommandPrompt(s)) = Len(s) + 1
  <1>1. <<>> \in Texts /\ <<>> \in Seq(Paths) /\ Len(<<>>) = 0
    BY DEF Texts
  <1>2. \A s \in Texts : Len(s) \in Nat
    BY LenProperties DEF Texts
  <1>3. /\ EmptyPrompt = [kind |-> "Empty", input |-> <<>>, cursor |-> 0, parsed |-> <<>>,
                          start |-> 0, command |-> FALSE, matches |-> <<>>, selected |-> 0]
        /\ EmptyPrompt \in PromptType
    BY <1>1 DEF EmptyPrompt, Prompt, PromptType
  <1>4. GoodPrompt(EmptyPrompt)
    BY <1>1, <1>3 DEF GoodPrompt
  <1>5. ASSUME NEW s \in Texts
        PROVE  /\ TextPrompt(s) = [kind |-> "Text", input |-> s, cursor |-> Len(s),
                                   parsed |-> <<>>, start |-> 0, command |-> FALSE,
                                   matches |-> <<>>, selected |-> 0]
               /\ TextPrompt(s) \in PromptType
               /\ CommandPrompt(s) = [kind |-> "Command", input |-> s, cursor |-> Len(s),
                                      parsed |-> s, start |-> 0, command |-> FALSE,
                                      matches |-> <<>>, selected |-> 0]
               /\ CommandPrompt(s) \in PromptType
    <2>1. /\ TextPrompt(s) = [kind |-> "Text", input |-> s, cursor |-> Len(s),
                              parsed |-> <<>>, start |-> 0, command |-> FALSE,
                              matches |-> <<>>, selected |-> 0]
          /\ CommandPrompt(s) = [kind |-> "Command", input |-> s, cursor |-> Len(s),
                                 parsed |-> s, start |-> 0, command |-> FALSE,
                                 matches |-> <<>>, selected |-> 0]
      <3>1. CommandPrompt(s) =
              [[kind |-> "Command", input |-> s, cursor |-> Len(s), parsed |-> <<>>, start |-> 0,
                command |-> FALSE, matches |-> <<>>, selected |-> 0] EXCEPT !.parsed = s]
        BY DEF CommandPrompt, Prompt
      <3>2. CommandPrompt(s) =
              [kind |-> "Command", input |-> s, cursor |-> Len(s), parsed |-> s, start |-> 0,
               command |-> FALSE, matches |-> <<>>, selected |-> 0]
        BY <3>1
      <3> QED BY <3>2 DEF TextPrompt, Prompt
    <2>2. Len(s) \in Nat
      BY <1>2
    <2> QED BY <1>1, <2>1, <2>2 DEF PromptType
  <1>6. ASSUME NEW s \in Texts
        PROVE  GoodPrompt(TextPrompt(s)) /\ GoodPrompt(CommandPrompt(s))
    BY <1>2, <1>5 DEF GoodPrompt
  <1>7. ASSUME NEW s \in Texts
        PROVE  /\ TextPrompt(s).kind = "Text" /\ CommandPrompt(s).kind = "Command"
               /\ Rendered(TextPrompt(s)) = s /\ CursorPosition(TextPrompt(s)) = Len(s)
               /\ Rendered(CommandPrompt(s)) = <<Slash>> \o s
               /\ CursorPosition(CommandPrompt(s)) = Len(s) + 1
    BY <1>5 DEF Rendered, CursorPosition
  <1>8. /\ EmptyPrompt.kind = "Empty"
        /\ Rendered(EmptyPrompt) = <<>> /\ CursorPosition(EmptyPrompt) = 0
    BY <1>3 DEF Rendered, CursorPosition
  <1> QED BY <1>4, <1>6, <1>7, <1>8

\* What a cursor may be on the rendered text.
LEMMA RenderedTyped ==
    ASSUME NEW p \in PromptType, p.cursor <= Len(p.input)
    PROVE  /\ Rendered(p) \in Texts /\ Len(Rendered(p)) \in Nat
           /\ CursorPosition(p) \in 0 .. Len(Rendered(p))
           /\ Len(Rendered(p)) = IF p.kind = "Command" THEN Len(p.input) + 1 ELSE Len(p.input)
  <1>1. p.input \in Seq(Chars) /\ p.cursor \in Nat /\ Len(p.input) \in Nat
    BY PromptTyped DEF Texts
  <1>2. Slash \in Chars
    BY Alphabet
  <1>3. <<Slash>> \o p.input \in Seq(Chars) /\ Len(<<Slash>> \o p.input) = Len(p.input) + 1
    BY <1>1, <1>2, Before
  <1> QED BY <1>1, <1>3 DEF Rendered, CursorPosition, Texts

\* A character more in the text is one more in what is rendered.
LEMMA InsertedShown ==
    ASSUME NEW p \in PromptType, p.cursor <= Len(p.input), NEW c \in Chars
    PROVE  LET q == Inserted(p, c) IN
           /\ q \in PromptType /\ q.cursor = p.cursor + 1 /\ q.matches = <<>>
           /\ q.cursor <= Len(q.input) /\ Len(q.input) = Len(p.input) + 1
           /\ q.input = Spliced(p.input, p.cursor, <<c>>)
           /\ q.kind = p.kind /\ q.start = p.start /\ q.command = p.command
           /\ q.parsed = p.parsed
           /\ Rendered(q) = Spliced(Rendered(p), CursorPosition(p), <<c>>)
           /\ CursorPosition(q) = CursorPosition(p) + 1
  <1> DEFINE q == Inserted(p, c)
             s == p.input
             n == p.cursor
  <1>1. s \in Seq(Chars) /\ n \in 0 .. Len(s) /\ n \in Nat /\ Len(s) \in Nat
    BY PromptTyped DEF Texts
  <1>2. <<c>> \in Seq(Chars) /\ Len(<<c>>) = 1
    OBVIOUS
  <1>3. Spliced(s, n, <<c>>) \in Seq(Chars) /\ Len(Spliced(s, n, <<c>>)) = Len(s) + 1
    <2>1. PICK u \in Seq(Chars) : u = <<c>> /\ Len(u) = 1
      BY <1>2
    <2>2. s \in Seq(Chars) /\ n \in 0 .. Len(s) /\ u \in Seq(Chars)
      BY <1>1, <2>1
    <2> HIDE DEF s, n
    <2>3. Spliced(s, n, u) \in Seq(Chars) /\ Len(Spliced(s, n, u)) = Len(s) + Len(u)
      BY <2>2, Splice
    <2> QED BY <2>1, <2>3
  <1>4. InsertAt(s, n + 1, c) = Spliced(s, n, <<c>>)
    BY <1>1, OneSpliced
  <1>5. /\ q.input = Spliced(s, n, <<c>>) /\ q.cursor = n + 1 /\ q.matches = <<>>
        /\ q.kind = p.kind /\ q.start = p.start /\ q.command = p.command /\ q.parsed = p.parsed
    BY <1>4 DEF Inserted, PromptType
  <1>6. q \in PromptType
    <2>1. <<>> \in Seq(Paths) /\ 0 \in Nat /\ n + 1 \in Nat
      BY <1>1
    <2>2. q = [p EXCEPT !.input = Spliced(s, n, <<c>>), !.cursor = n + 1,
                        !.matches = <<>>, !.selected = 0]
      BY <1>4 DEF Inserted
    <2>3. Spliced(s, n, <<c>>) \in Texts
      BY <1>3 DEF Texts
    <2> HIDE DEF q
    <2> QED BY <2>1, <2>2, <2>3 DEF PromptType
  <1> HIDE DEF q
  <1>7. /\ Rendered(q) = Spliced(Rendered(p), CursorPosition(p), <<c>>)
        /\ CursorPosition(q) = CursorPosition(p) + 1
    <2>1. CASE p.kind = "Command"
      <3>1. Rendered(q) = <<Slash>> \o Spliced(s, n, <<c>>) /\ Rendered(p) = <<Slash>> \o s
        BY <1>5, <2>1 DEF Rendered
      <3>2. CursorPosition(p) = n + 1 /\ CursorPosition(q) = (n + 1) + 1
        BY <1>5, <2>1 DEF CursorPosition
      <3>3. <<Slash>> \o Spliced(s, n, <<c>>) = Spliced(<<Slash>> \o s, n + 1, <<c>>)
        BY <1>1, <1>2, Alphabet, SpliceBehind
      <3> QED BY <3>1, <3>2, <3>3
    <2>2. CASE p.kind # "Command"
      <3>1. Rendered(q) = Spliced(s, n, <<c>>) /\ Rendered(p) = s
        BY <1>5, <2>2 DEF Rendered
      <3>2. CursorPosition(p) = n /\ CursorPosition(q) = n + 1
        BY <1>5, <2>2 DEF CursorPosition
      <3> QED BY <3>1, <3>2
    <2> QED BY <2>1, <2>2
  <1>8. q.cursor <= Len(q.input) /\ Len(q.input) = Len(s) + 1
    BY <1>1, <1>3, <1>5
  <1> QED BY <1>5, <1>6, <1>7, <1>8 DEF q

\* The end of a completion leaves the text and the cursor.
LEMMA WithoutShown ==
    ASSUME NEW p \in PromptType, p.cursor <= Len(p.input),
           p.command => p.input # <<>> /\ p.input[1] = Slash
    PROVE  LET q == WithoutFileAutocomplete(p) IN
           /\ GoodPrompt(q) /\ q.kind \in {"Text", "Command"} /\ Rendered(q) = p.input
           /\ CursorPosition(q) = IF p.command /\ p.cursor = 0 THEN 1 ELSE p.cursor
  <1> DEFINE q == WithoutFileAutocomplete(p)
  <1>1. /\ p.input \in Texts /\ p.input \in Seq(Chars) /\ p.cursor \in Nat /\ Len(p.input) \in Nat
        /\ p.command \in BOOLEAN
    BY PromptTyped DEF Texts
  <1>2. CASE p.command
    <2> DEFINE t == Tail(p.input)
               n == IF p.cursor = 0 THEN 0 ELSE p.cursor - 1
    <2>1. /\ t \in Seq(Chars) /\ Len(t) = Len(p.input) - 1 /\ Len(t) \in Nat
          /\ <<Slash>> \o t = p.input
      BY <1>1, <1>2, HeadTailProperties, Behind, LenProperties
    <2>2. t \in Texts /\ n \in Nat /\ n <= Len(t)
      BY <1>1, <2>1 DEF Texts
    <2> HIDE DEF t, n
    <2>3. /\ GoodPrompt(CommandPrompt(t)) /\ CommandPrompt(t).kind = "Command"
          /\ CommandPrompt(t) = [kind |-> "Command", input |-> t, cursor |-> Len(t),
                                 parsed |-> t, start |-> 0, command |-> FALSE,
                                 matches |-> <<>>, selected |-> 0]
      <3>1. CommandPrompt(t) =
              [[kind |-> "Command", input |-> t, cursor |-> Len(t), parsed |-> <<>>,
                start |-> 0, command |-> FALSE, matches |-> <<>>, selected |-> 0]
                 EXCEPT !.parsed = t]
        BY DEF CommandPrompt, Prompt
      <3> QED BY <2>2, <3>1, NewPrompts
    <2>4. q = [CommandPrompt(t) EXCEPT !.cursor = n]
      BY <1>2 DEF WithoutFileAutocomplete, t, n
    <2>5. q = [kind |-> "Command", input |-> t, cursor |-> n, parsed |-> t, start |-> 0,
               command |-> FALSE, matches |-> <<>>, selected |-> 0]
      <3>1. q = [[kind |-> "Command", input |-> t, cursor |-> Len(t), parsed |-> t,
                  start |-> 0, command |-> FALSE, matches |-> <<>>, selected |-> 0]
                   EXCEPT !.cursor = n]
        BY <2>3, <2>4
      <3> HIDE DEF q
      <3> QED BY <3>1
    <2> HIDE DEF q
    <2>6. q \in PromptType
      <3>1. <<>> \in Seq(Paths)
        OBVIOUS
      <3> QED BY <2>2, <2>5, <3>1 DEF PromptType
    <2>7. GoodPrompt(q)
      BY <2>2, <2>5, <2>6 DEF GoodPrompt
    <2>8. Rendered(q) = p.input /\ CursorPosition(q) = n + 1 /\ q.kind = "Command"
      BY <2>1, <2>5 DEF Rendered, CursorPosition
    <2>9. n + 1 = IF p.command /\ p.cursor = 0 THEN 1 ELSE p.cursor
      BY <1>1, <1>2 DEF n
    <2> QED BY <2>7, <2>8, <2>9 DEF q
  <1>3. CASE ~p.command
    <2>1. q = [kind |-> "Text", input |-> p.input, cursor |-> p.cursor, parsed |-> <<>>,
               start |-> 0, command |-> FALSE, matches |-> <<>>, selected |-> 0]
      BY <1>3 DEF WithoutFileAutocomplete, TextPrompt, Prompt
    <2> HIDE DEF q
    <2>2. q \in PromptType
      <3>1. <<>> \in Seq(Paths) /\ <<>> \in Texts
        BY DEF Texts
      <3> QED BY <1>1, <2>1, <3>1 DEF PromptType
    <2>3. GoodPrompt(q)
      BY <1>1, <2>1, <2>2 DEF GoodPrompt
    <2>4. Rendered(q) = p.input /\ CursorPosition(q) = p.cursor /\ q.kind = "Text"
      BY <2>1 DEF Rendered, CursorPosition
    <2> QED BY <1>3, <2>3, <2>4 DEF q
  <1> QED BY <1>1, <1>2, <1>3

LEMMA NewMention ==
    ASSUME NEW s \in Texts, NEW command \in BOOLEAN, s # <<>>, s[Len(s)] = AtSign,
           command => Len(s) > 1 /\ s[1] = Slash
    PROVE  LET q == FilePrompt(s, command) IN
           /\ GoodPrompt(q) /\ Rendered(q) = s /\ CursorPosition(q) = Len(s)
  <1> DEFINE q == FilePrompt(s, command)
  <1>1. Len(s) \in Nat \ {0} /\ Len(s) \in Nat
    BY EmptySeq DEF Texts
  <1>2. q = [kind |-> "File", input |-> s, cursor |-> Len(s), parsed |-> <<>>,
             start |-> Len(s), command |-> command, matches |-> <<>>, selected |-> 0]
    <2>1. q = [[kind |-> "File", input |-> s, cursor |-> Len(s), parsed |-> <<>>, start |-> 0,
                command |-> FALSE, matches |-> <<>>, selected |-> 0]
                 EXCEPT !.start = Len(s), !.command = command]
      BY DEF FilePrompt, Prompt
    <2> HIDE DEF q
    <2> QED BY <2>1
  <1> HIDE DEF q
  <1>3. q \in PromptType
    <2>1. <<>> \in Seq(Paths) /\ <<>> \in Texts
      BY DEF Texts
    <2> QED BY <1>1, <1>2, <2>1 DEF PromptType
  <1>4. Mention(q)
    <2>1. Len(s) \in 1 .. Len(s) /\ \A i \in Len(s) + 1 .. Len(s) : FALSE
      BY <1>1
    <2> QED BY <1>1, <1>2, <2>1 DEF Mention
  <1>5. GoodPrompt(q)
    BY <1>1, <1>2, <1>3, <1>4 DEF GoodPrompt
  <1>6. Rendered(q) = s /\ CursorPosition(q) = Len(s)
    BY <1>2 DEF Rendered, CursorPosition
  <1> QED BY <1>5, <1>6 DEF q

\* A character of a text that goes on in a command or a mention.
LEMMA PushShown ==
    ASSUME NEW p, GoodPrompt(p), NEW c \in Chars
    PROVE  /\ GoodPrompt(Push(p, c))
           /\ Rendered(Push(p, c)) = Spliced(Rendered(p), CursorPosition(p), <<c>>)
           /\ CursorPosition(Push(p, c)) = CursorPosition(p) + 1
  <1> DEFINE q == Inserted(p, c)
             r == Push(p, c)
             s == p.input
             shown == /\ GoodPrompt(r)
                      /\ Rendered(r) = Spliced(Rendered(p), CursorPosition(p), <<c>>)
                      /\ CursorPosition(r) = CursorPosition(p) + 1
  <1>1. p \in PromptType /\ p.cursor <= Len(s) /\ <<c>> \in Seq(Chars)
    BY DEF GoodPrompt
  <1>2. /\ s \in Seq(Chars) /\ s \in Texts /\ {p.cursor, p.start, Len(s)} \subseteq Nat
        /\ p.command \in BOOLEAN /\ p.kind \in {"Empty", "Text", "Command", "File"}
    BY <1>1, PromptTyped DEF Texts
  <1>3. /\ q \in PromptType /\ q.cursor = p.cursor + 1 /\ q.matches = <<>>
        /\ q.cursor <= Len(q.input) /\ Len(q.input) = Len(s) + 1
        /\ q.input = Spliced(s, p.cursor, <<c>>)
        /\ q.kind = p.kind /\ q.start = p.start /\ q.command = p.command
        /\ Rendered(q) = Spliced(Rendered(p), CursorPosition(p), <<c>>)
        /\ CursorPosition(q) = CursorPosition(p) + 1
    BY <1>1, InsertedShown
  <1>4. /\ q.input \in Texts
        /\ \A i \in 1 .. Len(s) + 1 :
             q.input[i] = IF i <= p.cursor THEN s[i] ELSE IF i <= p.cursor + 1 THEN c ELSE s[i - 1]
    <2>1. PICK u \in Seq(Chars) : u = <<c>> /\ Len(u) = 1
      BY <1>1
    <2>2. p.cursor \in 0 .. Len(s)
      BY <1>1, <1>2
    <2>3. \A i \in 1 .. Len(s) + Len(u) :
             Spliced(s, p.cursor, u)[i] = IF i <= p.cursor THEN s[i]
                                          ELSE IF i <= p.cursor + Len(u) THEN u[i - p.cursor]
                                          ELSE s[i - Len(u)]
      BY <1>2, <2>2, Splice
    <2>4. \A i \in 1 .. Len(s) + 1 : ~(i <= p.cursor) /\ i <= p.cursor + 1 => u[i - p.cursor] = c
      BY <1>2, <2>1
    <2>5. q.input \in Texts
      BY <1>3, PromptTyped
    <2> QED BY <1>3, <2>1, <2>3, <2>4, <2>5
  <1> HIDE DEF q
  <1>5. CASE p.kind = "Empty"
    <2>1. /\ Rendered(p) = <<>> /\ CursorPosition(p) = 0
      BY <1>5, NewPrompts DEF GoodPrompt
    <2>2. Spliced(<<>>, 0, <<c>>) = <<c>>
      <3>1. <<>> \in Seq(Chars) /\ Len(<<>>) = 0
        OBVIOUS
      <3>2. Spliced(<<>>, Len(<<>>), <<c>>) = <<>> \o <<c>>
        BY <1>1, <3>1, SpliceLast
      <3> QED BY <1>1, <3>1, <3>2, ConcatEmptySeq
    <2>3. <<c>> \in Texts /\ Len(<<c>>) = 1 /\ <<c>>[1] = c /\ <<c>> # <<>> /\ <<>> \in Texts
      BY <1>1 DEF Texts
    <2>4. CASE c = Slash
      <3>1. r = CommandPrompt(<<>>)
        BY <1>5, <2>4, Alphabet DEF Push
      <3>2. <<Slash>> \o <<>> = <<Slash>> /\ Len(<<>>) = 0
        BY <1>1, <2>4, ConcatEmptySeq
      <3> QED BY <2>1, <2>2, <2>3, <2>4, <3>1, <3>2, NewPrompts
    <2>5. CASE c # Slash /\ c = AtSign
      <3>1. r = FilePrompt(<<c>>, FALSE)
        BY <1>5, <2>5 DEF Push
      <3> HIDE DEF r
      <3>2. GoodPrompt(r) /\ Rendered(r) = <<c>> /\ CursorPosition(r) = 1
        <4>1. PICK t \in Texts : t = <<c>> /\ Len(t) = 1 /\ t[Len(t)] = c /\ t # <<>>
          BY <2>3
        <4> QED BY <2>5, <3>1, <4>1, NewMention
      <3> QED BY <2>1, <2>2, <3>2 DEF r
    <2>6. CASE c \notin {Slash, AtSign}
      <3>1. r = TextPrompt(<<c>>)
        BY <1>5, <2>6 DEF Push
      <3> QED BY <2>1, <2>2, <2>3, <3>1, NewPrompts
    <2> QED BY <2>4, <2>5, <2>6
  <1>6. CASE p.kind = "Text"
    <2>1. CASE c = AtSign /\ p.cursor = Len(s)
      <3>1. r = FilePrompt(Append(s, c), FALSE)
        BY <1>6, <2>1 DEF Push, AtEnd
      <3>2. /\ Append(s, c) \in Texts /\ Append(s, c) # <<>> /\ Len(Append(s, c)) = Len(s) + 1
            /\ Append(s, c)[Len(Append(s, c))] = AtSign
        BY <1>2, <2>1, AppendProperties DEF Texts
      <3>3. Append(s, c) = Spliced(s, Len(s), <<c>>)
        BY <1>1, <1>2, SpliceLast, AppendIsConcat
      <3>4. Rendered(p) = s /\ CursorPosition(p) = Len(s)
        BY <1>6, <2>1 DEF Rendered, CursorPosition
      <3> HIDE DEF r
      <3> QED BY <3>1, <3>2, <3>3, <3>4, NewMention DEF r
    <2>2. CASE ~(c = AtSign /\ p.cursor = Len(s))
      <3>1. r = q
        BY <1>6, <2>2 DEF Push, AtEnd, q
      <3> HIDE DEF r
      <3>2. GoodPrompt(r)
        BY <1>3, <1>6, <3>1 DEF GoodPrompt
      <3> QED BY <1>3, <3>1, <3>2 DEF r
    <2> QED BY <2>1, <2>2
  <1>7. CASE p.kind = "File"
    <2>1. Mention(p)
      BY <1>7 DEF GoodPrompt
    <2>2. Rendered(q) = q.input /\ CursorPosition(q) = q.cursor
      BY <1>3, <1>7 DEF Rendered, CursorPosition
    <2>3. /\ q.cursor = Len(q.input) /\ q.start \in 1 .. Len(s)
          /\ \A i \in 1 .. Len(s) : q.input[i] = s[i]
          /\ q.input[Len(s) + 1] = c
      BY <1>2, <1>3, <1>4, <2>1, SMTT(30) DEF Mention
    <2>4. q.command => q.start > 1 /\ q.input[1] = Slash /\ q.input # <<>> /\ Len(s) > 1
      <3>1. p.command => p.start > 1 /\ s[1] = Slash /\ Len(s) > 1
        BY <1>2, <2>1 DEF Mention
      <3>2. p.command => 1 \in 1 .. Len(s) /\ Len(q.input) # 0
        BY <1>2, <1>3, <3>1
      <3> QED BY <1>3, <2>3, <3>1, <3>2
    <2>5. CASE c \in White
      <3>1. r = WithoutFileAutocomplete(q)
        BY <1>7, <2>5 DEF Push, q
      <3> HIDE DEF r
      <3>2. /\ GoodPrompt(r) /\ Rendered(r) = q.input
            /\ CursorPosition(r) = IF q.command /\ q.cursor = 0 THEN 1 ELSE q.cursor
        BY <1>3, <2>4, <3>1, WithoutShown
      <3>3. q.cursor # 0
        BY <1>2, <1>3
      <3> QED BY <1>3, <2>2, <3>2, <3>3 DEF r
    <2>6. CASE c \notin White
      <3>1. r = q
        BY <1>7, <2>6 DEF Push, q
      <3>2. Mention(q)
        <4>1. q.input[q.start] = AtSign /\ q.start \in 1 .. Len(q.input)
          BY <1>2, <1>3, <2>1, <2>3 DEF Mention
        <4>2. ASSUME NEW i \in q.start + 1 .. Len(q.input), q.input[i] \in White
              PROVE  q.input[i] \in PathChars
          <5>1. CASE i <= Len(s)
            <6>1. i \in 1 .. Len(s) /\ i \in p.start + 1 .. Len(s)
              BY <1>2, <1>3, <2>3, <5>1
            <6> QED BY <2>1, <2>3, <4>2, <6>1 DEF Mention
          <5>2. CASE i = Len(s) + 1
            BY <2>3, <2>6, <4>2, <5>2
          <5> QED BY <1>2, <1>3, <2>3, <5>1, <5>2
        <4> QED BY <2>3, <2>4, <4>1, <4>2 DEF Mention
      <3> HIDE DEF r
      <3>3. GoodPrompt(r)
        BY <1>3, <1>7, <3>1, <3>2 DEF GoodPrompt
      <3> QED BY <1>3, <3>1, <3>3 DEF r
    <2> QED BY <2>5, <2>6
  <1>8. CASE p.kind = "Command"
    <2>1. Rendered(q) = <<Slash>> \o q.input /\ CursorPosition(q) = q.cursor + 1
      BY <1>3, <1>8 DEF Rendered, CursorPosition
    <2>2. CASE c = AtSign /\ Preview(CommandOf(p)) /\ p.cursor = Len(s)
      <3>1. r = FilePrompt(Rendered(q), TRUE)
        BY <1>8, <2>2 DEF Push, AtEnd, q
      <3> DEFINE t == Rendered(q)
      <3>2. /\ t \in Texts /\ t # <<>> /\ Len(t) = Len(q.input) + 1 /\ t[1] = Slash
            /\ \A i \in 1 .. Len(q.input) : t[i + 1] = q.input[i]
        <4>1. q.input \in Seq(Chars) /\ Slash \in Chars
          BY <1>4, Alphabet DEF Texts
        <4> QED BY <2>1, <4>1, Before DEF Texts
      <3>3. q.input[Len(s) + 1] = c
        BY <1>2, <1>4, <2>2
      <3>4. t[Len(t)] = AtSign /\ Len(t) > 1
        <4>1. Len(s) + 1 \in 1 .. Len(q.input) /\ (Len(s) + 1) + 1 = Len(t)
          BY <1>2, <1>3, <3>2
        <4> QED BY <1>2, <2>2, <3>2, <3>3, <4>1
      <3>5. CursorPosition(q) = Len(t)
        BY <1>2, <1>3, <2>1, <2>2, <3>2
      <3> HIDE DEF r, t
      <3>6. r = FilePrompt(t, TRUE)
        BY <3>1 DEF t
      <3>7. GoodPrompt(r) /\ Rendered(r) = t /\ CursorPosition(r) = Len(t)
        BY <3>2, <3>4, <3>6, NewMention
      <3> QED BY <1>3, <3>5, <3>7 DEF r, t
    <2>3. CASE ~(c = AtSign /\ Preview(CommandOf(p)) /\ p.cursor = Len(s))
      <3>1. r = [q EXCEPT !.parsed = q.input]
        BY <1>8, <2>3 DEF Push, AtEnd, Reparse, q
      <3> HIDE DEF r
      <3>2. /\ r \in PromptType /\ r.kind = "Command" /\ r.input = q.input /\ r.parsed = q.input
            /\ r.cursor = q.cursor /\ r.matches = <<>>
        BY <1>3, <1>4, <1>8, <3>1 DEF PromptType
      <3>3. GoodPrompt(r)
        BY <1>3, <3>2 DEF GoodPrompt
      <3>4. Rendered(r) = Rendered(q) /\ CursorPosition(r) = CursorPosition(q)
        BY <2>1, <3>2 DEF Rendered, CursorPosition
      <3> QED BY <1>3, <3>3, <3>4 DEF r
    <2> QED BY <2>2, <2>3
  <1> QED BY <1>2, <1>5, <1>6, <1>7, <1>8

\* A paste is its characters typed one by one, whatever they turn the prompt into.
LEMMA PushStrShown ==
    ASSUME NEW p, GoodPrompt(p), NEW s \in Texts
    PROVE  /\ GoodPrompt(PushStr(p, s))
           /\ Rendered(PushStr(p, s)) = Spliced(Rendered(p), CursorPosition(p), s)
           /\ CursorPosition(PushStr(p, s)) = CursorPosition(p) + Len(s)
  <1> DEFINE n == Len(s)
             V == {q \in PromptType : GoodPrompt(q)}
             step == [a \in (1 .. n) \X V |-> Push(a[2], s[a[1]])]
             Table(c) == c = [t \in SUBSET (1 .. n) |->
                                IF t = {} THEN p
                                ELSE Push(c[t \ {Max(t)}], s[Max(t)])]
             table == CHOOSE c : Table(c)
  <1>1. s \in Seq(Chars) /\ n \in Nat /\ DOMAIN s = 1 .. n /\ \A k \in 1 .. n : s[k] \in Chars
    BY LenProperties, ElementOfSeq DEF Texts
  <1>2. PushStr(p, s) = table[1 .. n]
    BY <1>1 DEF PushStr, FoldLeft, MapThenFoldSet
  <1>3. ASSUME NEW q \in V, NEW c \in Chars
        PROVE  Push(q, c) \in V
    <2>1. GoodPrompt(Push(q, c))
      BY PushShown
    <2> QED BY <2>1 DEF GoodPrompt
  <1>4. p \in V
    BY DEF GoodPrompt
  <1> HIDE DEF n, V
  <1>5. step \in Steps(n, V)
    BY <1>1, <1>3 DEF Steps
  <1>6. Table(table)
    <2>1. PICK c : FoldsElements(c, n, V, p, step)
      BY <1>1, <1>4, <1>5, FoldElements
    <2>2. Table(c)
      BY <2>1 DEF FoldsElements
    <2> HIDE DEF Table
    <2> QED BY <2>2
  <1>7. PICK f : Results(f, n, V, p, step, table[1 .. n])
    <2> HIDE DEF table
    <2>1. table[{}] = p
      BY <1>6
    <2>2. ASSUME NEW t \in SUBSET (1 .. n), t # {}, Max(t) \in 1 .. n, table[t \ {Max(t)}] \in V
          PROVE  table[t] = step[<<Max(t), table[t \ {Max(t)}]>>]
      <3>1. table[t] = Push(table[t \ {Max(t)}], s[Max(t)])
        BY <1>6, <2>2
      <3>2. step[<<Max(t), table[t \ {Max(t)}]>>] = Push(table[t \ {Max(t)}], s[Max(t)])
        BY <2>2
      <3> QED BY <3>1, <3>2
    <2> HIDE DEF step, Table
    <2> QED BY <1>1, <1>4, <1>5, <2>1, <2>2, FoldStays
  <1> HIDE DEF table, Table
  <1>8. /\ f[0] = p /\ f[n] = PushStr(p, s) /\ \A k \in 0 .. n : GoodPrompt(f[k])
        /\ \A k \in 1 .. n : f[k] = Push(f[k - 1], s[k])
    <2>1. f[0] = p /\ f[n] = PushStr(p, s) /\ \A k \in 0 .. n : f[k] \in V
      BY <1>2, <1>7 DEF Results
    <2>2. ASSUME NEW k \in 1 .. n
          PROVE  f[k] = Push(f[k - 1], s[k])
      <3>1. k - 1 \in 0 .. n
        BY <1>1
      <3>2. f[k] = step[<<k, f[k - 1]>>] /\ f[k - 1] \in V
        BY <1>7, <2>1, <3>1 DEF Results
      <3> QED BY <3>2
    <2> QED BY <2>1, <2>2 DEF V
  <1> HIDE DEF step
  <1> DEFINE t == Rendered(p)
             m == CursorPosition(p)
             pasted == {k \in 0 .. n : /\ Rendered(f[k]) = Spliced(t, m, SubSeq(s, 1, k))
                                       /\ CursorPosition(f[k]) = m + k}
  <1>9. t \in Seq(Chars) /\ m \in 0 .. Len(t) /\ m \in Nat
    BY RenderedTyped DEF GoodPrompt, Texts
  <1> HIDE DEF t, m
  <1>10. 0 \in pasted
    <2>1. SubSeq(s, 1, 0) = <<>>
      BY SubSeqEmpty
    <2>2. Spliced(t, m, <<>>) = t
      <3>1. Len(t) \in Nat /\ SubSeq(t, 1, m) \in Seq(Chars)
        BY <1>9, LenProperties, Cut
      <3>2. SubSeq(t, 1, m) \o <<>> = SubSeq(t, 1, m)
        BY <3>1, ConcatEmptySeq
      <3>3. SubSeq(t, 1, m) \o SubSeq(t, m + 1, Len(t)) = SubSeq(t, 1, Len(t))
        <4>1. 1 \in 1 .. Len(t) + 1 /\ m \in 1 - 1 .. Len(t) /\ Len(t) \in m .. Len(t)
          BY <1>9, <3>1
        <4> QED BY <1>9, <4>1, ConcatAdjacentSubSeq
      <3>4. SubSeq(t, 1, Len(t)) = t
        BY <1>9, SubSeqFull
      <3> QED BY <3>2, <3>3, <3>4 DEF Spliced
    <2>3. Rendered(f[0]) = t /\ CursorPosition(f[0]) = m
      BY <1>8 DEF t, m
    <2>4. 0 \in 0 .. n /\ m + 0 = m
      BY <1>1, <1>9
    <2> QED BY <2>1, <2>2, <2>3, <2>4
  <1>11. ASSUME NEW k \in 0 .. n - 1, k \in pasted
         PROVE  k + 1 \in pasted
    <2>1. k + 1 \in 1 .. n /\ (k + 1) - 1 = k /\ k \in 0 .. n /\ k \in Nat /\ k + 1 \in 0 .. n
      BY <1>1
    <2> DEFINE u == SubSeq(s, 1, k)
               c == s[k + 1]
    <2>2. u \in Seq(Chars) /\ Len(u) = k /\ c \in Chars
      <3>1. k \in 0 .. Len(s)
        BY <2>1 DEF n
      <3> QED BY <1>1, <2>1, <3>1, Cut
    <2>3. SubSeq(s, 1, k + 1) = Append(u, c)
      <3>1. PICK j \in 1 .. Len(s) : j = k + 1
        BY <2>1 DEF n
      <3>2. 1 \in 1 .. Len(s) /\ j \in 1 .. Len(s)
        BY <2>1 DEF n
      <3>3. SubSeq(s, 1, j) = SubSeq(s, 1, j - 1) \o <<s[j]>>
        BY <1>1, <3>2, SubSeqRecursiveSecond
      <3>4. Append(u, c) = u \o <<c>>
        BY <2>2, AppendIsConcat
      <3> QED BY <2>1, <3>1, <3>3, <3>4
    <2> HIDE DEF u, c
    <2>4. f[k + 1] = Push(f[k], c) /\ GoodPrompt(f[k])
      BY <1>8, <2>1 DEF c
    <2>5. /\ Rendered(f[k + 1]) = Spliced(Rendered(f[k]), CursorPosition(f[k]), <<c>>)
          /\ CursorPosition(f[k + 1]) = CursorPosition(f[k]) + 1
      BY <2>2, <2>4, PushShown
    <2>6. Rendered(f[k]) = Spliced(t, m, u) /\ CursorPosition(f[k]) = m + k
      BY <1>11 DEF u
    <2>7. Spliced(Spliced(t, m, u), m + k, <<c>>) = Spliced(t, m, Append(u, c))
      BY <1>9, <2>2, SpliceMore
    <2>8. CursorPosition(f[k + 1]) = m + (k + 1)
      BY <1>9, <2>1, <2>5, <2>6
    <2> QED BY <2>1, <2>3, <2>5, <2>6, <2>7, <2>8
  <1>12. n \in pasted
    <2> HIDE DEF pasted
    <2>1. 0 .. n \subseteq pasted
      BY <1>1, <1>10, <1>11, UpTo
    <2> QED BY <1>1, <2>1
  <1>13. SubSeq(s, 1, n) = s
    BY <1>1, SubSeqFull DEF n
  <1>14. GoodPrompt(f[n])
    BY <1>1, <1>8
  <1> QED BY <1>8, <1>12, <1>13, <1>14 DEF n, t, m

\* The text one of the prompts before, or of a command in the list of help.
LEMMA ReplacedShown ==
    ASSUME NEW s \in Texts
    PROVE  LET q == ReplaceWithInput(s) IN
           GoodPrompt(q) /\ q.kind # "File" /\ Rendered(q) = s /\ CursorPosition(q) = Len(s)
  <1> DEFINE q == ReplaceWithInput(s)
  <1>1. s \in Seq(Chars) /\ Len(s) \in Nat
    BY LenProperties DEF Texts
  <1>2. CASE s = <<>>
    <2>1. q = EmptyPrompt
      BY <1>2 DEF ReplaceWithInput
    <2> HIDE DEF q
    <2> QED BY <1>2, <2>1, NewPrompts DEF q
  <1>3. CASE s # <<>> /\ Head(s) = Slash
    <2>1. q = CommandPrompt(Tail(s))
      BY <1>3 DEF ReplaceWithInput
    <2>2. /\ Tail(s) \in Texts /\ Len(Tail(s)) + 1 = Len(s)
          /\ <<Slash>> \o Tail(s) = s
      <3>1. s[1] = Slash
        BY <1>1, <1>3
      <3> QED BY <1>1, <1>3, <3>1, Behind, HeadTailProperties DEF Texts
    <2> HIDE DEF q
    <2> QED BY <2>1, <2>2, NewPrompts DEF q
  <1>4. CASE s # <<>> /\ Head(s) # Slash
    <2>1. q = TextPrompt(s)
      BY <1>4 DEF ReplaceWithInput
    <2> HIDE DEF q
    <2> QED BY <2>1, NewPrompts DEF q
  <1> QED BY <1>2, <1>3, <1>4

\* The character before the cursor is removed from what is rendered.
LEMMA RemovedShown ==
    ASSUME NEW p \in PromptType, p.cursor <= Len(p.input), p.cursor > 0
    PROVE  LET q == RemovedBefore(p) IN
           /\ q \in PromptType /\ q.cursor = p.cursor - 1 /\ q.matches = <<>>
           /\ q.cursor <= Len(q.input) /\ Len(q.input) = Len(p.input) - 1
           /\ q.input = RemoveAt(p.input, p.cursor)
           /\ q.kind = p.kind /\ q.start = p.start /\ q.command = p.command
           /\ q.parsed = p.parsed
           /\ Rendered(q) = RemoveAt(Rendered(p), CursorPosition(p))
           /\ CursorPosition(q) = CursorPosition(p) - 1
  <1> DEFINE q == RemovedBefore(p)
             s == p.input
             n == p.cursor
  <1>1. s \in Seq(Chars) /\ n \in 1 .. Len(s) /\ n \in Nat /\ Len(s) \in Nat
    BY PromptTyped DEF Texts
  <1>2. RemoveAt(s, n) \in Seq(Chars) /\ Len(RemoveAt(s, n)) = Len(s) - 1
    BY <1>1, Removal
  <1>3. q = [p EXCEPT !.input = RemoveAt(s, n), !.cursor = n - 1, !.matches = <<>>,
                      !.selected = 0]
    BY <1>1 DEF RemovedBefore
  <1> HIDE DEF q
  <1>4. q \in PromptType
    <2>1. <<>> \in Seq(Paths) /\ 0 \in Nat /\ n - 1 \in Nat /\ RemoveAt(s, n) \in Texts
      BY <1>1, <1>2 DEF Texts
    <2> QED BY <1>3, <2>1 DEF PromptType
  <1>5. /\ q.input = RemoveAt(s, n) /\ q.cursor = n - 1 /\ q.matches = <<>>
        /\ q.kind = p.kind /\ q.start = p.start /\ q.command = p.command /\ q.parsed = p.parsed
    BY <1>3 DEF PromptType
  <1>6. /\ Rendered(q) = RemoveAt(Rendered(p), CursorPosition(p))
        /\ CursorPosition(q) = CursorPosition(p) - 1
    <2>1. CASE p.kind = "Command"
      <3>1. Rendered(q) = <<Slash>> \o RemoveAt(s, n) /\ Rendered(p) = <<Slash>> \o s
        BY <1>5, <2>1 DEF Rendered
      <3>2. CursorPosition(p) = n + 1 /\ CursorPosition(q) = (n - 1) + 1
        BY <1>5, <2>1 DEF CursorPosition
      <3>3. <<Slash>> \o RemoveAt(s, n) = RemoveAt(<<Slash>> \o s, n + 1)
        BY <1>1, Alphabet, RemovalBehind
      <3>4. (n - 1) + 1 = (n + 1) - 1
        BY <1>1
      <3> QED BY <3>1, <3>2, <3>3, <3>4
    <2>2. CASE p.kind # "Command"
      <3>1. Rendered(q) = RemoveAt(s, n) /\ Rendered(p) = s
        BY <1>5, <2>2 DEF Rendered
      <3>2. CursorPosition(p) = n /\ CursorPosition(q) = n - 1
        BY <1>5, <2>2 DEF CursorPosition
      <3> QED BY <3>1, <3>2
    <2> QED BY <2>1, <2>2
  <1>7. q.cursor <= Len(q.input) /\ Len(q.input) = Len(s) - 1
    BY <1>1, <1>2, <1>5
  <1> QED BY <1>4, <1>5, <1>6, <1>7 DEF q

\* Backspace removes the character before the cursor, or does nothing.
LEMMA BackspaceShown ==
    ASSUME NEW p, GoodPrompt(p)
    PROVE  LET r == Backspace(p) IN
           /\ GoodPrompt(r)
           /\ \/ Rendered(r) = Rendered(p) /\ CursorPosition(r) = CursorPosition(p)
              \/ /\ CursorPosition(p) > 0
                 /\ Rendered(r) = RemoveAt(Rendered(p), CursorPosition(p))
                 /\ CursorPosition(r) = CursorPosition(p) - 1
  <1> DEFINE q == RemovedBefore(p)
             r == Backspace(p)
             s == p.input
  <1>1. /\ p \in PromptType /\ p.cursor <= Len(s) /\ s \in Seq(Chars) /\ s \in Texts
        /\ {p.cursor, p.start, Len(s)} \subseteq Nat
        /\ p.command \in BOOLEAN /\ p.kind \in {"Empty", "Text", "Command", "File"}
    BY PromptTyped DEF GoodPrompt, Texts
  <1>2. CASE p.kind = "Empty"
    <2>1. r = p
      BY <1>2 DEF Backspace
    <2> QED BY <2>1
  <1>3. CASE p.kind = "Command" /\ s = <<>>
    <2>1. r = EmptyPrompt
      BY <1>3 DEF Backspace
    <2>2. Rendered(p) = <<Slash>> /\ CursorPosition(p) = 1
      <3>1. <<Slash>> \o <<>> = <<Slash>> /\ p.cursor = 0
        BY <1>1, <1>3, Alphabet, ConcatEmptySeq
      <3> QED BY <1>3, <3>1 DEF Rendered, CursorPosition
    <2>3. RemoveAt(<<Slash>>, 1) = <<>>
      <3>1. PICK w \in Seq(Chars) : w = <<Slash>> /\ Len(w) = 1
        <4>1. Slash \in Chars
          BY Alphabet
        <4>2. <<Slash>> \in Seq(Chars) /\ Len(<<Slash>>) = 1
          BY <4>1
        <4> QED BY <4>2
      <3>2. 1 \in 1 .. Len(w)
        BY <3>1
      <3>3. RemoveAt(w, 1) \in Seq(Chars) /\ Len(RemoveAt(w, 1)) = Len(w) - 1
        BY <3>2, Removal
      <3> QED BY <3>1, <3>3, EmptySeq
    <2> HIDE DEF r
    <2> QED BY <2>1, <2>2, <2>3, NewPrompts DEF r
  <1>4. CASE p.kind # "Empty" /\ ~(p.kind = "Command" /\ s = <<>>) /\ p.cursor = 0
    <2>1. q = p
      BY <1>4 DEF RemovedBefore
    <2>2. p.kind # "File"
      BY <1>1, <1>4 DEF GoodPrompt, Mention
    <2>3. CASE p.kind = "Command"
      <3>1. r = [p EXCEPT !.parsed = s] /\ p.parsed = s
        BY <1>4, <2>1, <2>3 DEF Backspace, Reparse, GoodPrompt
      <3>2. r = p
        BY <1>1, <3>1 DEF PromptType
      <3> QED BY <3>2
    <2>4. CASE p.kind = "Text" /\ s # <<>>
      <3>1. r = p
        BY <2>1, <2>4 DEF Backspace
      <3> QED BY <3>1
    <2>5. CASE p.kind = "Text" /\ s = <<>>
      <3>1. r = EmptyPrompt
        BY <2>1, <2>5 DEF Backspace
      <3>2. Rendered(p) = <<>> /\ CursorPosition(p) = 0
        BY <1>4, <2>5 DEF Rendered, CursorPosition
      <3> QED BY <3>1, <3>2, NewPrompts
    <2> QED BY <1>1, <1>4, <2>2, <2>3, <2>4, <2>5
  <1>5. CASE p.kind # "Empty" /\ p.cursor > 0
    <2>1. /\ q \in PromptType /\ q.cursor = p.cursor - 1 /\ q.matches = <<>>
          /\ q.cursor <= Len(q.input) /\ Len(q.input) = Len(s) - 1
          /\ q.input = RemoveAt(s, p.cursor)
          /\ q.kind = p.kind /\ q.start = p.start /\ q.command = p.command
          /\ Rendered(q) = RemoveAt(Rendered(p), CursorPosition(p))
          /\ CursorPosition(q) = CursorPosition(p) - 1
      BY <1>1, <1>5, RemovedShown
    <2>2. CursorPosition(p) > 0 /\ s # <<>> /\ q.input \in Texts
      BY <1>1, <1>5, <2>1, PromptTyped DEF CursorPosition
    <2> DEFINE shown == Rendered(r) = Rendered(q) /\ CursorPosition(r) = CursorPosition(q)
    <2>3. SUFFICES GoodPrompt(r) /\ shown
      BY <2>1, <2>2
    <2> HIDE DEF q
    <2>4. CASE q.input = <<>> /\ p.kind \in {"Text", "File"}
      <3>1. r = EmptyPrompt
        BY <2>4 DEF Backspace, q
      <3>2. Rendered(q) = <<>> /\ CursorPosition(q) = 0
        <4>1. q.cursor \in Nat /\ Len(q.input) = 0 /\ q.kind \in {"Text", "File"}
          BY <2>1, <2>4, PromptTyped
        <4>2. q.cursor = 0
          <5>1. q.cursor <= Len(q.input)
            BY <2>1
          <5> QED BY <4>1, <5>1
        <4>3. q.kind # "Command"
          BY <4>1
        <4> QED BY <2>4, <4>2, <4>3 DEF Rendered, CursorPosition
      <3> QED BY <3>1, <3>2, NewPrompts
    <2>5. CASE q.input # <<>> /\ p.kind = "Text"
      <3>1. r = q
        BY <2>5 DEF Backspace, q
      <3>2. GoodPrompt(q)
        BY <2>1, <2>5 DEF GoodPrompt
      <3> QED BY <3>1, <3>2
    <2>6. CASE q.input # <<>> /\ p.kind = "File"
      <3>1. Mention(p)
        BY <2>6 DEF GoodPrompt
      <3>2. /\ q.cursor = Len(q.input) /\ Len(q.input) \in Nat /\ Len(q.input) # 0
            /\ \A i \in 1 .. Len(q.input) : q.input[i] = s[i]
        <4>1. p.cursor = Len(s) /\ p.cursor \in 1 .. Len(s)
          BY <1>1, <1>5, <3>1 DEF Mention
        <4>2. \A i \in 1 .. Len(s) - 1 : RemoveAt(s, p.cursor)[i] =
                                          IF i < p.cursor THEN s[i] ELSE s[i + 1]
          BY <1>1, <4>1, Removal
        <4>3. Len(q.input) \in Nat /\ Len(q.input) # 0
          BY <2>2, <2>6, EmptySeq DEF Texts
        <4> QED BY <1>1, <2>1, <4>1, <4>2, <4>3
      <3>3. q.command => q.start > 1 /\ q.input[1] = Slash
        <4>1. q.command => q.start > 1 /\ s[1] = Slash
          BY <2>1, <3>1 DEF Mention
        <4>2. 1 \in 1 .. Len(q.input)
          BY <3>2
        <4> QED BY <3>2, <4>1, <4>2
      <3>4. CASE q.cursor < q.start
        <4>1. r = WithoutFileAutocomplete(q)
          BY <2>6, <3>4 DEF Backspace, q
        <4> HIDE DEF r
        <4>2. /\ GoodPrompt(r) /\ Rendered(r) = q.input
              /\ CursorPosition(r) = IF q.command /\ q.cursor = 0 THEN 1 ELSE q.cursor
          BY <2>1, <2>6, <3>3, <4>1, WithoutShown
        <4>3. Rendered(q) = q.input /\ CursorPosition(q) = q.cursor
          BY <2>1, <2>6 DEF Rendered, CursorPosition
        <4> QED BY <3>2, <4>2, <4>3
      <3>5. CASE ~(q.cursor < q.start)
        <4>1. r = q
          BY <2>6, <3>5 DEF Backspace, q
        <4>2. q.start \in 1 .. Len(q.input)
          BY <1>1, <2>1, <3>1, <3>2, <3>5 DEF Mention
        <4>3. q.input[q.start] = AtSign
          BY <2>1, <3>1, <3>2, <4>2 DEF Mention
        <4>4. ASSUME NEW i \in q.start + 1 .. Len(q.input), q.input[i] \in White
              PROVE  q.input[i] \in PathChars
          <5>1. i \in 1 .. Len(q.input) /\ i \in p.start + 1 .. Len(s)
            BY <1>1, <2>1, <3>2, <4>2
          <5> QED BY <3>1, <3>2, <4>4, <5>1 DEF Mention
        <4>5. Mention(q)
          BY <3>2, <3>3, <4>2, <4>3, <4>4 DEF Mention
        <4>6. GoodPrompt(q)
          BY <2>1, <2>6, <4>5 DEF GoodPrompt
        <4> QED BY <4>1, <4>6
      <3> QED BY <3>4, <3>5
    <2>7. CASE p.kind = "Command"
      <3>1. r = [q EXCEPT !.parsed = q.input]
        BY <2>2, <2>7 DEF Backspace, Reparse, q
      <3> HIDE DEF r
      <3>2. /\ r \in PromptType /\ r.kind = "Command" /\ r.input = q.input /\ r.parsed = q.input
            /\ r.cursor = q.cursor /\ r.matches = <<>>
        BY <2>1, <2>2, <2>7, <3>1 DEF PromptType
      <3>3. GoodPrompt(r)
        BY <2>1, <3>2 DEF GoodPrompt
      <3>4. shown
        BY <2>1, <2>7, <3>2 DEF Rendered, CursorPosition
      <3> QED BY <3>3, <3>4
    <2> QED BY <1>1, <1>5, <2>4, <2>5, <2>6, <2>7
  <1> QED BY <1>1, <1>2, <1>3, <1>4, <1>5

\* Delete removes the character behind the cursor, or does nothing.
LEMMA DeleteShown ==
    ASSUME NEW p, GoodPrompt(p)
    PROVE  LET r == Delete(p) IN
           /\ GoodPrompt(r)
           /\ \/ Rendered(r) = Rendered(p) /\ CursorPosition(r) = CursorPosition(p)
              \/ /\ CursorPosition(p) < Len(Rendered(p))
                 /\ Rendered(r) = RemoveAt(Rendered(p), CursorPosition(p) + 1)
                 /\ CursorPosition(r) = CursorPosition(p)
  <1> DEFINE s == p.input
             n == p.cursor
             q == [p EXCEPT !.input = RemoveAt(s, n + 1)]
             r == Delete(p)
  <1>1. /\ p \in PromptType /\ n <= Len(s) /\ s \in Seq(Chars) /\ s \in Texts
        /\ {n, Len(s)} \subseteq Nat /\ p.matches \in Seq(Paths)
        /\ p.kind \in {"Empty", "Text", "Command", "File"}
    BY PromptTyped DEF GoodPrompt, Texts
  <1>2. CASE p.kind \in {"Empty", "File"}
    <2>1. r = p
      BY <1>2 DEF Delete
    <2> QED BY <2>1
  <1>3. CASE n = Len(s) /\ p.kind = "Text"
    <2>1. r = IF s = <<>> THEN EmptyPrompt ELSE p
      BY <1>3 DEF Delete, AtEnd
    <2>2. CASE s = <<>>
      <3>1. Rendered(p) = <<>> /\ CursorPosition(p) = 0
        BY <1>3, <2>2 DEF Rendered, CursorPosition
      <3> QED BY <2>1, <2>2, <3>1, NewPrompts
    <2> QED BY <2>1, <2>2
  <1>4. CASE n = Len(s) /\ p.kind = "Command"
    <2>1. r = [p EXCEPT !.parsed = s] /\ p.parsed = s
      BY <1>4 DEF Delete, AtEnd, Reparse, GoodPrompt
    <2>2. r = p
      BY <1>1, <2>1 DEF PromptType
    <2> QED BY <2>2
  <1>5. CASE n # Len(s) /\ p.kind \in {"Text", "Command"}
    <2>1. n + 1 \in 1 .. Len(s)
      BY <1>1, <1>5
    <2>2. /\ RemoveAt(s, n + 1) \in Texts /\ RemoveAt(s, n + 1) \in Seq(Chars)
          /\ Len(RemoveAt(s, n + 1)) = Len(s) - 1
      <3>1. PICK k \in 1 .. Len(s) : k = n + 1
        BY <2>1
      <3>2. RemoveAt(s, k) \in Seq(Chars) /\ Len(RemoveAt(s, k)) = Len(s) - 1
        BY <1>1, Removal
      <3> QED BY <3>1, <3>2 DEF Texts
    <2>3. /\ q \in PromptType /\ q.input = RemoveAt(s, n + 1) /\ q.cursor = n /\ q.kind = p.kind
          /\ q.matches = p.matches /\ q.selected = p.selected
      BY <1>1, <2>2 DEF PromptType
    <2> HIDE DEF q
    <2>4. n <= Len(q.input)
      BY <1>1, <1>5, <2>2, <2>3
    <2>5. CASE p.kind = "Text"
      <3>1. r = IF q.input = <<>> THEN EmptyPrompt ELSE q
        BY <1>5, <2>5 DEF Delete, AtEnd, q
      <3>2. Rendered(p) = s /\ CursorPosition(p) = n
        BY <2>5 DEF Rendered, CursorPosition
      <3>3. CASE q.input = <<>>
        <4>1. n = 0
          BY <1>1, <2>3, <2>4, <3>3
        <4> QED BY <1>1, <1>5, <2>3, <3>1, <3>2, <3>3, <4>1, NewPrompts
      <3>4. CASE q.input # <<>>
        <4>1. GoodPrompt(q)
          BY <2>3, <2>4, <2>5 DEF GoodPrompt
        <4>2. Rendered(q) = q.input /\ CursorPosition(q) = n
          BY <2>3, <2>5 DEF Rendered, CursorPosition
        <4> QED BY <1>1, <1>5, <2>3, <3>1, <3>2, <3>4, <4>1, <4>2
      <3> QED BY <3>3, <3>4
    <2>6. CASE p.kind = "Command"
      <3>1. r = [q EXCEPT !.parsed = q.input]
        BY <1>5, <2>6 DEF Delete, AtEnd, Reparse, q
      <3> HIDE DEF r
      <3>2. /\ r \in PromptType /\ r.kind = "Command" /\ r.input = q.input /\ r.parsed = q.input
            /\ r.cursor = n /\ r.matches = p.matches /\ r.selected = p.selected
        BY <2>2, <2>3, <2>6, <3>1 DEF PromptType
      <3>3. GoodPrompt(r)
        BY <2>4, <3>2 DEF GoodPrompt
      <3>4. Rendered(p) = <<Slash>> \o s /\ CursorPosition(p) = n + 1
        BY <2>6 DEF Rendered, CursorPosition
      <3>5. Rendered(r) = <<Slash>> \o RemoveAt(s, n + 1) /\ CursorPosition(r) = n + 1
        BY <2>3, <3>2 DEF Rendered, CursorPosition
      <3>6. PICK k \in 1 .. Len(s) : k = n + 1
        BY <2>1
      <3>7. <<Slash>> \o RemoveAt(s, k) = RemoveAt(<<Slash>> \o s, k + 1)
        BY <1>1, Alphabet, RemovalBehind
      <3>8. Len(<<Slash>> \o s) = Len(s) + 1
        BY <1>1, Alphabet, Before
      <3>9. n + 1 < Len(s) + 1
        BY <1>1, <1>5
      <3> QED BY <3>3, <3>4, <3>5, <3>6, <3>7, <3>8, <3>9 DEF r
    <2> QED BY <1>5, <2>5, <2>6
  <1> QED BY <1>1, <1>2, <1>3, <1>4, <1>5

\* The keys of the cursor keep what is rendered.
CursorMoved(p, r) ==
    /\ GoodPrompt(r) /\ Rendered(r) = Rendered(p)
    /\ CursorPosition(r) \in 0 .. Len(Rendered(p))

LEMMA MoveShown ==
    ASSUME NEW p, GoodPrompt(p), NEW n \in 0 .. Len(p.input)
    PROVE  CursorMoved(p, MoveTo(p, n)) /\ CursorMoved(p, MoveAway(p, n))
  <1> DEFINE s == p.input
             q == [p EXCEPT !.cursor = n]
  <1>1. /\ p \in PromptType /\ p.cursor <= Len(s) /\ s \in Seq(Chars) /\ s \in Texts
        /\ {n, p.cursor, Len(s)} \subseteq Nat /\ p.command \in BOOLEAN
        /\ p.kind \in {"Empty", "Text", "Command", "File"}
    BY PromptTyped DEF GoodPrompt, Texts
  <1>2. /\ q \in PromptType /\ q.input = s /\ q.cursor = n /\ q.kind = p.kind
        /\ q.command = p.command /\ q.matches = p.matches /\ q.selected = p.selected
        /\ q.start = p.start /\ q.parsed = p.parsed
    BY <1>1 DEF PromptType
  <1>3. /\ Len(Rendered(p)) = IF p.kind = "Command" THEN Len(s) + 1 ELSE Len(s)
        /\ Rendered(q) = Rendered(p)
        /\ CursorPosition(q) = IF p.kind = "Command" THEN n + 1 ELSE n
    BY <1>1, <1>2, RenderedTyped DEF Rendered, CursorPosition
  <1>4. CursorPosition(q) \in 0 .. Len(Rendered(p))
    BY <1>1, <1>3
  <1>5. p.kind = "Empty" => q = p
    <2>1. ASSUME p.kind = "Empty"
          PROVE  n = p.cursor
      BY <1>1, <2>1 DEF GoodPrompt, EmptyPrompt, Prompt
    <2> QED BY <1>1, <2>1 DEF PromptType
  <1>6. p.kind = "File" => CursorMoved(p, WithoutFileAutocomplete(q))
    <2>1. SUFFICES ASSUME p.kind = "File"
                   PROVE  CursorMoved(p, WithoutFileAutocomplete(q))
      OBVIOUS
    <2> DEFINE r == WithoutFileAutocomplete(q)
    <2>2. Mention(p)
      BY <2>1 DEF GoodPrompt
    <2>3. q.command => s # <<>> /\ s[1] = Slash
      BY <1>1, <1>2, <2>2 DEF Mention
    <2> HIDE DEF q
    <2>4. /\ GoodPrompt(r) /\ Rendered(r) = s
          /\ CursorPosition(r) = IF q.command /\ n = 0 THEN 1 ELSE n
      BY <1>1, <1>2, <2>3, WithoutShown
    <2>5. Rendered(p) = s /\ Len(s) # 0
      BY <1>1, <2>1, <2>2 DEF Rendered, Mention
    <2>6. CursorPosition(r) \in 0 .. Len(s)
      BY <1>1, <2>4, <2>5
    <2> HIDE DEF r
    <2> QED BY <2>4, <2>5, <2>6 DEF CursorMoved, r
  <1>7. (p.kind # "File" \/ n = Len(s)) => CursorMoved(p, q)
    <2>1. SUFFICES ASSUME p.kind # "File" \/ n = Len(s)
                   PROVE  GoodPrompt(q)
      BY <1>3, <1>4 DEF CursorMoved
    <2> HIDE DEF q
    <2>2. p.kind = "File" => Mention(q)
      BY <1>2, <2>1 DEF GoodPrompt, Mention
    <2> QED BY <1>1, <1>2, <1>5, <2>2 DEF GoodPrompt
  <1>8. CursorMoved(p, MoveTo(p, n))
    <2>1. AtEnd(q) <=> n = Len(s)
      BY <1>2 DEF AtEnd
    <2>2. MoveTo(p, n) = IF p.kind = "File" /\ n # Len(s) THEN WithoutFileAutocomplete(q) ELSE q
      BY <2>1 DEF MoveTo
    <2> HIDE DEF q
    <2> QED BY <1>6, <1>7, <2>2
  <1>9. CursorMoved(p, MoveAway(p, n))
    <2>1. MoveAway(p, n) = IF p.kind = "File" THEN WithoutFileAutocomplete(q) ELSE q
      BY DEF MoveAway
    <2> HIDE DEF q
    <2> QED BY <1>6, <1>7, <2>1
  <1> QED BY <1>8, <1>9

LEMMA ModuloLess ==
    ASSUME NEW a \in Nat, NEW b \in Nat, b > 0
    PROVE  a % b \in Nat /\ a % b < b
  OBVIOUS

LEMMA ReverseTyped ==
    ASSUME NEW S, NEW s \in Seq(S)
    PROVE  Reverse(s) \in Seq(S)
  <1>1. Len(s) \in Nat /\ \A i \in 1 .. Len(s) : s[i] \in S
    BY LenProperties, ElementOfSeq
  <1>2. \A i \in 1 .. Len(s) : (Len(s) - i) + 1 \in 1 .. Len(s)
    BY <1>1
  <1>3. Reverse(s) \in [1 .. Len(s) -> S]
    BY <1>1, <1>2 DEF Reverse
  <1> QED BY <1>1, <1>3

LEMMA Smallest ==
    ASSUME NEW S, S \subseteq Nat, S # {}
    PROVE  Min(S) \in S /\ \A x \in S : Min(S) <= x
  <1>1. PICK m \in S : \A x \in S : m <= x
    BY Least
  <1> QED BY <1>1 DEF Min

\* The row of the cursor begins at or before it, and the next row behind it.
LEMMA Rows ==
    ASSUME NEW s \in Seq(Chars), NEW k \in 0 .. Len(s)
    PROVE  RowStart(s, k) \in 0 .. k /\ NextRow(s, k) \in k + 1 .. Len(s) + 1
  <1>1. Len(s) \in Nat /\ DOMAIN s = 1 .. Len(s) /\ k \in Nat
    BY LenProperties
  <1>2. RowStart(s, k) \in 0 .. k
    <2> DEFINE I == {0} \cup {i \in Breaks(s) : i <= k}
    <2>1. I \subseteq 0 .. k /\ I # {}
      BY <1>1 DEF Breaks
    <2> HIDE DEF I
    <2>2. Max(I) \in I
      BY <1>1, <2>1, Greatest
    <2> QED BY <2>1, <2>2 DEF RowStart, I
  <1>3. NextRow(s, k) \in k + 1 .. Len(s) + 1
    <2> DEFINE I == {Len(s) + 1} \cup {i \in Breaks(s) : i > k}
    <2>1. I \subseteq k + 1 .. Len(s) + 1 /\ I # {} /\ I \subseteq Nat
      BY <1>1 DEF Breaks
    <2> HIDE DEF I
    <2>2. Min(I) \in I
      BY <2>1, Smallest
    <2> QED BY <2>1, <2>2 DEF NextRow, I
  <1> QED BY <1>2, <1>3

LEMMA VerticalShown ==
    ASSUME NEW p, GoodPrompt(p), NEW above \in BOOLEAN
    PROVE  LET q == MoveVertical(p, above) IN
           CursorMoved(p, q) /\ (q = p \/ \E n \in 0 .. Len(p.input) : q = MoveTo(p, n))
  <1> DEFINE s == p.input
             n == Len(s)
             start == RowStart(s, p.cursor)
             column == p.cursor - start
             target == IF above THEN RowStart(s, start - 1) ELSE NextRow(s, p.cursor)
             room == NextRow(s, target) - target - 1
             to == target + (IF column < room THEN column ELSE room)
             stays == (above /\ start = 0) \/ (~above /\ target > n)
  <1>1. s \in Seq(Chars) /\ p.cursor \in 0 .. n /\ n \in Nat /\ p \in PromptType
    BY PromptTyped DEF GoodPrompt, Texts
  <1>2. MoveVertical(p, above) = IF stays THEN p ELSE MoveTo(p, to)
    BY DEF MoveVertical
  <1>3. start \in 0 .. p.cursor
    BY <1>1, Rows
  <1> HIDE DEF start
  <1>4. ~stays => target \in 0 .. n
    <2>1. ASSUME above, start # 0
          PROVE  RowStart(s, start - 1) \in 0 .. n
      <3>1. start - 1 \in 0 .. n
        BY <1>1, <1>3, <2>1
      <3>2. RowStart(s, start - 1) \in 0 .. start - 1
        BY <1>1, <3>1, Rows
      <3> QED BY <1>1, <3>1, <3>2
    <2>2. NextRow(s, p.cursor) \in p.cursor + 1 .. n + 1
      BY <1>1, Rows
    <2> QED BY <1>1, <2>1, <2>2
  <1> HIDE DEF target
  <1>5. ~stays => to \in 0 .. n
    <2>1. SUFFICES ASSUME ~stays
                   PROVE  to \in 0 .. n
      OBVIOUS
    <2>2. NextRow(s, target) \in target + 1 .. n + 1
      BY <1>1, <1>4, <2>1, Rows
    <2>3. target \in 0 .. n
      BY <1>4, <2>1
    <2> QED BY <1>1, <1>3, <2>2, <2>3, SMTT(30)
  <1> HIDE DEF to, stays
  <1>6. CursorMoved(p, p)
    BY <1>1, RenderedTyped DEF CursorMoved, GoodPrompt
  <1>7. ASSUME ~stays
        PROVE  CursorMoved(p, MoveTo(p, to))
    BY <1>5, <1>7, MoveShown
  <1> QED BY <1>2, <1>5, <1>6, <1>7

LEMMA PathsTyped ==
    Paths \subseteq Texts
  <1>1. ASSUME NEW d \in DOMAIN Listing, NEW i \in DOMAIN Listing[d]
        PROVE  d \o Listing[d][i] \in Texts
    <2>1. d \in Seq(Chars) /\ Listing[d] \in Seq(Texts)
      BY TerminalAssumption DEF Texts
    <2>2. Listing[d][i] \in Seq(Chars)
      BY <2>1, ElementOfSeq, LenProperties DEF Texts
    <2> QED BY <2>1, <2>2, ConcatProperties DEF Texts
  <1>2. ASSUME NEW path \in Paths
        PROVE  path \in Texts
    <2>1. PICK d \in DOMAIN Listing : path \in {d \o Listing[d][i] : i \in DOMAIN Listing[d]}
      BY Zenon DEF Paths
    <2> QED BY <1>1, <2>1
  <1> QED BY <1>2

\* The offered paths are those of files, whatever was typed.
LEMMA MatchesTyped ==
    ASSUME NEW query
    PROVE  FileMatches(query) \in Seq(Paths)
  <1> DEFINE parent == Parent(query)
             prefix == SubSeq(query, Len(parent) + 1, Len(query))
             names == Listing[parent]
             n == Len(names)
             V == Seq(Paths)
             match(paths, i) ==
               IF IsPrefix(prefix, names[i]) THEN Append(paths, parent \o names[i]) ELSE paths
             step == [a \in (1 .. n) \X V |-> match(a[2], a[1])]
             Table(c) == c = [t \in SUBSET (1 .. n) |->
                                IF t = {} THEN <<>> ELSE match(c[t \ {Max(t)}], Max(t))]
             table == CHOOSE c : Table(c)
  <1>1. CASE parent \notin DOMAIN Listing
    <2>1. FileMatches(query) = <<>>
      BY <1>1 DEF FileMatches
    <2> QED BY <2>1
  <1>2. CASE parent \in DOMAIN Listing
    <2>1. names \in Seq(Texts) /\ n \in Nat /\ DOMAIN names = 1 .. n
      BY <1>2, TerminalAssumption, LenProperties
    <2>2. \A i \in 1 .. n : parent \o names[i] \in Paths
      BY <1>2, <2>1 DEF Paths
    <2>3. FileMatches(query) = table[1 .. n]
      BY <1>2, <2>1 DEF FileMatches, FoldLeft, MapThenFoldSet
    <2> HIDE DEF prefix, names, n, parent
    <2>4. ASSUME NEW i \in 1 .. n, NEW paths \in V
          PROVE  match(paths, i) \in V
      BY <2>2, AppendProperties
    <2>5. <<>> \in V
      OBVIOUS
    <2> HIDE DEF V, match
    <2>6. step \in Steps(n, V)
      BY <2>4 DEF Steps
    <2>7. Table(table)
      <3>1. PICK c : FoldsElements(c, n, V, <<>>, step)
        BY <2>1, <2>5, <2>6, FoldElements
      <3>2. Table(c)
        BY <3>1 DEF FoldsElements
      <3> HIDE DEF Table
      <3> QED BY <3>2
    <2>8. table[1 .. n] \in V
      <3> HIDE DEF table
      <3>1. table[{}] = <<>>
        BY <2>7
      <3>2. ASSUME NEW t \in SUBSET (1 .. n), t # {}, Max(t) \in 1 .. n, table[t \ {Max(t)}] \in V
            PROVE  table[t] = step[<<Max(t), table[t \ {Max(t)}]>>]
        <4>1. table[t] = match(table[t \ {Max(t)}], Max(t))
          BY <2>7, <3>2
        <4>2. step[<<Max(t), table[t \ {Max(t)}]>>] = match(table[t \ {Max(t)}], Max(t))
          BY <3>2
        <4> QED BY <4>1, <4>2
      <3> HIDE DEF step, Table
      <3> QED BY <2>1, <2>5, <2>6, <3>1, <3>2, FoldStays
    <2> QED BY <2>3, <2>8 DEF V
  <1> QED BY <1>1, <1>2

-----------------------------------------------------------------------------
(* Terminal: completion *)

\* Only the matches and the selected one differ.
SameText(p, q) ==
    /\ q.kind = p.kind /\ q.input = p.input /\ q.cursor = p.cursor /\ q.start = p.start
    /\ q.command = p.command /\ q.parsed = p.parsed

LEMMA SameShown ==
    ASSUME NEW p, NEW q, GoodPrompt(p), q \in PromptType, SameText(p, q), p.kind # "Empty",
           q.matches # <<>> => q.selected < Len(q.matches)
    PROVE  /\ GoodPrompt(q) /\ Rendered(q) = Rendered(p) /\ CursorPosition(q) = CursorPosition(p)
           /\ Query(q) = Query(p)
  <1>1. Rendered(q) = Rendered(p) /\ CursorPosition(q) = CursorPosition(p) /\ Query(q) = Query(p)
    BY DEF SameText, Rendered, CursorPosition, Query
  <1>2. p.kind = "File" => Mention(q)
    BY DEF SameText, GoodPrompt, Mention
  <1> QED BY <1>1, <1>2 DEF GoodPrompt, SameText

\* The matches that are read again, with the selected one if it is still there.
LEMMA RefreshShown ==
    ASSUME NEW p, GoodPrompt(p)
    PROVE  LET q == RefreshFileAutocomplete(p) IN
           /\ GoodPrompt(q) /\ Matched(q) /\ q.kind = p.kind
           /\ Rendered(q) = Rendered(p) /\ CursorPosition(q) = CursorPosition(p)
  <1> DEFINE q == RefreshFileAutocomplete(p)
             matches == FileMatches(Query(p))
             kept == {i \in DOMAIN matches :
                        /\ p.selected + 1 \in DOMAIN p.matches
                        /\ matches[i] = p.matches[p.selected + 1]}
             selected == IF kept = {} THEN 0 ELSE Min(kept) - 1
  <1>1. CASE p.kind # "File"
    <2>1. q = p
      BY <1>1 DEF RefreshFileAutocomplete
    <2> HIDE DEF q
    <2> QED BY <1>1, <2>1 DEF Matched, q
  <1>2. CASE p.kind = "File"
    <2>1. q = [p EXCEPT !.matches = matches, !.selected = selected]
      BY <1>2 DEF RefreshFileAutocomplete, ReplaceMatches
    <2>2. /\ matches \in Seq(Paths) /\ Len(matches) \in Nat
          /\ DOMAIN matches = 1 .. Len(matches)
      BY MatchesTyped, LenProperties
    <2> HIDE DEF q, matches
    <2>3. selected \in Nat /\ (matches # <<>> => selected < Len(matches))
      <3>1. kept \subseteq 1 .. Len(matches) /\ kept \subseteq Nat
        BY <2>2
      <3> HIDE DEF kept
      <3>2. CASE kept = {}
        BY <2>2, <3>2, EmptySeq
      <3>3. CASE kept # {}
        <4>1. Min(kept) \in kept
          BY <3>1, <3>3, Smallest
        <4>2. PICK k \in 1 .. Len(matches) : k = Min(kept)
          BY <3>1, <4>1
        <4>3. selected = k - 1 /\ k - 1 \in Nat /\ k - 1 < Len(matches)
          BY <2>2, <3>3, <4>2
        <4> QED BY <4>3
      <3> QED BY <3>2, <3>3
    <2> HIDE DEF selected
    <2>4. p \in PromptType
      BY DEF GoodPrompt
    <2>5. q \in PromptType
      BY <2>1, <2>2, <2>3, <2>4 DEF PromptType
    <2>6. q.matches = matches /\ q.selected = selected /\ SameText(p, q)
      BY <2>1, <2>4 DEF PromptType, SameText
    <2>7. /\ GoodPrompt(q) /\ Rendered(q) = Rendered(p) /\ CursorPosition(q) = CursorPosition(p)
          /\ Query(q) = Query(p)
      BY <1>2, <2>3, <2>5, <2>6, SameShown
    <2>8. Matched(q) /\ q.kind = p.kind
      BY <2>6, <2>7 DEF Matched, SameText, matches
    <2> QED BY <2>7, <2>8 DEF q
  <1> QED BY <1>1, <1>2

\* The selection goes round in the list.
LEMMA CycleShown ==
    ASSUME NEW p, GoodPrompt(p), Matched(p), p.kind = "File", NEW step \in Nat
    PROVE  LET q == CycleMatch(p, step) IN
           /\ GoodPrompt(q) /\ Matched(q)
           /\ Rendered(q) = Rendered(p) /\ CursorPosition(q) = CursorPosition(p)
  <1> DEFINE q == CycleMatch(p, step)
             n == Len(p.matches)
             selected == (p.selected + step) % n
  <1>1. CASE p.matches = <<>>
    BY <1>1 DEF CycleMatch
  <1>2. CASE p.matches # <<>>
    <2>1. p \in PromptType /\ p.matches \in Seq(Paths) /\ p.selected \in Nat /\ n \in Nat /\ n > 0
      <3>1. p \in PromptType
        BY DEF GoodPrompt
      <3>2. p.matches \in Seq(Paths) /\ p.selected \in Nat /\ n \in Nat
        BY <3>1, PromptTyped
      <3> QED BY <1>2, <3>1, <3>2, EmptySeq
    <2>2. selected \in Nat /\ selected < n
      <3>1. p.selected + step \in Nat
        BY <2>1
      <3> HIDE DEF n
      <3> QED BY <2>1, <3>1, ModuloLess
    <2>3. q = [p EXCEPT !.selected = selected]
      BY <1>2, <2>1 DEF CycleMatch, PromptType
    <2> HIDE DEF q, selected
    <2>4. q \in PromptType /\ q.matches = p.matches /\ q.selected = selected /\ SameText(p, q)
      BY <2>1, <2>2, <2>3 DEF PromptType, SameText
    <2>5. /\ GoodPrompt(q) /\ Rendered(q) = Rendered(p) /\ CursorPosition(q) = CursorPosition(p)
          /\ Query(q) = Query(p)
      BY <2>2, <2>4, SameShown
    <2>6. Matched(q)
      BY <2>4, <2>5 DEF Matched
    <2> QED BY <2>5, <2>6 DEF q
  <1> QED BY <1>1, <1>2

\* A path takes the place of what was typed behind the "@".
LEMMA AcceptFileShown ==
    ASSUME NEW p, GoodPrompt(p), p.kind = "File"
    PROVE  LET q == AcceptFile(p) IN
           /\ GoodPrompt(q) /\ q.kind = "File"
           /\ \/ q = p
              \/ /\ p.start \in 0 .. CursorPosition(p)
                 /\ \E s \in Paths : Rendered(q) = SubSeq(Rendered(p), 1, p.start) \o s
                 /\ CursorPosition(q) = Len(Rendered(q))
  <1> DEFINE q == AcceptFile(p)
             s == p.matches[p.selected + 1]
             head == SubSeq(p.input, 1, p.start)
             input == head \o s
  <1>1. CASE p.matches = <<>>
    BY <1>1 DEF AcceptFile
  <1>2. CASE p.matches # <<>>
    <2>1. p \in PromptType /\ Mention(p)
      BY DEF GoodPrompt
    <2>2. /\ p.input \in Seq(Chars) /\ Len(p.input) \in Nat /\ p.matches \in Seq(Paths)
          /\ {p.start, p.cursor, p.selected, Len(p.matches)} \subseteq Nat
      BY <2>1, PromptTyped DEF Texts
    <2>3. s \in Paths /\ s \in Seq(Chars) /\ Len(s) \in Nat
      <3>1. p.selected + 1 \in 1 .. Len(p.matches)
        BY <1>2, <2>2 DEF GoodPrompt
      <3>2. s \in Paths
        BY <2>2, <3>1, ElementOfSeq
      <3> QED BY <3>2, PathsTyped, LenProperties DEF Texts
    <2>4. /\ p.start \in 1 .. Len(p.input) /\ p.start \in 0 .. Len(p.input)
          /\ p.cursor = Len(p.input) /\ p.input[p.start] = AtSign
          /\ p.command => p.start > 1 /\ p.input[1] = Slash
      BY <2>1, <2>2 DEF Mention
    <2>5. /\ head \in Seq(Chars) /\ Len(head) = p.start
          /\ \A i \in 1 .. p.start : head[i] = p.input[i]
      BY <2>2, <2>4, Cut
    <2>6. /\ q = [p EXCEPT !.input = input, !.cursor = Len(input), !.matches = <<>>,
                           !.selected = 0]
      BY <1>2 DEF AcceptFile
    <2> HIDE DEF q, s, head
    <2>7. /\ input \in Seq(Chars) /\ Len(input) = p.start + Len(s)
          /\ \A i \in 1 .. p.start + Len(s) :
               input[i] = IF i <= p.start THEN head[i] ELSE s[i - p.start]
      <3>1. /\ input \in Seq(Chars) /\ Len(input) = Len(head) + Len(s)
            /\ \A i \in 1 .. Len(head) + Len(s) :
                 input[i] = IF i <= Len(head) THEN head[i] ELSE s[i - Len(head)]
        BY <2>3, <2>5, ConcatProperties
      <3> QED BY <2>5, <3>1
    <2> HIDE DEF input
    <2>8. Len(input) \in Nat /\ input \in Texts /\ <<>> \in Seq(Paths)
      BY <2>2, <2>3, <2>7 DEF Texts
    <2>9. q \in PromptType
      BY <2>1, <2>6, <2>8 DEF PromptType
    <2>10. /\ q.kind = "File" /\ q.input = input /\ q.cursor = Len(input) /\ q.matches = <<>>
           /\ q.start = p.start /\ q.command = p.command
      BY <2>1, <2>6 DEF PromptType
    <2>11. Mention(q)
      <3>1. p.start \in 1 .. Len(input)
        BY <2>2, <2>3, <2>4, <2>7
      <3>2. input[p.start] = AtSign
        <4>1. p.start \in 1 .. p.start + Len(s) /\ p.start <= p.start /\ p.start \in 1 .. p.start
          BY <2>2, <2>3, <2>4
        <4>2. input[p.start] = head[p.start] /\ head[p.start] = p.input[p.start]
          BY <2>5, <2>7, <4>1
        <4> QED BY <2>4, <4>2
      <3>3. ASSUME NEW i \in p.start + 1 .. Len(input)
            PROVE  input[i] \in PathChars
        <4>1. i - p.start \in 1 .. Len(s)
          BY <2>2, <2>3, <2>7, <3>3
        <4>2. input[i] = s[i - p.start]
          BY <2>2, <2>3, <2>7, <3>3
        <4>3. s[i - p.start] \in Range(s)
          BY <2>3, <4>1, LenProperties DEF Range
        <4> QED BY <2>3, <4>2, <4>3 DEF PathChars
      <3>4. p.command => p.start > 1 /\ input[1] = Slash
        <4>1. 1 \in 1 .. p.start /\ 1 \in 1 .. p.start + Len(s) /\ 1 <= p.start
          BY <2>2, <2>3, <2>4
        <4>2. input[1] = p.input[1]
          BY <2>5, <2>7, <4>1
        <4> QED BY <2>4, <4>2
      <3> QED BY <2>10, <3>1, <3>2, <3>3, <3>4 DEF Mention
    <2>12. GoodPrompt(q)
      BY <2>8, <2>9, <2>10, <2>11 DEF GoodPrompt
    <2>13. Rendered(q) = input /\ CursorPosition(q) = Len(input)
      BY <2>10 DEF Rendered, CursorPosition
    <2>14. Rendered(p) = p.input /\ CursorPosition(p) = p.cursor
      BY DEF Rendered, CursorPosition
    <2>15. Rendered(q) = SubSeq(Rendered(p), 1, p.start) \o s
      BY <2>13, <2>14 DEF input, head
    <2> QED BY <2>3, <2>4, <2>10, <2>12, <2>13, <2>14, <2>15 DEF q
  <1> QED BY <1>1, <1>2

LEMMA NamesTyped ==
    Range(Names) \subseteq Texts
  <1>1. Names \in Seq(Seq(Letters)) /\ Letters \subseteq Chars
    BY TerminalAssumption DEF Chars
  <1>2. ASSUME NEW i \in DOMAIN Names
        PROVE  Names[i] \in Texts
    <2>1. Names[i] \in Seq(Letters)
      BY <1>1, LenProperties, ElementOfSeq
    <2>2. /\ Names[i] \in [1 .. Len(Names[i]) -> Chars] /\ Len(Names[i]) \in Nat
      BY <1>1, <2>1
    <2> QED BY <2>2 DEF Texts
  <1> QED BY <1>2 DEF Range

\* The word is a first part of the text.
LEMMA WordTyped ==
    ASSUME NEW s \in Texts
    PROVE  Word(s) \in Texts /\ Len(Word(s)) \in 0 .. Len(s)
  <1> DEFINE I == {i \in 1 .. Len(s) : s[i] \in White}
  <1>1. s \in Seq(Chars) /\ Len(s) \in Nat
    BY LenProperties DEF Texts
  <1>2. Word(s) = IF (IF I # {} THEN Min(I) ELSE 0) = 0 THEN s
                  ELSE SubSeq(s, 1, (IF I # {} THEN Min(I) ELSE 0) - 1)
    BY DEF Word, SelectInSeq
  <1>3. CASE I = {}
    BY <1>1, <1>2, <1>3
  <1>4. CASE I # {}
    <2>1. I \subseteq Nat
      BY <1>1
    <2> HIDE DEF I
    <2>2. Min(I) \in I
      BY <1>4, <2>1, Smallest
    <2>3. PICK k \in 0 .. Len(s) : Min(I) = k + 1
      <3>1. Min(I) \in 1 .. Len(s)
        BY <2>2 DEF I
      <3>2. Min(I) - 1 \in 0 .. Len(s) /\ Min(I) = (Min(I) - 1) + 1
        BY <1>1, <3>1
      <3> QED BY <3>2
    <2>4. Word(s) = SubSeq(s, 1, k)
      BY <1>1, <1>2, <1>4, <2>3
    <2> QED BY <1>1, <2>4, Cut DEF Texts
  <1> QED BY <1>3, <1>4

\* What is left of a text is its end.
LEMMA TrimStartTyped ==
    ASSUME NEW s \in Texts
    PROVE  /\ TrimStart(s) \in Texts
           /\ \/ TrimStart(s) = <<>>
              \/ \E a \in 1 .. Len(s) : TrimStart(s) = SubSeq(s, a, Len(s))
  <1> DEFINE I == {i \in 1 .. Len(s) : s[i] \notin White}
  <1>1. s \in Seq(Chars) /\ Len(s) \in Nat
    BY LenProperties DEF Texts
  <1>2. TrimStart(s) = IF (IF I # {} THEN Min(I) ELSE 0) = 0 THEN <<>>
                       ELSE SubSeq(s, (IF I # {} THEN Min(I) ELSE 0), Len(s))
    BY DEF TrimStart, SelectInSeq
  <1>3. CASE I = {}
    BY <1>2, <1>3 DEF Texts
  <1>4. CASE I # {}
    <2>1. I \subseteq Nat
      BY <1>1
    <2> HIDE DEF I
    <2>2. Min(I) \in I
      BY <1>4, <2>1, Smallest
    <2>3. PICK a \in 1 .. Len(s) : a = Min(I)
      BY <2>2 DEF I
    <2>4. TrimStart(s) = SubSeq(s, a, Len(s))
      BY <1>1, <1>2, <1>4, <2>3
    <2>5. SubSeq(s, a, Len(s)) \in Seq(Chars)
      <3>1. a \in 1 .. Len(s) + 1 /\ Len(s) \in a - 1 .. Len(s)
        BY <1>1
      <3> QED BY <1>1, <3>1, Slice
    <2> QED BY <2>4, <2>5 DEF Texts
  <1> QED BY <1>3, <1>4

LEMMA TrimTyped ==
    ASSUME NEW s \in Texts
    PROVE  Trim(s) \in Texts
  <1>1. \A t \in Texts : Reverse(t) \in Texts
    BY ReverseTyped DEF Texts
  <1> QED BY <1>1, TrimStartTyped DEF Trim

\* The arguments are the end of a command, behind its word and a white space.
LEMMA ArgsTyped ==
    ASSUME NEW s \in Texts
    PROVE  /\ Args(s) \in Texts
           /\ \/ Args(s) = <<>>
              \/ \E a \in Len(Word(s)) + 2 .. Len(s) : Args(s) = SubSeq(s, a, Len(s))
  <1> DEFINE m == Len(Word(s)) + 2
             t == SubSeq(s, m, Len(s))
  <1>1. s \in Seq(Chars) /\ Len(s) \in Nat /\ m \in Nat \ {0, 1}
    BY WordTyped, LenProperties DEF Texts
  <1>2. Args(s) = TrimStart(t)
    BY DEF Args
  <1> HIDE DEF m
  <1>3. CASE m > Len(s)
    <2>1. t = <<>>
      BY <1>1, <1>3, SubSeqEmpty
    <2>2. TrimStart(<<>>) = <<>>
      <3>1. <<>> \in Texts /\ Len(<<>>) = 0 /\ \A a \in 1 .. 0 : FALSE
        BY DEF Texts
      <3> QED BY <3>1, TrimStartTyped
    <2>3. Args(s) = <<>> /\ <<>> \in Texts
      BY <1>2, <2>1, <2>2 DEF Texts
    <2> QED BY <2>3
  <1>4. CASE m <= Len(s)
    <2>1. /\ m \in 1 .. Len(s) + 1 /\ Len(s) \in m - 1 .. Len(s) /\ m \in 1 .. Len(s)
          /\ Len(s) \in 1 .. Len(s)
      BY <1>1, <1>4
    <2>2. t \in Seq(Chars) /\ Len(t) = Len(s) - m + 1 /\ t \in Texts
      BY <1>1, <2>1, Slice DEF Texts
    <2>3. ASSUME NEW a \in 1 .. Len(t)
          PROVE  \E b \in m .. Len(s) : SubSeq(t, a, Len(t)) = SubSeq(s, b, Len(s))
      <3>1. /\ a \in 1 .. Len(s) - m + 1 /\ Len(t) \in 1 .. Len(s) - m + 1
            /\ m + a - 1 \in m .. Len(s) /\ m + Len(t) - 1 = Len(s)
        BY <1>1, <1>4, <2>2
      <3>2. SubSeq(t, a, Len(t)) = SubSeq(s, m + a - 1, m + Len(t) - 1)
        BY <1>1, <2>1, <3>1, SubSeqOfSubSeq
      <3> QED BY <3>1, <3>2
    <2> HIDE DEF t
    <2>4. TrimStart(t) \in Texts /\ (TrimStart(t) = <<>>
            \/ \E a \in 1 .. Len(t) : TrimStart(t) = SubSeq(t, a, Len(t)))
      BY <2>2, TrimStartTyped
    <2> QED BY <1>2, <2>3, <2>4 DEF m
  <1> QED BY <1>1, <1>3, <1>4

LEMMA SuggestionNamed ==
    ASSUME NEW word, CommandSuggestion(word) # NoSuggestion
    PROVE  CommandSuggestion(word) \in Range(Names)
  <1> DEFINE I == {i \in 1 .. Len(Names) : IsPrefix(word, Names[i]) /\ Names[i] # word}
             k == IF I # {} THEN Min(I) ELSE 0
  <1>1. CommandSuggestion(word) = IF word = <<>> \/ k = 0 THEN NoSuggestion ELSE Names[k]
    BY DEF CommandSuggestion, SelectInSeq
  <1>2. DOMAIN Names = 1 .. Len(Names) /\ Len(Names) \in Nat
    BY TerminalAssumption, LenProperties
  <1>3. I \subseteq Nat /\ I \subseteq DOMAIN Names
    BY <1>2
  <1> HIDE DEF I
  <1>4. CASE I = {}
    BY <1>1, <1>4
  <1>5. CASE I # {}
    <2>1. Min(I) \in DOMAIN Names /\ k = Min(I)
      BY <1>3, <1>5, Smallest
    <2> QED BY <1>1, <2>1 DEF Range
  <1> QED BY <1>4, <1>5

\* A completed command: the name for the word, and its arguments behind it.
LEMMA AcceptCommandShown ==
    ASSUME NEW p, GoodPrompt(p), Completes(p)
    PROVE  LET q == AcceptCommand(p)
               t == Rendered(p)
           IN /\ GoodPrompt(q) /\ q.kind = "Command" /\ CursorPosition(q) = Len(Rendered(q))
              /\ 1 \in 0 .. CursorPosition(p)
              /\ \E j \in CursorPosition(p) .. Len(t),
                    s \in Range(Names) \cup {Names[i] \o <<Space>> : i \in DOMAIN Names} :
                   Rendered(q) = SubSeq(t, 1, 1) \o s \o SubSeq(t, j + 1, Len(t))
  <1> DEFINE q == AcceptCommand(p)
             t == Rendered(p)
             s == p.input
             n == Len(Word(s))
             name == CommandSuggestion(Word(s))
             args == Args(s)
             input == IF args = <<>> THEN name ELSE name \o <<Space>> \o args
  <1>1. /\ p.kind = "Command" /\ p.parsed = s /\ s \in Texts /\ s \in Seq(Chars)
        /\ Len(s) \in Nat /\ p.cursor = n
    BY PromptTyped DEF Completes, CommandOf, GoodPrompt, Texts
  <1>2. name \in Range(Names) /\ name \in Texts /\ name \in Seq(Chars)
    BY <1>1, SuggestionNamed, NamesTyped DEF Completes, CommandOf, Texts
  <1>3. n \in 0 .. Len(s)
    BY <1>1, WordTyped
  <1>4. /\ args \in Texts
        /\ args = <<>> \/ \E a \in n + 2 .. Len(s) : args = SubSeq(s, a, Len(s))
    BY <1>1, ArgsTyped
  <1>5. q = CommandPrompt(input)
    BY <1>1 DEF AcceptCommand, CommandOf
  <1>6. t = <<Slash>> \o s /\ CursorPosition(p) = n + 1
    BY <1>1 DEF Rendered, CursorPosition
  <1> HIDE DEF q, name, args, n
  <1>7. /\ t \in Seq(Chars) /\ Len(t) = Len(s) + 1 /\ t[1] = Slash
        /\ SubSeq(t, 1, 1) = <<Slash>>
    <2>1. /\ <<Slash>> \o s \in Seq(Chars) /\ Len(<<Slash>> \o s) = Len(s) + 1
          /\ (<<Slash>> \o s)[1] = Slash
      BY <1>1, Alphabet, Before
    <2> HIDE DEF t
    <2>2. t \in Seq(Chars) /\ Len(t) = Len(s) + 1 /\ t[1] = Slash
      BY <1>6, <2>1
    <2>3. 1 \in 1 .. Len(t)
      BY <1>1, <2>2
    <2>4. SubSeq(t, 1, 1) = <<t[1]>>
      BY <2>2, <2>3, OneOf
    <2> QED BY <2>2, <2>4
  <1>8. input \in Texts
    <2>1. args \in Seq(Chars) /\ <<Space>> \in Seq(Chars)
      BY <1>4, Alphabet DEF Texts
    <2>2. name \o <<Space>> \in Seq(Chars)
      BY <1>2, <2>1, ConcatProperties
    <2>3. name \o <<Space>> \o args \in Seq(Chars)
      BY <2>1, <2>2, ConcatProperties
    <2> QED BY <1>2, <2>3 DEF Texts
  <1>9. ASSUME args # <<>>
        PROVE  \E j \in n + 1 .. Len(t) : args = SubSeq(t, j + 1, Len(t))
    <2>1. PICK a \in n + 2 .. Len(s) : args = SubSeq(s, a, Len(s))
      BY <1>4, <1>9
    <2>2. Slash \in Chars
      BY Alphabet
    <2>3. a \in 1 .. Len(s) + 1 /\ Len(s) \in a - 1 .. Len(s) /\ a \in Nat
      BY <1>1, <1>3, <2>1
    <2>4. /\ args \in Seq(Chars) /\ Len(args) = Len(s) - a + 1
          /\ \A i \in 1 .. Len(s) - a + 1 : args[i] = s[a + i - 1]
      BY <1>1, <2>1, <2>3, Slice
    <2>5. \A i \in 1 .. Len(s) : t[i + 1] = s[i]
      BY <1>1, <1>6, <2>2, Before
    <2> DEFINE r == SubSeq(t, a + 1, Len(t))
    <2> HIDE DEF t
    <2>6. PICK k \in 1 .. Len(t) + 1 : k = a + 1
      BY <1>1, <1>7, <2>3
    <2>7. Len(t) \in k - 1 .. Len(t)
      BY <1>1, <1>7, <2>3, <2>6
    <2>8. /\ SubSeq(t, k, Len(t)) \in Seq(Chars) /\ Len(SubSeq(t, k, Len(t))) = Len(t) - k + 1
          /\ \A i \in 1 .. Len(t) - k + 1 : SubSeq(t, k, Len(t))[i] = t[k + i - 1]
      BY <1>7, <2>7, Slice
    <2>9. r = SubSeq(t, k, Len(t)) /\ Len(t) - k + 1 = Len(s) - a + 1
      BY <1>1, <1>7, <2>3, <2>6
    <2> HIDE DEF r
    <2>10. ASSUME NEW i \in 1 .. Len(args)
           PROVE  args[i] = r[i]
      <3>1. /\ i \in 1 .. Len(s) - a + 1 /\ a + i - 1 \in 1 .. Len(s)
            /\ k + i - 1 = (a + i - 1) + 1
        BY <1>1, <2>3, <2>4, <2>6
      <3>2. r[i] = t[k + i - 1] /\ args[i] = s[a + i - 1]
        BY <2>4, <2>8, <2>9, <3>1
      <3> QED BY <2>5, <3>1, <3>2
    <2>11. args = r
      BY <2>4, <2>8, <2>9, <2>10, SeqEqual
    <2>12. a \in n + 1 .. Len(t)
      BY <1>1, <1>3, <1>7, <2>1
    <2> QED BY <2>11, <2>12 DEF r
  <1>10. /\ GoodPrompt(q) /\ q.kind = "Command" /\ Rendered(q) = <<Slash>> \o input
         /\ CursorPosition(q) = Len(input) + 1
    BY <1>5, <1>8, NewPrompts
  <1>11. Len(<<Slash>> \o input) = Len(input) + 1
    <2>1. Slash \in Chars /\ input \in Seq(Chars)
      BY <1>8, Alphabet DEF Texts
    <2> QED BY <2>1, Before
  <1>12. 1 \in 0 .. CursorPosition(p)
    BY <1>3, <1>6
  <1>13. \E j \in n + 1 .. Len(t),
            u \in Range(Names) \cup {Names[i] \o <<Space>> : i \in DOMAIN Names} :
           <<Slash>> \o input = SubSeq(t, 1, 1) \o u \o SubSeq(t, j + 1, Len(t))
    <2> HIDE DEF t
    <2>0. <<Slash>> \in Seq(Chars) /\ <<Space>> \in Seq(Chars)
      BY Alphabet
    <2>1. CASE args = <<>>
      <3>1. Len(t) \in n + 1 .. Len(t) /\ SubSeq(t, Len(t) + 1, Len(t)) = <<>>
        BY <1>1, <1>3, <1>7, SubSeqEmpty
      <3>2. <<Slash>> \o name \in Seq(Chars)
        BY <1>2, <2>0, ConcatProperties
      <3>3. (<<Slash>> \o name) \o <<>> = <<Slash>> \o name
        BY <3>2, ConcatEmptySeq
      <3>4. <<Slash>> \o input = SubSeq(t, 1, 1) \o name \o SubSeq(t, Len(t) + 1, Len(t))
        BY <1>7, <2>1, <3>1, <3>3
      <3> HIDE DEF input
      <3> QED BY <1>2, <3>1, <3>4
    <2>2. CASE args # <<>>
      <3>1. PICK j \in n + 1 .. Len(t) : args = SubSeq(t, j + 1, Len(t))
        BY <1>9, <2>2
      <3> DEFINE u == name \o <<Space>>
      <3>2. u \in Seq(Chars) /\ args \in Seq(Chars)
        BY <1>2, <1>4, <2>0, ConcatProperties DEF Texts
      <3>3. u \in {Names[i] \o <<Space>> : i \in DOMAIN Names}
        BY <1>2 DEF Range
      <3>4. input = u \o args
        BY <2>2
      <3> HIDE DEF u, input
      <3>5. <<Slash>> \o (u \o args) = (<<Slash>> \o u) \o args
        BY <2>0, <3>2, ConcatAssociative
      <3>6. <<Slash>> \o input = SubSeq(t, 1, 1) \o u \o SubSeq(t, j + 1, Len(t))
        BY <1>7, <3>1, <3>4, <3>5
      <3> QED BY <3>3, <3>6
    <2> QED BY <2>1, <2>2
  <1> HIDE DEF t, input
  <1> QED BY <1>6, <1>10, <1>11, <1>12, <1>13 DEF q, t

-----------------------------------------------------------------------------
(* Terminal: every key is one of a line editor *)

KeptPrompt(p) == GoodPrompt(p) /\ Matched(p)

\* What the keys of a line editor do to the rendered text, and what it may become.
Insertable == {<<c>> : c \in Chars} \cup Pastes
Completed == Paths \cup Range(Names) \cup {Names[i] \o <<Space>> : i \in DOMAIN Names}

LineEdited(p, q, offers) ==
    LET t == Rendered(p)
        u == Rendered(q)
        m == CursorPosition(p)
        n == CursorPosition(q)
    IN \/ u = t /\ n \in 0 .. Len(t)
       \/ \E s \in Insertable : u = Spliced(t, m, s) /\ n = m + Len(s)
       \/ m > 0 /\ u = RemoveAt(t, m) /\ n = m - 1
       \/ m < Len(t) /\ u = RemoveAt(t, m + 1) /\ n = m
       \/ /\ \E i \in 0 .. m, j \in m .. Len(t), s \in Completed :
               u = SubSeq(t, 1, i) \o s \o SubSeq(t, j + 1, Len(t))
          /\ n = Len(u)
       \/ u \in offers \cup {<<>>} /\ n = Len(u)

LEMMA SameEdited ==
    ASSUME NEW p, NEW offers, GoodPrompt(p)
    PROVE  LineEdited(p, p, offers)
  <1>1. CursorPosition(p) \in 0 .. Len(Rendered(p))
    BY RenderedTyped DEF GoodPrompt
  <1> QED BY <1>1 DEF LineEdited

LEMMA MovedEdited ==
    ASSUME NEW p, NEW q, NEW offers, CursorMoved(p, q)
    PROVE  LineEdited(p, q, offers)
  BY DEF LineEdited, CursorMoved

LEMMA EmptyKept ==
    ASSUME NEW p, NEW offers
    PROVE  KeptPrompt(EmptyPrompt) /\ LineEdited(p, EmptyPrompt, offers)
  <1>1. GoodPrompt(EmptyPrompt) /\ Matched(EmptyPrompt)
    BY NewPrompts DEF Matched
  <1>2. Rendered(EmptyPrompt) = <<>> /\ CursorPosition(EmptyPrompt) = Len(<<>>)
    BY NewPrompts
  <1> QED BY <1>1, <1>2 DEF KeptPrompt, LineEdited

\* To read the matches again is no edit.
LEMMA RefreshEdited ==
    ASSUME NEW p, NEW q, NEW offers, GoodPrompt(q), LineEdited(p, q, offers)
    PROVE  /\ KeptPrompt(RefreshFileAutocomplete(q))
           /\ LineEdited(p, RefreshFileAutocomplete(q), offers)
  <1> DEFINE r == RefreshFileAutocomplete(q)
  <1>1. /\ GoodPrompt(r) /\ Matched(r)
        /\ Rendered(r) = Rendered(q) /\ CursorPosition(r) = CursorPosition(q)
    BY RefreshShown
  <1> HIDE DEF r
  <1>2. LineEdited(p, r, offers)
    BY <1>1 DEF LineEdited
  <1> QED BY <1>1, <1>2 DEF KeptPrompt, r

LEMMA PushEdited ==
    ASSUME NEW p, NEW offers, GoodPrompt(p), NEW c \in Chars
    PROVE  GoodPrompt(Push(p, c)) /\ LineEdited(p, Push(p, c), offers)
  <1>1. /\ GoodPrompt(Push(p, c))
        /\ Rendered(Push(p, c)) = Spliced(Rendered(p), CursorPosition(p), <<c>>)
        /\ CursorPosition(Push(p, c)) = CursorPosition(p) + 1
    BY PushShown
  <1>2. PICK s \in Insertable : s = <<c>> /\ Len(s) = 1
    <2>1. <<c>> \in {<<d>> : d \in Chars}
      BY Zenon
    <2>2. <<c>> \in Insertable /\ Len(<<c>>) = 1
      BY <2>1 DEF Insertable
    <2> QED BY <2>2
  <1> QED BY <1>1, <1>2 DEF LineEdited

LEMMA PushStrEdited ==
    ASSUME NEW p, NEW offers, GoodPrompt(p), NEW s \in Pastes
    PROVE  GoodPrompt(PushStr(p, s)) /\ LineEdited(p, PushStr(p, s), offers)
  <1>1. s \in Texts /\ s \in Insertable
    BY TerminalAssumption DEF Insertable
  <1>2. /\ GoodPrompt(PushStr(p, s))
        /\ Rendered(PushStr(p, s)) = Spliced(Rendered(p), CursorPosition(p), s)
        /\ CursorPosition(PushStr(p, s)) = CursorPosition(p) + Len(s)
    BY <1>1, PushStrShown
  <1> QED BY <1>1, <1>2 DEF LineEdited

LEMMA BackspaceEdited ==
    ASSUME NEW p, NEW offers, GoodPrompt(p)
    PROVE  GoodPrompt(Backspace(p)) /\ LineEdited(p, Backspace(p), offers)
  <1> DEFINE r == Backspace(p)
  <1>1. /\ GoodPrompt(r)
        /\ \/ Rendered(r) = Rendered(p) /\ CursorPosition(r) = CursorPosition(p)
           \/ /\ CursorPosition(p) > 0
              /\ Rendered(r) = RemoveAt(Rendered(p), CursorPosition(p))
              /\ CursorPosition(r) = CursorPosition(p) - 1
    BY BackspaceShown
  <1>2. CursorPosition(p) \in 0 .. Len(Rendered(p))
    BY RenderedTyped DEF GoodPrompt
  <1> HIDE DEF r
  <1>3. LineEdited(p, r, offers)
    BY <1>1, <1>2 DEF LineEdited
  <1> QED BY <1>1, <1>3 DEF r

LEMMA DeleteEdited ==
    ASSUME NEW p, NEW offers, GoodPrompt(p)
    PROVE  GoodPrompt(Delete(p)) /\ LineEdited(p, Delete(p), offers)
  <1> DEFINE r == Delete(p)
  <1>1. /\ GoodPrompt(r)
        /\ \/ Rendered(r) = Rendered(p) /\ CursorPosition(r) = CursorPosition(p)
           \/ /\ CursorPosition(p) < Len(Rendered(p))
              /\ Rendered(r) = RemoveAt(Rendered(p), CursorPosition(p) + 1)
              /\ CursorPosition(r) = CursorPosition(p)
    BY DeleteShown
  <1>2. CursorPosition(p) \in 0 .. Len(Rendered(p))
    BY RenderedTyped DEF GoodPrompt
  <1> HIDE DEF r
  <1>3. LineEdited(p, r, offers)
    BY <1>1, <1>2 DEF LineEdited
  <1> QED BY <1>1, <1>3 DEF r

\* The end of a completion, with the cursor where it was.
LEMMA WithoutEdited ==
    ASSUME NEW p, NEW offers, GoodPrompt(p), p.kind = "File"
    PROVE  /\ KeptPrompt(WithoutFileAutocomplete(p))
           /\ LineEdited(p, WithoutFileAutocomplete(p), offers)
           /\ WithoutFileAutocomplete(p).kind # "File"
           /\ Rendered(WithoutFileAutocomplete(p)) = p.input
  <1> DEFINE q == WithoutFileAutocomplete(p)
  <1>1. p \in PromptType /\ p.cursor <= Len(p.input) /\ Mention(p)
    BY DEF GoodPrompt
  <1>2. p.cursor \in Nat /\ Len(p.input) \in Nat /\ p.input # <<>>
    BY <1>1, PromptTyped, EmptySeq DEF Mention
  <1>3. p.command => p.input # <<>> /\ p.input[1] = Slash
    BY <1>1, <1>2 DEF Mention
  <1>4. /\ GoodPrompt(q) /\ q.kind \in {"Text", "Command"} /\ Rendered(q) = p.input
        /\ CursorPosition(q) = IF p.command /\ p.cursor = 0 THEN 1 ELSE p.cursor
    BY <1>1, <1>3, WithoutShown
  <1>5. Rendered(p) = p.input /\ p.cursor = Len(p.input) /\ p.cursor # 0
    BY <1>1, <1>2 DEF Rendered, Mention
  <1> HIDE DEF q
  <1>6. Rendered(q) = Rendered(p) /\ CursorPosition(q) \in 0 .. Len(Rendered(p))
    BY <1>2, <1>4, <1>5
  <1>7. KeptPrompt(q) /\ q.kind # "File"
    BY <1>4 DEF KeptPrompt, Matched
  <1> QED BY <1>4, <1>6, <1>7 DEF LineEdited, q

LEMMA AcceptFileEdited ==
    ASSUME NEW p, NEW offers, GoodPrompt(p), p.kind = "File"
    PROVE  GoodPrompt(AcceptFile(p)) /\ LineEdited(p, AcceptFile(p), offers)
  <1> DEFINE q == AcceptFile(p)
             t == Rendered(p)
             m == CursorPosition(p)
  <1>1. /\ GoodPrompt(q)
        /\ \/ q = p
           \/ /\ p.start \in 0 .. m
              /\ \E s \in Paths : Rendered(q) = SubSeq(t, 1, p.start) \o s
              /\ CursorPosition(q) = Len(Rendered(q))
    BY AcceptFileShown
  <1>2. CASE q = p
    BY <1>1, <1>2, SameEdited
  <1>3. CASE q # p
    <2>1. PICK s \in Paths : Rendered(q) = SubSeq(t, 1, p.start) \o s
      BY <1>1, <1>3
    <2>2. t \in Seq(Chars) /\ Len(t) \in Nat /\ m \in 0 .. Len(t) /\ p.start \in 0 .. Len(t)
      <3>1. t \in Seq(Chars) /\ Len(t) \in Nat /\ m \in 0 .. Len(t)
        BY RenderedTyped DEF GoodPrompt, Texts
      <3> QED BY <1>1, <1>3, <3>1
    <2> HIDE DEF q, t, m
    <2>3. SubSeq(t, Len(t) + 1, Len(t)) = <<>>
      BY <2>2, SubSeqEmpty
    <2>4. SubSeq(t, 1, p.start) \o s \in Seq(Chars)
      <3>1. SubSeq(t, 1, p.start) \in Seq(Chars)
        BY <2>2, Cut
      <3>2. s \in Seq(Chars)
        BY PathsTyped DEF Texts
      <3> QED BY <3>1, <3>2, ConcatProperties
    <2>5. Rendered(q) = SubSeq(t, 1, p.start) \o s \o SubSeq(t, Len(t) + 1, Len(t))
      BY <2>1, <2>3, <2>4, ConcatEmptySeq
    <2>6. Len(t) \in m .. Len(t) /\ s \in Completed
      BY <2>2, SMTT(30) DEF Completed
    <2>7. LineEdited(p, q, offers)
      BY <1>1, <1>3, <2>5, <2>6 DEF LineEdited, t, m
    <2> QED BY <1>1, <2>7 DEF q
  <1> QED BY <1>2, <1>3

LEMMA AcceptCommandEdited ==
    ASSUME NEW p, NEW offers, GoodPrompt(p), Completes(p)
    PROVE  KeptPrompt(AcceptCommand(p)) /\ LineEdited(p, AcceptCommand(p), offers)
  <1> DEFINE q == AcceptCommand(p)
             t == Rendered(p)
             names == Range(Names) \cup {Names[i] \o <<Space>> : i \in DOMAIN Names}
  <1>1. /\ GoodPrompt(q) /\ q.kind = "Command" /\ CursorPosition(q) = Len(Rendered(q))
        /\ 1 \in 0 .. CursorPosition(p)
        /\ \E j \in CursorPosition(p) .. Len(t), s \in names :
             Rendered(q) = SubSeq(t, 1, 1) \o s \o SubSeq(t, j + 1, Len(t))
    BY AcceptCommandShown
  <1>2. names \subseteq Completed
    BY DEF Completed
  <1> HIDE DEF q, t, names
  <1>3. LineEdited(p, q, offers)
    BY <1>1, <1>2 DEF LineEdited, t
  <1>4. KeptPrompt(q)
    BY <1>1 DEF KeptPrompt, Matched
  <1> QED BY <1>3, <1>4 DEF q

\* The text that replaces the prompt is one the user was offered.
LEMMA ReplaceEdited ==
    ASSUME NEW p, NEW offers, NEW s \in Texts, s \in offers
    PROVE  KeptPrompt(ReplaceWithInput(s)) /\ LineEdited(p, ReplaceWithInput(s), offers)
  <1> DEFINE q == ReplaceWithInput(s)
  <1>1. GoodPrompt(q) /\ q.kind # "File" /\ Rendered(q) = s /\ CursorPosition(q) = Len(s)
    BY ReplacedShown
  <1> HIDE DEF q
  <1> QED BY <1>1 DEF KeptPrompt, Matched, LineEdited, q

\* The cursor leaves the matches as they are, or ends the completion.
LEMMA MoveKept ==
    ASSUME NEW p, NEW offers, KeptPrompt(p), NEW n \in 0 .. Len(p.input)
    PROVE  /\ KeptPrompt(MoveTo(p, n)) /\ LineEdited(p, MoveTo(p, n), offers)
           /\ KeptPrompt(MoveAway(p, n)) /\ LineEdited(p, MoveAway(p, n), offers)
  <1> DEFINE q == [p EXCEPT !.cursor = n]
  <1>1. p \in PromptType /\ p.input \in Texts /\ p.cursor <= Len(p.input) /\ Len(p.input) \in Nat
        /\ n \in Nat
    BY PromptTyped DEF KeptPrompt, GoodPrompt
  <1>2. /\ q \in PromptType /\ q.input = p.input /\ q.cursor = n /\ q.kind = p.kind
        /\ q.start = p.start /\ q.command = p.command /\ q.matches = p.matches
    BY <1>1 DEF PromptType
  <1> HIDE DEF q
  <1>3. Matched(q)
    BY <1>2 DEF KeptPrompt, Matched, Query
  <1>4. p.kind = "File" => Matched(WithoutFileAutocomplete(q))
    <2>1. SUFFICES ASSUME p.kind = "File"
                   PROVE  Matched(WithoutFileAutocomplete(q))
      OBVIOUS
    <2>2. Mention(p)
      BY <2>1 DEF KeptPrompt, GoodPrompt
    <2>3. q.command => q.input # <<>> /\ q.input[1] = Slash
      BY <1>1, <1>2, <2>2, EmptySeq DEF Mention
    <2>4. WithoutFileAutocomplete(q).kind \in {"Text", "Command"}
      BY <1>1, <1>2, <2>3, WithoutShown
    <2> QED BY <2>4 DEF Matched
  <1>5. Matched(MoveTo(p, n)) /\ Matched(MoveAway(p, n))
    <2>1. /\ MoveTo(p, n) = q \/ (p.kind = "File" /\ MoveTo(p, n) = WithoutFileAutocomplete(q))
          /\ MoveAway(p, n) = q \/ (p.kind = "File" /\ MoveAway(p, n) = WithoutFileAutocomplete(q))
      BY DEF MoveTo, MoveAway, q
    <2> QED BY <1>3, <1>4, <2>1
  <1>6. CursorMoved(p, MoveTo(p, n)) /\ CursorMoved(p, MoveAway(p, n))
    BY MoveShown DEF KeptPrompt
  <1> QED BY <1>5, <1>6, MovedEdited DEF KeptPrompt, CursorMoved

LEMMA CursorKept ==
    ASSUME NEW p, NEW offers, KeptPrompt(p), NEW q,
           q \in {MoveLeft(p), MoveRight(p), MoveHome(p), MoveEnd(p),
                  MoveVertical(p, TRUE), MoveVertical(p, FALSE)}
    PROVE  KeptPrompt(q) /\ LineEdited(p, q, offers)
  <1>1. p.cursor \in 0 .. Len(p.input) /\ p.cursor \in Nat /\ Len(p.input) \in Nat
    BY PromptTyped DEF KeptPrompt, GoodPrompt
  <1>2. \A n \in 0 .. Len(p.input) :
          /\ KeptPrompt(MoveTo(p, n)) /\ LineEdited(p, MoveTo(p, n), offers)
          /\ KeptPrompt(MoveAway(p, n)) /\ LineEdited(p, MoveAway(p, n), offers)
    BY MoveKept
  <1>3. q \in {MoveLeft(p), MoveRight(p), MoveHome(p), MoveEnd(p)} =>
          \E n \in 0 .. Len(p.input) : q \in {MoveTo(p, n), MoveAway(p, n)}
    <2>1. CASE q = MoveLeft(p)
      <3>1. (IF p.cursor = 0 THEN 0 ELSE p.cursor - 1) \in 0 .. Len(p.input)
        BY <1>1
      <3> QED BY <2>1, <3>1 DEF MoveLeft
    <2>2. CASE q = MoveRight(p)
      <3>1. (IF AtEnd(p) THEN p.cursor ELSE p.cursor + 1) \in 0 .. Len(p.input)
        BY <1>1 DEF AtEnd
      <3> QED BY <2>2, <3>1 DEF MoveRight
    <2>3. CASE q = MoveHome(p)
      BY <1>1, <2>3 DEF MoveHome
    <2>4. CASE q = MoveEnd(p)
      BY <1>1, <2>4 DEF MoveEnd
    <2> QED BY <2>1, <2>2, <2>3, <2>4
  <1>4. ASSUME NEW above \in BOOLEAN
        PROVE  \/ MoveVertical(p, above) = p
               \/ \E n \in 0 .. Len(p.input) : MoveVertical(p, above) = MoveTo(p, n)
    BY VerticalShown DEF KeptPrompt
  <1>5. LineEdited(p, p, offers)
    BY SameEdited DEF KeptPrompt
  <1>6. q = p \/ \E n \in 0 .. Len(p.input) : q \in {MoveTo(p, n), MoveAway(p, n)}
    <2>1. CASE q = MoveVertical(p, TRUE)
      BY <1>4, <2>1
    <2>2. CASE q = MoveVertical(p, FALSE)
      BY <1>4, <2>2
    <2> QED BY <1>3, <2>1, <2>2
  <1> QED BY <1>2, <1>5, <1>6

-----------------------------------------------------------------------------
(* Terminal: the invariant, and what every action keeps *)

OfferedTexts == {recall.entries[i] : i \in DOMAIN recall.entries}
             \cup {<<Slash>> \o Names[i] : i \in DOMAIN Names}

\* The parts of the invariant.
PromptOk == KeptPrompt(prompt) /\ (~Console => prompt = EmptyPrompt)

RecallOk ==
    /\ recall \in [entries : Seq(Texts), at : Nat]
    /\ recall.at <= Len(recall.entries) /\ Len(recall.entries) <= HistoryLimit

ViewOk ==
    /\ view \in [at : Lists \cup {"Console", "Usage"}, size : Nat, index : Nat]
    /\ view.index = 0 \/ view.index < view.size
    /\ view.at = "Help" => view.size = Len(Names)
    /\ view.at = "Models" => view.size = Len(Models) + 1

TurnOk ==
    /\ turn \in Turns /\ thinking \in BOOLEAN /\ up \in BOOLEAN /\ option \in 0 .. 2
    /\ chosen \in [preferred : Range(Models) \cup {<<>>}, awaited : Texts, plan : BOOLEAN]

ShownOk ==
    /\ history \in Seq(Nat) /\ pushed \in Nat /\ printed = Len(history)
    /\ resumed \in BOOLEAN
    /\ ~resumed => screen = history

TerminalInv == PromptOk /\ RecallOk /\ ViewOk /\ TurnOk /\ ShownOk

TerminalStepped == TerminalInv' /\ LineEdited(prompt, prompt', OfferedTexts)

LEMMA TerminalStart ==
    TerminalInit => TerminalInv
  <1>1. SUFFICES ASSUME TerminalInit
                 PROVE  TerminalInv
    OBVIOUS
  <1>2. KeptPrompt(EmptyPrompt)
    BY EmptyKept
  <1>3. PromptOk
    BY <1>1, <1>2 DEF TerminalInit, PromptOk
  <1>4. <<>> \in Texts /\ <<>> \in Seq(Texts) /\ Len(<<>>) = 0 /\ <<>> \in Seq(Nat)
    BY DEF Texts
  <1>5. RecallOk
    BY <1>1, <1>4, TerminalAssumption DEF TerminalInit, RecallOk
  <1>6. ViewOk
    BY <1>1 DEF TerminalInit, ViewOk, ShowConsole
  <1>7. TurnOk
    <2>1. chosen = [preferred |-> <<>>, awaited |-> <<>>, plan |-> FALSE]
      BY <1>1 DEF TerminalInit
    <2>2. chosen \in [preferred : Range(Models) \cup {<<>>}, awaited : Texts, plan : BOOLEAN]
      BY <1>4, <2>1
    <2>3. thinking \in BOOLEAN /\ up \in BOOLEAN
      BY <1>1, Zenon DEF TerminalInit
    <2>4. turn \in Turns /\ option \in 0 .. 2
      BY <1>1 DEF TerminalInit, Turns
    <2> QED BY <2>2, <2>3, <2>4 DEF TurnOk
  <1>8. ShownOk
    BY <1>1, <1>4 DEF TerminalInit, ShownOk
  <1> QED BY <1>3, <1>5, <1>6, <1>7, <1>8 DEF TerminalInv

LEMMA NewEntriesTyped ==
    ASSUME NEW n \in Nat, pushed \in Nat
    PROVE  NewEntries(n) \in Seq(Nat) /\ Len(NewEntries(n)) = n
  <1>1. NewEntries(n) \in [1 .. n -> Nat]
    BY DEF NewEntries
  <1>2. NewEntries(n) \in Seq(Nat)
    BY <1>1
  <1>3. DOMAIN NewEntries(n) = 1 .. n
    BY <1>1
  <1> QED BY <1>2, <1>3, LenProperties

\* What is pushed is printed behind what the screen shows.
LEMMA PushesShown ==
    ASSUME ShownOk, NEW n \in Nat, Pushes(n)
    PROVE  ShownOk'
  <1> DEFINE more == NewEntries(n)
  <1>1. /\ history \in Seq(Nat) /\ Len(history) \in Nat /\ printed = Len(history)
        /\ more \in Seq(Nat) /\ Len(more) = n
    BY NewEntriesTyped, LenProperties DEF ShownOk
  <1>2. /\ history' = history \o more /\ pushed' = pushed + n /\ resumed' = resumed
        /\ printed' = Len(history')
        /\ screen' = screen \o SubSeq(history', (IF printed > Len(history') THEN 0
                                                 ELSE printed) + 1, Len(history'))
    BY DEF Pushes, Draw
  <1> HIDE DEF more
  <1>3. /\ history' \in Seq(Nat) /\ Len(history') = Len(history) + n
    BY <1>1, <1>2, ConcatProperties
  <1>4. SubSeq(history', Len(history) + 1, Len(history')) = more
    <2>1. SubSeq(history \o more, Len(history) + 1, Len(history) + n) = more
      BY <1>1, SubSeqOfConcat2, SubSeqFull
    <2> QED BY <1>2, <1>3, <2>1
  <1>5. screen' = screen \o more
    <2>1. ~(printed > Len(history'))
      BY <1>1, <1>3
    <2>2. screen' = screen \o SubSeq(history', printed + 1, Len(history'))
      BY <1>2, <2>1
    <2> QED BY <1>1, <1>4, <2>2
  <1>6. ~resumed' => screen' = history'
    BY <1>2, <1>5, Zenon DEF ShownOk
  <1>7. pushed' \in Nat
    BY <1>2 DEF ShownOk
  <1>8. resumed' \in BOOLEAN
    BY <1>2, Zenon DEF ShownOk
  <1> QED BY <1>2, <1>3, <1>6, <1>7, <1>8 DEF ShownOk

\* A transcript that is shown anew, from nothing or behind what was printed.
LEMMA ReplacedTranscript ==
    ASSUME ShownOk, NEW n \in Nat, history' = NewEntries(n), pushed' = pushed + n,
           NEW count \in Nat, NEW shown, Draw(count, shown), resumed' \in BOOLEAN,
           ~resumed' => count = 0 /\ shown = <<>>
    PROVE  ShownOk'
  <1>1. history' \in Seq(Nat) /\ Len(history') = n /\ pushed' \in Nat /\ printed' = Len(history')
    BY NewEntriesTyped DEF ShownOk, Draw
  <1>2. ASSUME ~resumed'
        PROVE  screen' = history'
    <2>1. screen' = <<>> \o SubSeq(history', 0 + 1, Len(history'))
      BY <1>1, <1>2 DEF Draw
    <2>2. SubSeq(history', 1, Len(history')) = history' /\ <<>> \o history' = history'
      BY <1>1, SubSeqFull, ConcatEmptySeq
    <2> QED BY <2>1, <2>2
  <1> QED BY <1>1, <1>2 DEF ShownOk

LEMMA StateKept ==
    ASSUME ViewOk, TurnOk, UNCHANGED state
    PROVE  ViewOk' /\ TurnOk' /\ view' = view
  BY DEF ViewOk, TurnOk, state

LEMMA RecallKept ==
    ASSUME RecallOk, UNCHANGED recall \/ StopRecall
    PROVE  RecallOk'
  <1>1. CASE UNCHANGED recall
    BY <1>1 DEF RecallOk
  <1>2. CASE StopRecall
    <2>1. recall' = [entries |-> recall.entries, at |-> 0]
      BY <1>2 DEF StopRecall, RecallOk
    <2>2. Len(recall.entries) \in Nat
      BY LenProperties DEF RecallOk
    <2> QED BY <2>1, <2>2 DEF RecallOk
  <1> QED BY <1>1, <1>2

LEMMA Remembered ==
    ASSUME RecallOk, NEW input \in Texts, Remember(input)
    PROVE  RecallOk'
  <1> DEFINE kept == IF Len(recall.entries) = HistoryLimit THEN Tail(recall.entries)
                     ELSE recall.entries
  <1>1. CASE UNCHANGED recall
    BY <1>1, RecallKept
  <1>2. CASE recall' = [at |-> 0, entries |-> Append(kept, input)]
    <2>1. /\ recall.entries \in Seq(Texts) /\ Len(recall.entries) \in Nat
          /\ Len(recall.entries) <= HistoryLimit /\ HistoryLimit \in Nat \ {0}
      BY TerminalAssumption, LenProperties DEF RecallOk
    <2>2. kept \in Seq(Texts) /\ Len(kept) \in Nat /\ Len(kept) < HistoryLimit
      <3>1. CASE Len(recall.entries) = HistoryLimit
        <4>1. recall.entries # <<>>
          BY <2>1, <3>1, EmptySeq
        <4>2. Tail(recall.entries) \in Seq(Texts)
              /\ Len(Tail(recall.entries)) = Len(recall.entries) - 1
          BY <2>1, <4>1, HeadTailProperties
        <4> QED BY <2>1, <3>1, <4>2
      <3>2. CASE Len(recall.entries) # HistoryLimit
        BY <2>1, <3>2
      <3> QED BY <3>1, <3>2
    <2> HIDE DEF kept
    <2>3. Append(kept, input) \in Seq(Texts) /\ Len(Append(kept, input)) = Len(kept) + 1
      BY <2>2, AppendProperties
    <2> QED BY <1>2, <2>1, <2>2, <2>3 DEF RecallOk
  <1> QED BY <1>1, <1>2 DEF Remember

\* Keys that leave the console where it is: the new prompt and the recall decide.
LEMMA ConsoleStep ==
    ASSUME TerminalInv, Console, UNCHANGED state, NEW n \in Nat, Pushes(n), RecallOk',
           KeptPrompt(prompt'), LineEdited(prompt, prompt', OfferedTexts)
    PROVE  TerminalStepped
  <1>1. ViewOk' /\ TurnOk' /\ view' = view
    BY StateKept DEF TerminalInv
  <1>2. ShownOk'
    BY PushesShown DEF TerminalInv
  <1>3. PromptOk'
    BY <1>1 DEF PromptOk, Console
  <1> QED BY <1>1, <1>2, <1>3 DEF TerminalStepped, TerminalInv

LEMMA EditKeyStep ==
    ASSUME TerminalInv, NEW q, EditKey(q), GoodPrompt(q), LineEdited(prompt, q, OfferedTexts)
    PROVE  TerminalStepped
  <1>1. Console /\ UNCHANGED state /\ Pushes(0) /\ StopRecall
        /\ prompt' = RefreshFileAutocomplete(q)
    BY DEF EditKey, AtConsole
  <1>2. RecallOk'
    BY <1>1, RecallKept DEF TerminalInv
  <1>3. /\ KeptPrompt(RefreshFileAutocomplete(q))
        /\ LineEdited(prompt, RefreshFileAutocomplete(q), OfferedTexts)
    BY RefreshEdited
  <1>4. 0 \in Nat
    OBVIOUS
  <1> QED BY <1>1, <1>2, <1>3, <1>4, ConsoleStep

LEMMA MoveKeyStep ==
    ASSUME TerminalInv, NEW q, MoveKey(q), KeptPrompt(q), LineEdited(prompt, q, OfferedTexts)
    PROVE  TerminalStepped
  <1>1. Console /\ UNCHANGED state /\ Pushes(0) /\ UNCHANGED recall /\ prompt' = q
    BY DEF MoveKey, AtConsole
  <1>2. RecallOk'
    BY <1>1, RecallKept DEF TerminalInv
  <1>3. 0 \in Nat
    OBVIOUS
  <1> QED BY <1>1, <1>2, <1>3, ConsoleStep

LEMMA TypeKeyStep == TerminalInv /\ TypeKey => TerminalStepped
  <1>1. SUFFICES ASSUME TerminalInv, TypeKey
                 PROVE  TerminalStepped
    OBVIOUS
  <1>2. PICK c \in Chars : EditKey(Push(prompt, c))
    BY <1>1 DEF TypeKey
  <1>3. GoodPrompt(Push(prompt, c)) /\ LineEdited(prompt, Push(prompt, c), OfferedTexts)
    BY <1>1, PushEdited DEF TerminalInv, PromptOk, KeptPrompt
  <1> QED BY <1>1, <1>2, <1>3, EditKeyStep

LEMMA PasteKeyStep == TerminalInv /\ PasteKey => TerminalStepped
  <1>1. SUFFICES ASSUME TerminalInv, PasteKey
                 PROVE  TerminalStepped
    OBVIOUS
  <1>2. PICK s \in Pastes : EditKey(PushStr(prompt, s))
    BY <1>1 DEF PasteKey
  <1>3. GoodPrompt(PushStr(prompt, s)) /\ LineEdited(prompt, PushStr(prompt, s), OfferedTexts)
    BY <1>1, PushStrEdited DEF TerminalInv, PromptOk, KeptPrompt
  <1> QED BY <1>1, <1>2, <1>3, EditKeyStep

LEMMA RemoveKeyStep == TerminalInv /\ (BackspaceKey \/ DeleteKey) => TerminalStepped
  <1>1. SUFFICES ASSUME TerminalInv, BackspaceKey \/ DeleteKey
                 PROVE  TerminalStepped
    OBVIOUS
  <1>2. /\ GoodPrompt(Backspace(prompt)) /\ LineEdited(prompt, Backspace(prompt), OfferedTexts)
        /\ GoodPrompt(Delete(prompt)) /\ LineEdited(prompt, Delete(prompt), OfferedTexts)
    BY <1>1, BackspaceEdited, DeleteEdited DEF TerminalInv, PromptOk, KeptPrompt
  <1>3. EditKey(Backspace(prompt)) \/ EditKey(Delete(prompt))
    BY <1>1 DEF BackspaceKey, DeleteKey
  <1> QED BY <1>1, <1>2, <1>3, EditKeyStep

LEMMA CompletionKeyStep == TerminalInv /\ CompletionKey => TerminalStepped
  <1>1. SUFFICES ASSUME TerminalInv, CompletionKey
                 PROVE  TerminalStepped
    OBVIOUS
  <1>2. GoodPrompt(prompt) /\ Matched(prompt) /\ prompt.kind = "File"
    BY <1>1 DEF TerminalInv, PromptOk, KeptPrompt, CompletionKey
  <1>3. \/ \E step \in {1, Len(prompt.matches) - 1} :
             prompt.matches # <<>> /\ MoveKey(CycleMatch(prompt, step))
        \/ MoveKey(RefreshFileAutocomplete(AcceptFile(prompt)))
        \/ MoveKey(WithoutFileAutocomplete(prompt))
    BY <1>1 DEF CompletionKey
  <1>4. CASE \E step \in {1, Len(prompt.matches) - 1} :
               prompt.matches # <<>> /\ MoveKey(CycleMatch(prompt, step))
    <2>1. PICK step \in {1, Len(prompt.matches) - 1} :
            prompt.matches # <<>> /\ MoveKey(CycleMatch(prompt, step))
      BY <1>4
    <2>2. step \in Nat
      <3>1. prompt.matches \in Seq(Paths)
        BY <1>2, PromptTyped DEF GoodPrompt
      <3> QED BY <2>1, <3>1, EmptySeq
    <2>3. /\ GoodPrompt(CycleMatch(prompt, step)) /\ Matched(CycleMatch(prompt, step))
          /\ Rendered(CycleMatch(prompt, step)) = Rendered(prompt)
          /\ CursorPosition(CycleMatch(prompt, step)) = CursorPosition(prompt)
      BY <1>2, <2>2, CycleShown
    <2>4. CursorPosition(prompt) \in 0 .. Len(Rendered(prompt))
      BY <1>2, RenderedTyped DEF GoodPrompt
    <2>5. LineEdited(prompt, CycleMatch(prompt, step), OfferedTexts)
      BY <2>3, <2>4 DEF LineEdited
    <2> QED BY <1>1, <2>1, <2>3, <2>5, MoveKeyStep DEF KeptPrompt
  <1>5. CASE MoveKey(RefreshFileAutocomplete(AcceptFile(prompt)))
    <2>1. GoodPrompt(AcceptFile(prompt)) /\ LineEdited(prompt, AcceptFile(prompt), OfferedTexts)
      BY <1>2, AcceptFileEdited
    <2>2. /\ KeptPrompt(RefreshFileAutocomplete(AcceptFile(prompt)))
          /\ LineEdited(prompt, RefreshFileAutocomplete(AcceptFile(prompt)), OfferedTexts)
      BY <2>1, RefreshEdited
    <2> QED BY <1>1, <1>5, <2>2, MoveKeyStep
  <1>6. CASE MoveKey(WithoutFileAutocomplete(prompt))
    <2>1. /\ KeptPrompt(WithoutFileAutocomplete(prompt))
          /\ LineEdited(prompt, WithoutFileAutocomplete(prompt), OfferedTexts)
      BY <1>2, WithoutEdited
    <2> QED BY <1>1, <1>6, <2>1, MoveKeyStep
  <1> QED BY <1>3, <1>4, <1>5, <1>6

LEMMA TabKeyStep == TerminalInv /\ TabKey => TerminalStepped
  <1>1. SUFFICES ASSUME TerminalInv, TabKey
                 PROVE  TerminalStepped
    OBVIOUS
  <1>2. /\ Console /\ UNCHANGED state /\ Pushes(0) /\ StopRecall
        /\ prompt' = IF Completes(prompt) THEN AcceptCommand(prompt) ELSE prompt
    BY <1>1 DEF TabKey, AtConsole
  <1>3. KeptPrompt(prompt) /\ GoodPrompt(prompt)
    BY <1>1 DEF TerminalInv, PromptOk, KeptPrompt
  <1>4. KeptPrompt(prompt') /\ LineEdited(prompt, prompt', OfferedTexts)
    <2>1. CASE Completes(prompt)
      BY <1>2, <1>3, <2>1, AcceptCommandEdited
    <2>2. CASE ~Completes(prompt)
      BY <1>2, <1>3, <2>2, SameEdited
    <2> QED BY <2>1, <2>2
  <1>5. RecallOk' /\ 0 \in Nat
    BY <1>1, <1>2, RecallKept DEF TerminalInv
  <1> QED BY <1>1, <1>2, <1>4, <1>5, ConsoleStep

LEMMA RightKeyStep == TerminalInv /\ RightKey => TerminalStepped
  <1>1. SUFFICES ASSUME TerminalInv, RightKey
                 PROVE  TerminalStepped
    OBVIOUS
  <1>2. KeptPrompt(prompt) /\ GoodPrompt(prompt)
    BY <1>1 DEF TerminalInv, PromptOk, KeptPrompt
  <1>3. CASE Completes(prompt)
    <2>1. MoveKey(AcceptCommand(prompt))
      BY <1>1, <1>3 DEF RightKey
    <2>2. /\ KeptPrompt(AcceptCommand(prompt))
          /\ LineEdited(prompt, AcceptCommand(prompt), OfferedTexts)
      BY <1>2, <1>3, AcceptCommandEdited
    <2> QED BY <1>1, <2>1, <2>2, MoveKeyStep
  <1>4. CASE ~Completes(prompt)
    <2>1. MoveKey(MoveRight(prompt))
      BY <1>1, <1>4 DEF RightKey
    <2>2. KeptPrompt(MoveRight(prompt)) /\ LineEdited(prompt, MoveRight(prompt), OfferedTexts)
      BY <1>2, CursorKept
    <2> QED BY <1>1, <2>1, <2>2, MoveKeyStep
  <1> QED BY <1>3, <1>4

LEMMA CursorKeyStep == TerminalInv /\ CursorKey => TerminalStepped
  <1>1. SUFFICES ASSUME TerminalInv, CursorKey
                 PROVE  TerminalStepped
    OBVIOUS
  <1>2. PICK q \in {MoveLeft(prompt), MoveHome(prompt), MoveEnd(prompt)} : MoveKey(q)
    BY <1>1 DEF CursorKey
  <1>3. KeptPrompt(q) /\ LineEdited(prompt, q, OfferedTexts)
    BY <1>1, CursorKept DEF TerminalInv, PromptOk
  <1> QED BY <1>1, <1>2, <1>3, MoveKeyStep

\* A recalled prompt is one of the history.
LEMMA RecallAtStep ==
    ASSUME TerminalInv, NEW at \in 0 .. Len(recall.entries), RecallAt(at)
    PROVE  RecallOk' /\ KeptPrompt(prompt') /\ LineEdited(prompt, prompt', OfferedTexts)
  <1>1. /\ recall \in [entries : Seq(Texts), at : Nat] /\ recall.entries \in Seq(Texts)
        /\ Len(recall.entries) \in Nat /\ DOMAIN recall.entries = 1 .. Len(recall.entries)
        /\ Len(recall.entries) <= HistoryLimit
    BY LenProperties DEF TerminalInv, RecallOk
  <1>2. RecallOk'
    <2>1. recall' = [entries |-> recall.entries, at |-> at]
      BY <1>1 DEF RecallAt
    <2>2. at \in Nat /\ at <= Len(recall.entries)
      BY <1>1
    <2> QED BY <1>1, <2>1, <2>2 DEF RecallOk
  <1>3. CASE at = 0
    <2>1. prompt' = EmptyPrompt
      BY <1>3 DEF RecallAt
    <2> QED BY <1>2, <2>1, EmptyKept
  <1>4. CASE at # 0
    <2>1. prompt' = ReplaceWithInput(recall.entries[at])
      BY <1>4 DEF RecallAt
    <2>2. at \in DOMAIN recall.entries /\ recall.entries[at] \in Texts
      BY <1>1, <1>4, ElementOfSeq
    <2>3. recall.entries[at] \in OfferedTexts
      BY <2>2 DEF OfferedTexts
    <2> QED BY <1>2, <2>1, <2>2, <2>3, ReplaceEdited
  <1> QED BY <1>3, <1>4

LEMMA UpKeyStep == TerminalInv /\ UpKey => TerminalStepped
  <1>1. SUFFICES ASSUME TerminalInv, UpKey
                 PROVE  TerminalStepped
    OBVIOUS
  <1>2. Console /\ UNCHANGED state /\ Pushes(0) /\ 0 \in Nat
    BY <1>1 DEF UpKey, AtConsole
  <1>3. KeptPrompt(prompt) /\ GoodPrompt(prompt) /\ RecallOk
    BY <1>1 DEF TerminalInv, PromptOk, KeptPrompt
  <1>4. RecallOk' /\ KeptPrompt(prompt') /\ LineEdited(prompt, prompt', OfferedTexts)
    <2> DEFINE at == IF recall.at = 0 THEN Len(recall.entries)
                     ELSE IF recall.at = 1 THEN 1 ELSE recall.at - 1
    <2>1. \/ recall.entries # <<>> /\ RecallAt(at)
          \/ UNCHANGED <<prompt, recall>>
          \/ prompt' = MoveVertical(prompt, TRUE) /\ UNCHANGED recall
      BY <1>1 DEF UpKey
    <2>2. CASE recall.entries # <<>> /\ RecallAt(at)
      <3>1. /\ recall.at \in Nat /\ recall.at <= Len(recall.entries)
            /\ Len(recall.entries) \in Nat
        BY <1>3, LenProperties DEF RecallOk
      <3>2. at \in 0 .. Len(recall.entries)
        BY <3>1
      <3> HIDE DEF at
      <3> QED BY <1>1, <2>2, <3>2, RecallAtStep
    <2>3. CASE UNCHANGED <<prompt, recall>>
      <3>1. prompt' = prompt /\ UNCHANGED recall
        BY <2>3
      <3> QED BY <1>3, <3>1, RecallKept, SameEdited
    <2>4. CASE prompt' = MoveVertical(prompt, TRUE) /\ UNCHANGED recall
      BY <1>3, <2>4, RecallKept, CursorKept
    <2> QED BY <2>1, <2>2, <2>3, <2>4
  <1> QED BY <1>1, <1>2, <1>4, ConsoleStep

LEMMA DownKeyStep == TerminalInv /\ DownKey => TerminalStepped
  <1>1. SUFFICES ASSUME TerminalInv, DownKey
                 PROVE  TerminalStepped
    OBVIOUS
  <1>2. Console /\ UNCHANGED state /\ Pushes(0) /\ 0 \in Nat
    BY <1>1 DEF DownKey, AtConsole
  <1>3. KeptPrompt(prompt) /\ GoodPrompt(prompt) /\ RecallOk
    BY <1>1 DEF TerminalInv, PromptOk, KeptPrompt
  <1>4. RecallOk' /\ KeptPrompt(prompt') /\ LineEdited(prompt, prompt', OfferedTexts)
    <2> DEFINE at == IF recall.at = Len(recall.entries) THEN 0 ELSE recall.at + 1
    <2>1. \/ RecallAt(at)
          \/ prompt' = MoveVertical(prompt, FALSE) /\ UNCHANGED recall
      BY <1>1 DEF DownKey
    <2>2. CASE RecallAt(at)
      <3>1. /\ recall.at \in Nat /\ recall.at <= Len(recall.entries)
            /\ Len(recall.entries) \in Nat
        BY <1>3, LenProperties DEF RecallOk
      <3>2. at \in 0 .. Len(recall.entries)
        BY <3>1
      <3> HIDE DEF at
      <3> QED BY <1>1, <2>2, <3>2, RecallAtStep
    <2>3. CASE prompt' = MoveVertical(prompt, FALSE) /\ UNCHANGED recall
      BY <1>3, <2>3, RecallKept, CursorKept
    <2> QED BY <2>1, <2>2, <2>3
  <1> QED BY <1>1, <1>2, <1>4, ConsoleStep

LEMMA StepAssembled ==
    ASSUME PromptOk', LineEdited(prompt, prompt', OfferedTexts),
           RecallOk', ViewOk', TurnOk', ShownOk'
    PROVE  TerminalStepped
  BY DEF TerminalStepped, TerminalInv

\* The prompt of a step that does not edit it.
LEMMA PromptStays ==
    ASSUME TerminalInv, UNCHANGED prompt, Console => view'.at = "Console"
    PROVE  PromptOk' /\ LineEdited(prompt, prompt', OfferedTexts)
  <1>1. KeptPrompt(prompt) /\ GoodPrompt(prompt) /\ (~Console => prompt = EmptyPrompt)
    BY DEF TerminalInv, PromptOk, KeptPrompt
  <1>2. KeptPrompt(prompt') /\ LineEdited(prompt, prompt', OfferedTexts)
    BY <1>1, SameEdited
  <1> QED BY <1>1, <1>2 DEF PromptOk, Console

LEMMA PromptEmptied ==
    ASSUME prompt' = EmptyPrompt
    PROVE  PromptOk' /\ LineEdited(prompt, prompt', OfferedTexts)
  BY EmptyKept DEF PromptOk

LEMMA ViewShown ==
    ASSUME \/ view' = ShowConsole
           \/ \E at \in {"Providers", "Sessions", "Skills"} : view' = ShowList(at, Len(Models))
           \/ view' = ShowList("Usage", 0)
           \/ view' = ShowList("Help", Len(Names))
           \/ view' = ShowList("Models", Len(Models) + 1)
    PROVE  ViewOk'
  <1>1. Len(Models) \in Nat /\ Len(Names) \in Nat
    BY TerminalAssumption, LenProperties
  <1> QED BY <1>1 DEF ViewOk, ShowConsole, ShowList, Lists

LEMMA SameView == ViewOk /\ UNCHANGED view => ViewOk'
  BY DEF ViewOk

LEMMA InterruptKeyStep == TerminalInv /\ InterruptKey => TerminalStepped
  <1>1. SUFFICES ASSUME TerminalInv, InterruptKey
                 PROVE  TerminalStepped
    OBVIOUS
  <1>2. /\ UNCHANGED <<recall, view, turn, thinking, option, chosen>> /\ Pushes(0)
        /\ UNCHANGED prompt \/ prompt' = EmptyPrompt
    BY <1>1 DEF InterruptKey
  <1>3. up' = up \/ up' = FALSE
    BY <1>1 DEF InterruptKey
  <1>4. RecallOk' /\ ViewOk' /\ (Console => view'.at = "Console")
    BY <1>1, <1>2, RecallKept, SameView DEF TerminalInv, Console
  <1>5. PromptOk' /\ LineEdited(prompt, prompt', OfferedTexts)
    BY <1>1, <1>2, <1>4, PromptStays, PromptEmptied
  <1>6. up' \in BOOLEAN
    BY <1>1, <1>3, Zenon DEF TerminalInv, TurnOk
  <1>7. TurnOk'
    BY <1>1, <1>2, <1>6 DEF TerminalInv, TurnOk
  <1>8. ShownOk'
    <2>1. 0 \in Nat
      OBVIOUS
    <2> QED BY <1>1, <1>2, <2>1, PushesShown DEF TerminalInv
  <1> QED BY <1>4, <1>5, <1>7, <1>8, StepAssembled

LEMMA SubmitTextStep == TerminalInv /\ SubmitText => TerminalStepped
  <1>1. SUFFICES ASSUME TerminalInv, SubmitText
                 PROVE  TerminalStepped
    OBVIOUS
  <1> DEFINE text == Trim(prompt.input)
             n == IF text = <<>> THEN 0 ELSE 1
  <1>2. /\ Console /\ UNCHANGED state /\ prompt' = EmptyPrompt /\ Remember(text) /\ Pushes(n)
    BY <1>1 DEF SubmitText, AtConsole
  <1>3. text \in Texts
    <2>1. prompt.input \in Texts
      BY <1>1, PromptTyped DEF TerminalInv, PromptOk, KeptPrompt, GoodPrompt
    <2> QED BY <2>1, TrimTyped
  <1>4. n \in Nat
    OBVIOUS
  <1> HIDE DEF n, text
  <1>5. RecallOk'
    BY <1>1, <1>2, <1>3, Remembered DEF TerminalInv
  <1>6. KeptPrompt(prompt') /\ LineEdited(prompt, prompt', OfferedTexts)
    BY <1>2, EmptyKept
  <1> QED BY <1>1, <1>2, <1>4, <1>5, <1>6, ConsoleStep

\* What a command does to the view, the choice and the exit.
LEMMA HandleCommandStep ==
    ASSUME TerminalInv, NEW kind, NEW args \in Texts, HandleCommand(kind, args)
    PROVE  /\ ViewOk' /\ TurnOk' /\ ShownOk'
           /\ kind \notin {"Help", "Skills"} => UNCHANGED view
  <1>1. /\ turn' = turn /\ thinking' = thinking /\ Pushes(EntriesOf(kind, args))
        /\ option' = IF view' = view THEN option ELSE 0
        /\ up' = (kind # "Quit")
    BY DEF HandleCommand
  <1>2. /\ kind = "Help" => view' = ShowList("Help", Len(Names))
        /\ kind = "Skills" => view' = ShowList("Skills", Len(Models))
        /\ kind \notin {"Help", "Skills"} => view' = view
    BY DEF HandleCommand
  <1>3. ViewOk'
    <2>1. CASE kind \in {"Help", "Skills"}
      BY <1>2, <2>1, ViewShown
    <2>2. CASE kind \notin {"Help", "Skills"}
      BY <1>2, <2>2, SameView DEF TerminalInv
    <2> QED BY <2>1, <2>2
  <1>4. chosen' \in [preferred : Range(Models) \cup {<<>>}, awaited : Texts, plan : BOOLEAN]
    <2>1. \/ chosen' = [chosen EXCEPT !.plan = FALSE]
          \/ chosen' = [chosen EXCEPT !.plan = TRUE]
          \/ chosen' = [chosen EXCEPT !.preferred = <<>>]
          \/ chosen' = [chosen EXCEPT !.awaited = Trim(args)]
          \/ chosen' = chosen
      BY DEF HandleCommand
    <2>2. Trim(args) \in Texts
      BY TrimTyped
    <2>3. chosen \in [preferred : Range(Models) \cup {<<>>}, awaited : Texts, plan : BOOLEAN]
      BY DEF TerminalInv, TurnOk
    <2> QED BY <2>1, <2>2, <2>3
  <1>5. up' \in BOOLEAN
    BY <1>1, Zenon
  <1>6. TurnOk'
    BY <1>1, <1>4, <1>5 DEF TerminalInv, TurnOk
  <1>7. EntriesOf(kind, args) \in Nat
    BY DEF EntriesOf
  <1>8. ShownOk'
    BY <1>1, <1>7, PushesShown DEF TerminalInv
  <1> QED BY <1>2, <1>3, <1>6, <1>8

LEMMA SubmitCommandStep == TerminalInv /\ SubmitCommand => TerminalStepped
  <1>1. SUFFICES ASSUME TerminalInv, SubmitCommand
                 PROVE  TerminalStepped
    OBVIOUS
  <1> DEFINE mention == prompt.kind = "File"
             p == IF mention THEN WithoutFileAutocomplete(prompt) ELSE prompt
             kind == IF Resolved(p) THEN KindOf[CommandOf(p)] ELSE "Unresolved"
  <1>2. /\ Console
        /\ IF Resolved(p) \/ mention THEN prompt' = EmptyPrompt /\ Remember(Rendered(p))
           ELSE UNCHANGED <<prompt, recall>>
        /\ HandleCommand(kind, Args(p.parsed))
    BY <1>1 DEF SubmitCommand, AtConsole
  <1>3. KeptPrompt(prompt) /\ GoodPrompt(prompt)
    BY <1>1 DEF TerminalInv, PromptOk, KeptPrompt
  <1>4. GoodPrompt(p)
    BY <1>3, WithoutEdited DEF KeptPrompt
  <1>5. Rendered(p) \in Texts /\ p.parsed \in Texts
    <2> HIDE DEF p
    <2> QED BY <1>4, RenderedTyped, PromptTyped DEF GoodPrompt
  <1>6. Args(p.parsed) \in Texts
    <2> HIDE DEF p
    <2> QED BY <1>5, ArgsTyped
  <1>7. /\ ViewOk' /\ TurnOk' /\ ShownOk'
        /\ kind \notin {"Help", "Skills"} => UNCHANGED view
    <2> HIDE DEF kind, p
    <2> QED BY <1>1, <1>2, <1>6, HandleCommandStep
  <1>8. CASE Resolved(p) \/ mention
    <2>1. prompt' = EmptyPrompt /\ Remember(Rendered(p))
      BY <1>2, <1>8
    <2> HIDE DEF p, kind, mention
    <2>2. RecallOk'
      BY <1>1, <1>5, <2>1, Remembered DEF TerminalInv
    <2>3. PromptOk' /\ LineEdited(prompt, prompt', OfferedTexts)
      BY <2>1, PromptEmptied
    <2> QED BY <1>7, <2>2, <2>3, StepAssembled
  <1>9. CASE ~(Resolved(p) \/ mention)
    <2>1. UNCHANGED <<prompt, recall>>
      BY <1>2, <1>9
    <2>2. kind = "Unresolved"
      BY <1>9
    <2> HIDE DEF p, kind, mention
    <2>3. UNCHANGED view /\ UNCHANGED prompt /\ UNCHANGED recall
      BY <1>7, <2>1, <2>2
    <2>4. Console => view'.at = "Console"
      BY <2>3 DEF Console
    <2>5. PromptOk' /\ LineEdited(prompt, prompt', OfferedTexts)
      BY <1>1, <2>3, <2>4, PromptStays
    <2>6. RecallOk'
      BY <1>1, <2>3, RecallKept DEF TerminalInv
    <2> QED BY <1>7, <2>5, <2>6, StepAssembled
  <1> QED BY <1>8, <1>9

LEMMA NothingPushed == ShownOk /\ Pushes(0) => ShownOk'
  <1>1. 0 \in Nat
    OBVIOUS
  <1> QED BY <1>1, PushesShown

LEMMA OnePushed == ShownOk /\ Pushes(1) => ShownOk'
  <1>1. 1 \in Nat
    OBVIOUS
  <1> QED BY <1>1, PushesShown

LEMMA ApprovalKeyStep == TerminalInv /\ ApprovalKey => TerminalStepped
  <1>1. SUFFICES ASSUME TerminalInv, ApprovalKey
                 PROVE  TerminalStepped
    OBVIOUS
  <1>2. /\ UNCHANGED <<prompt, recall, view, turn, thinking, chosen, up>> /\ Pushes(0)
        /\ option' \in {(option + 1) % Options, IF option = 0 THEN Options - 1 ELSE option - 1,
                        option}
    BY <1>1 DEF ApprovalKey
  <1>3. option' \in 0 .. 2
    <2>1. Options \in {2, 3} /\ option \in 0 .. 2
      BY <1>1 DEF Options, TerminalInv, TurnOk
    <2>2. (option + 1) % Options \in Nat /\ (option + 1) % Options < Options
      <3>1. Options \in Nat /\ Options > 0 /\ option + 1 \in Nat
        BY <2>1
      <3> QED BY <3>1, ModuloLess
    <2> QED BY <1>2, <2>1, <2>2
  <1>4. TurnOk'
    BY <1>1, <1>2, <1>3 DEF TerminalInv, TurnOk
  <1>5. RecallOk' /\ ViewOk' /\ ShownOk'
    BY <1>1, <1>2, RecallKept, SameView, NothingPushed DEF TerminalInv
  <1>6. PromptOk' /\ LineEdited(prompt, prompt', OfferedTexts)
    <2>1. UNCHANGED prompt /\ (Console => view'.at = "Console")
      BY <1>2 DEF Console
    <2> QED BY <1>1, <2>1, PromptStays
  <1> QED BY <1>4, <1>5, <1>6, StepAssembled

LEMMA ListKeyStep == TerminalInv /\ ListKey => TerminalStepped
  <1>1. SUFFICES ASSUME TerminalInv, ListKey
                 PROVE  TerminalStepped
    OBVIOUS
  <1>2. UNCHANGED <<prompt, recall, turn, thinking, option, chosen, up>> /\ Pushes(0)
    BY <1>1 DEF ListKey
  <1>3. PICK index \in {Back(1), Clamp(view.index + 1), 0, Clamp(view.size), Back(PageStep),
                        Clamp(view.index + PageStep)} :
          view' = [view EXCEPT !.index = index]
    BY <1>1 DEF ListKey
  <1>4. /\ view \in [at : Lists \cup {"Console", "Usage"}, size : Nat, index : Nat]
        /\ view.size \in Nat /\ view.index \in Nat /\ PageStep \in Nat \ {0}
        /\ view.index = 0 \/ view.index < view.size
    BY <1>1, TerminalAssumption DEF TerminalInv, ViewOk
  <1>5. index \in Nat /\ (index = 0 \/ index < view.size)
    BY <1>3, <1>4 DEF Back, Clamp
  <1>6. /\ view' \in [at : Lists \cup {"Console", "Usage"}, size : Nat, index : Nat]
        /\ view'.at = view.at /\ view'.size = view.size /\ view'.index = index
    BY <1>3, <1>4, <1>5
  <1>7. ViewOk'
    BY <1>1, <1>5, <1>6 DEF TerminalInv, ViewOk
  <1>8. TurnOk' /\ RecallOk' /\ ShownOk'
    BY <1>1, <1>2, RecallKept, NothingPushed DEF TerminalInv, TurnOk
  <1>9. PromptOk' /\ LineEdited(prompt, prompt', OfferedTexts)
    <2>1. UNCHANGED prompt /\ (Console => view'.at = "Console")
      BY <1>2, <1>6 DEF Console
    <2> QED BY <1>1, <2>1, PromptStays
  <1> QED BY <1>7, <1>8, <1>9, StepAssembled

LEMMA ListEnterStep == TerminalInv /\ ListEnter => TerminalStepped
  <1>1. SUFFICES ASSUME TerminalInv, ListEnter
                 PROVE  TerminalStepped
    OBVIOUS
  <1>2. /\ view' = ShowConsole /\ option' = 0 /\ Pushes(0)
        /\ UNCHANGED <<recall, turn, thinking, up>>
    BY <1>1 DEF ListEnter
  <1>3. ViewOk' /\ RecallOk' /\ ShownOk' /\ view'.at = "Console"
    BY <1>1, <1>2, ViewShown, RecallKept, NothingPushed DEF TerminalInv, ShowConsole
  <1>4. TurnOk'
    <2>1. /\ chosen \in [preferred : Range(Models) \cup {<<>>}, awaited : Texts, plan : BOOLEAN]
          /\ view.index \in Nat
          /\ view.at = "Models" => view.index = 0 \/ view.index < Len(Models) + 1
      BY <1>1 DEF TerminalInv, TurnOk, ViewOk
    <2>2. chosen' = IF view.at = "Models"
                      THEN [chosen EXCEPT !.preferred =
                              IF view.index = 0 THEN <<>> ELSE Models[view.index]]
                    ELSE chosen
      BY <1>1 DEF ListEnter
    <2>3. view.at = "Models" /\ view.index # 0 => Models[view.index] \in Range(Models)
      <3>1. DOMAIN Models = 1 .. Len(Models) /\ Len(Models) \in Nat
        BY TerminalAssumption, LenProperties
      <3>2. view.at = "Models" /\ view.index # 0 => view.index \in DOMAIN Models
        BY <2>1, <3>1
      <3> QED BY <3>2 DEF Range
    <2>4. chosen' \in [preferred : Range(Models) \cup {<<>>}, awaited : Texts, plan : BOOLEAN]
      BY <2>1, <2>2, <2>3
    <2> QED BY <1>1, <1>2, <2>4 DEF TerminalInv, TurnOk
  <1>5. PromptOk' /\ LineEdited(prompt, prompt', OfferedTexts)
    <2>1. CASE view.at = "Help" /\ view.index < view.size
      <3> DEFINE name == Names[view.index + 1]
      <3>1. prompt' = ReplaceWithInput(<<Slash>> \o name)
        BY <1>1, <2>1 DEF ListEnter
      <3>2. view.index + 1 \in DOMAIN Names
        <4>1. view.index \in Nat /\ view.size = Len(Names)
          BY <1>1, <2>1 DEF TerminalInv, ViewOk
        <4>2. DOMAIN Names = 1 .. Len(Names) /\ Len(Names) \in Nat
          BY TerminalAssumption, LenProperties
        <4> QED BY <2>1, <4>1, <4>2
      <3>3. name \in Seq(Chars) /\ <<Slash>> \o name \in OfferedTexts
        BY <3>2, NamesTyped DEF Texts, Range, OfferedTexts
      <3>4. <<Slash>> \o name \in Texts
        BY <3>3, Alphabet, Before DEF Texts
      <3>5. KeptPrompt(prompt') /\ LineEdited(prompt, prompt', OfferedTexts)
        BY <3>1, <3>3, <3>4, ReplaceEdited
      <3> QED BY <1>3, <3>5 DEF PromptOk, Console
    <2>2. CASE ~(view.at = "Help" /\ view.index < view.size)
      <3>1. prompt' = EmptyPrompt
        BY <1>1, <2>2 DEF ListEnter
      <3> QED BY <3>1, PromptEmptied
    <2> QED BY <2>1, <2>2
  <1> QED BY <1>3, <1>4, <1>5, StepAssembled

LEMMA LeaveViewStep == TerminalInv /\ LeaveView => TerminalStepped
  <1>1. SUFFICES ASSUME TerminalInv, LeaveView
                 PROVE  TerminalStepped
    OBVIOUS
  <1>2. /\ UNCHANGED <<recall, turn, thinking, chosen>> /\ Pushes(0)
        /\ \/ view' = ShowConsole /\ prompt' = EmptyPrompt /\ option' = 0 /\ UNCHANGED up
           \/ up' = FALSE /\ UNCHANGED <<view, prompt, option>>
    BY <1>1 DEF LeaveView
  <1>3. RecallOk' /\ ShownOk'
    BY <1>1, <1>2, RecallKept, NothingPushed DEF TerminalInv
  <1>4. CASE view' = ShowConsole /\ prompt' = EmptyPrompt /\ option' = 0 /\ UNCHANGED up
    <2>1. ViewOk' /\ PromptOk' /\ LineEdited(prompt, prompt', OfferedTexts)
      BY <1>4, ViewShown, PromptEmptied
    <2>2. TurnOk'
      BY <1>1, <1>2, <1>4 DEF TerminalInv, TurnOk
    <2> QED BY <1>3, <2>1, <2>2, StepAssembled
  <1>5. CASE up' = FALSE /\ UNCHANGED <<view, prompt, option>>
    <2>1. ViewOk' /\ PromptOk' /\ LineEdited(prompt, prompt', OfferedTexts)
      <3>1. UNCHANGED view /\ UNCHANGED prompt /\ (Console => view'.at = "Console")
        BY <1>5 DEF Console
      <3> QED BY <1>1, <3>1, SameView, PromptStays DEF TerminalInv
    <2>2. up' \in BOOLEAN
      BY <1>5, Zenon
    <2>3. TurnOk'
      BY <1>1, <1>2, <1>5, <2>2 DEF TerminalInv, TurnOk
    <2> QED BY <1>3, <2>1, <2>3, StepAssembled
  <1> QED BY <1>2, <1>4, <1>5

LEMMA EntryMsgStep == TerminalInv /\ EntryMsg => TerminalStepped
  <1>1. SUFFICES ASSUME TerminalInv, EntryMsg
                 PROVE  TerminalStepped
    OBVIOUS
  <1>2. Pushes(1) /\ UNCHANGED prompt /\ UNCHANGED recall /\ UNCHANGED state
    BY <1>1 DEF EntryMsg
  <1>3. ViewOk' /\ TurnOk' /\ view' = view /\ RecallOk' /\ ShownOk'
    BY <1>1, <1>2, StateKept, RecallKept, OnePushed DEF TerminalInv
  <1>4. PromptOk' /\ LineEdited(prompt, prompt', OfferedTexts)
    BY <1>1, <1>2, <1>3, PromptStays DEF Console
  <1> QED BY <1>3, <1>4, StepAssembled

LEMMA TurnMsgStep == TerminalInv /\ TurnMsg => TerminalStepped
  <1>1. SUFFICES ASSUME TerminalInv, TurnMsg
                 PROVE  TerminalStepped
    OBVIOUS
  <1>2. /\ UNCHANGED <<prompt, recall, view, option, chosen, up>>
        /\ Pushes(0) \/ Pushes(1)
    BY <1>1 DEF TurnMsg
  <1>3. turn' \in Turns
    BY <1>1 DEF TurnMsg, Turns, TerminalInv, TurnOk
  <1>4. thinking' \in BOOLEAN
    <2>1. thinking' = thinking \/ thinking' = FALSE \/ thinking' = TRUE
      BY <1>1, Zenon DEF TurnMsg
    <2> QED BY <1>1, <2>1, Zenon DEF TerminalInv, TurnOk
  <1>5. TurnOk'
    BY <1>1, <1>2, <1>3, <1>4 DEF TerminalInv, TurnOk
  <1>6. RecallOk' /\ ViewOk' /\ ShownOk' /\ UNCHANGED prompt
    BY <1>1, <1>2, RecallKept, SameView, NothingPushed, OnePushed DEF TerminalInv
  <1>7. PromptOk' /\ LineEdited(prompt, prompt', OfferedTexts)
    BY <1>1, <1>2, <1>6, PromptStays DEF Console
  <1> QED BY <1>5, <1>6, <1>7, StepAssembled

LEMMA ViewMsgStep == TerminalInv /\ ViewMsg => TerminalStepped
  <1>1. SUFFICES ASSUME TerminalInv, ViewMsg
                 PROVE  TerminalStepped
    OBVIOUS
  <1>2. /\ prompt' = EmptyPrompt /\ option' = 0 /\ Pushes(0)
        /\ UNCHANGED <<recall, turn, thinking, chosen, up>>
    BY <1>1 DEF ViewMsg
  <1>3. \/ \E at \in {"Providers", "Sessions", "Skills"} : view' = ShowList(at, Len(Models))
        \/ view' = ShowList("Usage", 0)
    BY <1>1 DEF ViewMsg
  <1>4. TurnOk'
    BY <1>1, <1>2 DEF TerminalInv, TurnOk
  <1>5. RecallOk' /\ ViewOk' /\ ShownOk' /\ PromptOk' /\ LineEdited(prompt, prompt', OfferedTexts)
    BY <1>1, <1>2, <1>3, RecallKept, ViewShown, NothingPushed, PromptEmptied DEF TerminalInv
  <1> QED BY <1>4, <1>5, StepAssembled

LEMMA ModelsMsgStep == TerminalInv /\ ModelsMsg => TerminalStepped
  <1>1. SUFFICES ASSUME TerminalInv, ModelsMsg
                 PROVE  TerminalStepped
    OBVIOUS
  <1>2. UNCHANGED <<recall, turn, thinking, up>>
    BY <1>1 DEF ModelsMsg
  <1>3. chosen \in [preferred : Range(Models) \cup {<<>>}, awaited : Texts, plan : BOOLEAN]
    BY <1>1 DEF TerminalInv, TurnOk
  <1>4. RecallOk'
    BY <1>1, <1>2, RecallKept DEF TerminalInv
  <1>5. CASE /\ view' = ShowList("Models", Len(Models) + 1) /\ prompt' = EmptyPrompt
             /\ option' = 0 /\ Pushes(0) /\ UNCHANGED chosen
    <2>1. TurnOk'
      BY <1>1, <1>2, <1>5 DEF TerminalInv, TurnOk
    <2>2. ViewOk' /\ ShownOk' /\ PromptOk' /\ LineEdited(prompt, prompt', OfferedTexts)
      BY <1>1, <1>5, ViewShown, NothingPushed, PromptEmptied DEF TerminalInv
    <2> QED BY <1>4, <2>1, <2>2, StepAssembled
  <1>6. CASE /\ UNCHANGED <<view, prompt, option>>
             /\ Pushes(0) \/ Pushes(1)
             /\ \/ /\ chosen.awaited \in Range(Models)
                   /\ chosen' = [chosen EXCEPT !.awaited = <<>>, !.preferred = chosen.awaited]
                \/ chosen' = [chosen EXCEPT !.awaited = <<>>]
    <2>1. chosen' \in [preferred : Range(Models) \cup {<<>>}, awaited : Texts, plan : BOOLEAN]
      <3>1. <<>> \in Texts
        BY DEF Texts
      <3> QED BY <1>3, <1>6, <3>1
    <2>2. TurnOk'
      BY <1>1, <1>2, <1>6, <2>1 DEF TerminalInv, TurnOk
    <2>3. UNCHANGED view /\ UNCHANGED prompt /\ (Console => view'.at = "Console")
      BY <1>6 DEF Console
    <2>4. ViewOk' /\ ShownOk' /\ PromptOk' /\ LineEdited(prompt, prompt', OfferedTexts)
      BY <1>1, <1>6, <2>3, SameView, NothingPushed, OnePushed, PromptStays DEF TerminalInv
    <2> QED BY <1>4, <2>2, <2>4, StepAssembled
  <1> QED BY <1>1, <1>5, <1>6 DEF ModelsMsg

LEMMA SessionMsgStep == TerminalInv /\ (ResumedMsg \/ ClosedMsg) => TerminalStepped
  <1>1. SUFFICES ASSUME TerminalInv, ResumedMsg \/ ClosedMsg
                 PROVE  TerminalStepped
    OBVIOUS
  <1>2. /\ view' = ShowConsole /\ prompt' = EmptyPrompt /\ option' = 0 /\ turn' = "None"
        /\ UNCHANGED <<thinking, chosen, up>>
        /\ UNCHANGED recall \/ StopRecall
    BY <1>1 DEF ResumedMsg, ClosedMsg
  <1>3. PICK n \in 0 .. 2 : history' = NewEntries(n) /\ pushed' = pushed + n
    BY <1>1 DEF ResumedMsg, ClosedMsg
  <1>4. ShownOk'
    <2>1. n \in Nat /\ ShownOk /\ printed \in Nat /\ 0 \in Nat
      BY <1>1, <1>3, LenProperties DEF TerminalInv, ShownOk
    <2>2. CASE ResumedMsg
      <3>1. Draw(printed, screen) /\ resumed' \in BOOLEAN /\ ~(~resumed')
        BY <2>2, Zenon DEF ResumedMsg
      <3> QED BY <1>3, <2>1, <3>1, ReplacedTranscript
    <2>3. CASE ClosedMsg
      <3>1. Draw(0, <<>>) /\ resumed' \in BOOLEAN
        BY <2>3, Zenon DEF ClosedMsg, ClearTerminal
      <3> QED BY <1>3, <2>1, <3>1, ReplacedTranscript
    <2> QED BY <1>1, <2>2, <2>3
  <1>5. TurnOk'
    BY <1>1, <1>2 DEF TerminalInv, TurnOk, Turns
  <1>6. RecallOk' /\ ViewOk' /\ PromptOk' /\ LineEdited(prompt, prompt', OfferedTexts)
    BY <1>1, <1>2, RecallKept, ViewShown, PromptEmptied DEF TerminalInv
  <1> QED BY <1>4, <1>5, <1>6, StepAssembled

LEMMA TerminalStutter == TerminalInv /\ UNCHANGED terminalVars => TerminalStepped
  <1>1. SUFFICES ASSUME TerminalInv, UNCHANGED terminalVars
                 PROVE  TerminalStepped
    OBVIOUS
  <1>2. UNCHANGED prompt /\ UNCHANGED recall /\ UNCHANGED state /\ UNCHANGED transcript
    BY <1>1 DEF terminalVars
  <1>3. ViewOk' /\ TurnOk' /\ view' = view /\ RecallOk'
    BY <1>1, <1>2, StateKept, RecallKept DEF TerminalInv
  <1>4. ShownOk'
    BY <1>1, <1>2 DEF TerminalInv, ShownOk, transcript
  <1>5. PromptOk' /\ LineEdited(prompt, prompt', OfferedTexts)
    BY <1>1, <1>2, <1>3, PromptStays DEF Console
  <1> QED BY <1>3, <1>4, <1>5, StepAssembled

LEMMA TerminalStep == TerminalInv /\ [TerminalNext]_terminalVars => TerminalStepped
  BY TypeKeyStep, PasteKeyStep, RemoveKeyStep, CompletionKeyStep, TabKeyStep, RightKeyStep,
     CursorKeyStep, UpKeyStep, DownKeyStep, InterruptKeyStep, SubmitTextStep,
     SubmitCommandStep, ApprovalKeyStep, ListKeyStep, ListEnterStep, LeaveViewStep,
     EntryMsgStep, TurnMsgStep, ViewMsgStep, ModelsMsgStep, SessionMsgStep, TerminalStutter
     DEF TerminalNext

LEMMA TerminalInvariant == TerminalSpec => []TerminalInv
  <1>1. TerminalInit => TerminalInv
    BY TerminalStart
  <1>2. TerminalInv /\ [TerminalNext]_terminalVars => TerminalInv'
    BY TerminalStep DEF TerminalStepped
  <1> QED BY <1>1, <1>2, PTL DEF TerminalSpec

-----------------------------------------------------------------------------
(* Terminal: theorems *)

\* Cursors stay in their texts, selections in their lists and options, the recalled
\* index in a bounded history, and no view but the console has a prompt (state.rs,
\* prompt.rs, list.rs).
THEOREM TerminalTyped == TerminalSpec => []TerminalTypeOK
  <1>1. ASSUME TerminalInv
        PROVE  TerminalTypeOK
    <2>1. prompt \in PromptType /\ prompt.cursor <= Len(prompt.input)
      BY <1>1 DEF TerminalInv, PromptOk, KeptPrompt, GoodPrompt
    <2>2. /\ prompt.kind \in {"Empty", "Text", "Command", "File"} /\ prompt.input \in Texts
          /\ prompt.cursor \in 0 .. Len(prompt.input)
          /\ prompt.matches # <<>> => prompt.selected < Len(prompt.matches)
      BY <1>1, <2>1, PromptTyped DEF TerminalInv, PromptOk, KeptPrompt, GoodPrompt
    <2>3. recall.at \in 0 .. Len(recall.entries) /\ Len(recall.entries) <= HistoryLimit
      BY <1>1, LenProperties DEF TerminalInv, RecallOk
    <2>4. /\ view.at \in Lists \cup {"Console", "Usage"}
          /\ view.index = 0 \/ view.index < view.size
      BY <1>1 DEF TerminalInv, ViewOk
    <2>5. ~Console => prompt = EmptyPrompt
      BY <1>1 DEF TerminalInv, PromptOk
    <2>6. /\ turn \in Turns /\ thinking \in BOOLEAN /\ up \in BOOLEAN /\ resumed \in BOOLEAN
          /\ option \in 0 .. 2 /\ printed = Len(history)
      BY <1>1, Zenon DEF TerminalInv, TurnOk, ShownOk
    <2>7. chosen.preferred \in Range(Models) \cup {<<>>}
      BY <1>1 DEF TerminalInv, TurnOk
    <2> QED BY <2>2, <2>3, <2>4, <2>5, <2>6, <2>7 DEF TerminalTypeOK
  <1> QED BY <1>1, TerminalInvariant, PTL

\* What a prompt keeps beside its text is what the text says: the parse of a command,
\* the place of a mention and the paths offered for it (CommandPromptState and
\* FileAutocompleteState).
THEOREM MentionsFresh == TerminalSpec => []DerivedFresh
  <1>1. ASSUME TerminalInv
        PROVE  DerivedFresh
    <2>1. GoodPrompt(prompt) /\ Matched(prompt) /\ prompt \in PromptType
      BY <1>1 DEF TerminalInv, PromptOk, KeptPrompt, GoodPrompt
    <2>2. prompt.kind = "Command" => prompt.parsed = prompt.input
      BY <2>1 DEF GoodPrompt
    <2>3. ASSUME prompt.kind = "File"
          PROVE  /\ AtEnd(prompt)
                 /\ prompt.start \in DOMAIN prompt.input
                 /\ prompt.input[prompt.start] = AtSign
                 /\ Range(Query(prompt)) \cap White \subseteq PathChars
                 /\ prompt.matches = FileMatches(Query(prompt))
      <3>1. Mention(prompt) /\ prompt.matches = FileMatches(Query(prompt))
        BY <2>1, <2>3 DEF GoodPrompt, Matched
      <3>2. /\ prompt.input \in Seq(Chars) /\ Len(prompt.input) \in Nat
            /\ DOMAIN prompt.input = 1 .. Len(prompt.input)
        BY <2>1, PromptTyped, LenProperties DEF Texts
      <3>3. prompt.start \in 0 .. Len(prompt.input) /\ prompt.start \in Nat
        BY <3>1, <3>2 DEF Mention
      <3> DEFINE q == Query(prompt)
      <3>4. /\ q \in Seq(Chars) /\ Len(q) = Len(prompt.input) - prompt.start
            /\ \A i \in 1 .. Len(prompt.input) - prompt.start :
                 q[i] = prompt.input[prompt.start + i]
        BY <3>2, <3>3, Cut, ZenonT(40) DEF Query
      <3>5. ASSUME NEW c \in Range(q), c \in White
            PROVE  c \in PathChars
        <4> HIDE DEF q
        <4>1. PICK i \in 1 .. Len(q) : c = q[i]
          BY <3>4, <3>5, LenProperties DEF Range
        <4>2. prompt.start + i \in prompt.start + 1 .. Len(prompt.input)
          BY <3>2, <3>3, <3>4
        <4>3. c = prompt.input[prompt.start + i]
          BY <3>4, <4>1
        <4> QED BY <3>1, <3>5, <4>2, <4>3 DEF Mention
      <3> HIDE DEF q
      <3>6. Range(q) \cap White \subseteq PathChars
        BY <3>5
      <3> QED BY <3>1, <3>2, <3>6 DEF Mention, AtEnd, q
    <2> QED BY <2>2, <2>3 DEF DerivedFresh, PathChars
  <1> QED BY <1>1, TerminalInvariant, PTL

\* The screen of a session that was not resumed shows every entry of the transcript,
\* once and in order (insert_transcript_entries, clear_terminal).
THEOREM TranscriptIsShown == TerminalSpec => []TranscriptShown
  <1>1. TerminalInv => TranscriptShown
    BY DEF TerminalInv, ShownOk, TranscriptShown
  <1> QED BY <1>1, TerminalInvariant, PTL

\* Every step of the interface is one of a line editor, or leaves its line.
LEMMA EditorStep ==
    ASSUME LineEdited(prompt, prompt', OfferedTexts)
    PROVE  Editor!Next
  <1> DEFINE t == Rendered(prompt)
             m == CursorPosition(prompt)
             u == Rendered(prompt')
             n == CursorPosition(prompt')
  <1>1. t' = u /\ m' = n
    BY DEF Rendered, CursorPosition
  <1>2. CASE u = t /\ n \in 0 .. Len(t)
    <2>1. Editor!Move
      BY <1>1, <1>2 DEF Editor!Move
    <2> QED BY <2>1 DEF Editor!Next
  <1>3. CASE \E s \in Insertable : u = Spliced(t, m, s) /\ n = m + Len(s)
    <2>1. Editor!Insert
      BY <1>1, <1>3 DEF Editor!Insert, Editor!Head0, Editor!Tail0, Spliced, Insertable
    <2> QED BY <2>1 DEF Editor!Next
  <1>4. CASE m > 0 /\ u = RemoveAt(t, m) /\ n = m - 1
    <2>1. Editor!RemoveBefore
      BY <1>1, <1>4 DEF Editor!RemoveBefore, Editor!RemoveAt, RemoveAt
    <2> QED BY <2>1 DEF Editor!Next
  <1>5. CASE m < Len(t) /\ u = RemoveAt(t, m + 1) /\ n = m
    <2>1. Editor!RemoveHere
      BY <1>1, <1>5 DEF Editor!RemoveHere, Editor!RemoveAt, RemoveAt
    <2> QED BY <2>1 DEF Editor!Next
  <1>6. CASE /\ \E i \in 0 .. m, j \in m .. Len(t), s \in Completed :
                  u = SubSeq(t, 1, i) \o s \o SubSeq(t, j + 1, Len(t))
             /\ n = Len(u)
    <2>1. Editor!Complete
      BY <1>1, <1>6 DEF Editor!Complete, Editor!Head0, Editor!Tail0, Completed
    <2> QED BY <2>1 DEF Editor!Next
  <1>7. CASE u \in OfferedTexts \cup {<<>>} /\ n = Len(u)
    <2>1. Editor!Replace
      BY <1>1, <1>7 DEF Editor!Replace, OfferedTexts
    <2> QED BY <2>1 DEF Editor!Next
  <1> QED BY <1>2, <1>3, <1>4, <1>5, <1>6, <1>7 DEF LineEdited

\* The prompt implements the line editor, whatever it takes its text for: no key that
\* turns a text, a command or a mention into another loses, doubles or moves a
\* character (prompt.rs push, backspace, delete, accept_suggestion).
THEOREM PromptIsEditor == TerminalSpec => PromptEdits
  <1>1. TerminalInit => Editor!Init
    BY NewPrompts DEF TerminalInit, Editor!Init
  <1>2. TerminalInv /\ [TerminalNext]_terminalVars => [Editor!Next]_(Editor!vars)
    BY TerminalStep, EditorStep DEF TerminalStepped
  <1> QED BY <1>1, <1>2, TerminalInvariant, PTL DEF TerminalSpec, PromptEdits, Editor!Spec

=============================================================================
