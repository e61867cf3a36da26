------------------------------- MODULE MCHost -------------------------------
(***************************************************************************)
(* Host with three process identifiers, so that a chat, the router it      *)
(* starts and one more command run together, and every identifier can be   *)
(* used again.                                                             *)
(***************************************************************************)
EXTENDS Host

Plain(name) == Command(name, NoEdit)

MCCommands ==
  {Plain("foreground"), Plain("start"), Plain("stop"), Plain("login"),
   Plain("chat"), Plain("other"),
   Command("edit", Edit("local", ProviderKey, Secret)),
   Command("edit", Edit("global", ApiKeyName, NoValue))}

Routers == {Plain("foreground"), Plain("start"), Plain("stop")}

\* A locked keyring and a user from an earlier login; an enforced keyring and
\* no user.
MCConfigs ==
  {[local |-> TRUE, autoStart |-> TRUE, ref |-> TRUE, env |-> FALSE,
    enforce |-> FALSE, unlocked |-> FALSE, loggedIn |-> TRUE],
   [local |-> TRUE, autoStart |-> FALSE, ref |-> FALSE, env |-> FALSE,
    enforce |-> TRUE, unlocked |-> TRUE, loggedIn |-> FALSE]}
=============================================================================
